------------------------------- MODULE P2Malloc --------------------------------
(***************************************************************************)
(* p2malloc.c as its threads run it.  A thread is between calls ("idle") or *)
(* at one of the steps of a call; a step ends where another thread can see  *)
(* or change what the code reads or writes next: at an atomic operation, a  *)
(* lock, an unlock or a call to the OS.  A free list is the sequence of     *)
(* Freelist.tla, changed at once by the thread that holds its lock.         *)
(*                                                                          *)
(* Blocks are named by the address of their first byte, which is the        *)
(* address of their header while they are in use and of their list node     *)
(* while they are free; the pointer a caller sees is P2_HEADER_SIZE above.  *)
(***************************************************************************)
EXTENDS SizeClasses, Freelist, FiniteSets, FiniteSetsExt

CONSTANTS
  Threads,        \* the threads of the program
  NoThread,       \* a value that is no thread
  NPages,         \* pages the OS can hand out, at PAGE_BYTES, 2 * PAGE_BYTES, ...
  MallocSizes,    \* sizes that clients pass to p2malloc,
  CallocArgs,     \* pairs <<nmemb, size>> they pass to p2calloc,
  ReallocSizes    \* and sizes they pass to p2realloc

ASSUME ClientAssumption ==
  /\ NoThread \notin Threads
  /\ NPages \in Nat
  /\ MallocSizes \subseteq SizeT
  /\ CallocArgs \subseteq SizeT \X SizeT
  /\ ReallocSizes \subseteq SizeT

VARIABLES
  init_state,     \* 0 = uninit, 1 = initing, 2 = ready
  freelists,      \* the blocks of each free list, first to last
  lock,           \* the thread that holds each list's mutex, or NoThread
  allocated,      \* the two atomic counters
  totmem,
  mapped,         \* addresses of the pages the OS has mapped
  hdr,            \* the headers of the blocks in use
  live,           \* the pointers that clients hold between calls
  pc,             \* where each thread is,
  call            \* and the arguments and locals of its call

shared == <<init_state, freelists, lock, allocated, totmem, mapped, hdr, live>>
vars   == <<init_state, freelists, lock, allocated, totmem, mapped, hdr, live,
            pc, call>>

NULL == 0

HdrOf(ptr) == ptr - P2_HEADER_SIZE
PtrOf(b)   == b + P2_HEADER_SIZE

HeapPages == {PAGE_BYTES * k : k \in 1..NPages}
HeapEnd   == PAGE_BYTES * (NPages + 1)

\* The pages of an OS allocation of n bytes at a page address.
PagesOf(page, n) == {p \in HeapPages : page <= p /\ p < page + n}

\* The places where the OS can put n bytes; mmap of length 0 fails.
Room(n) ==
  {page \in HeapPages : /\ n > 0
                        /\ page + n <= HeapEnd
                        /\ PagesOf(page, n) \cap mapped = {}}

IS_LARGE(h) == h.alloc_size # 0

\* hdr with the header of block b written, or overwritten by something else.
WithHeader(b, h)  == [c \in DOMAIN hdr \cup {b} |-> IF c = b THEN h ELSE hdr[c]]
WithoutHeader(b)  == [c \in DOMAIN hdr \ {b} |-> hdr[c]]

\* The locals of a thread between calls.  In a call, op is the function the
\* client called, ptr its pointer argument, size the size it passed (for
\* p2calloc the product), ret the result; idx, blk and alloc_size are the
\* locals idx, hdr / page / node and alloc_size of p2malloc and p2free.
NewCall(op, ptr, size) ==
  [op |-> op, ptr |-> ptr, size |-> size, idx |-> 0, blk |-> NULL,
   alloc_size |-> 0, ret |-> NULL]

NoCall == NewCall("none", NULL, 0)

--------------------------------------------------------------------------------
Init ==
  /\ init_state = 0
  /\ freelists = [i \in Freelists |-> <<>>]
  /\ lock = [i \in Freelists |-> NoThread]
  /\ allocated = 0
  /\ totmem = 0
  /\ mapped = {}
  /\ hdr = <<>>
  /\ live = {}
  /\ pc = [t \in Threads |-> "idle"]
  /\ call = [t \in Threads |-> NoCall]

Goto(t, label) == pc' = [pc EXCEPT ![t] = label]

\* Thread t moves from one label to another.
Move(t, from, to) ==
  /\ pc[t] = from
  /\ Goto(t, to)

\* Where a thread goes when p2malloc returns ptr: p2calloc zeroes the block,
\* p2realloc copies into it, and either returns NULL at once.
AfterMalloc(c, ptr) ==
  IF ptr = NULL THEN "done"
  ELSE IF c.op = "calloc" THEN "zero_payload"
  ELSE IF c.op = "realloc" /\ c.ptr # NULL THEN "copy_payload"
  ELSE "done"

Resume(t, ptr) ==
  /\ call' = [call EXCEPT ![t].ret = ptr]
  /\ Goto(t, AfterMalloc(call[t], ptr))

--------------------------------------------------------------------------------
(***************************************************************************)
(* The calls of the clients.  A client frees or reallocates only a pointer *)
(* it holds, and while the call runs nobody else holds it.                 *)
(***************************************************************************)

\* The first lines of p2malloc, which p2calloc and p2realloc run too.
EnterMalloc(t, c) ==
  IF c.size = 0 \/ c.size > SIZE_MAX - P2_HEADER_SIZE
  THEN /\ call' = [call EXCEPT ![t] = c]
       /\ Goto(t, "done")
  ELSE /\ call' = [call EXCEPT ![t] = c]
       /\ Goto(t, "ensure_init")

p2malloc(t, size) ==
  /\ pc[t] = "idle"
  /\ EnterMalloc(t, NewCall("malloc", NULL, size))
  /\ UNCHANGED shared

p2calloc(t, nmemb, size) ==
  /\ pc[t] = "idle"
  /\ IF nmemb = 0 \/ size = 0 \/ CallocOverflows(nmemb, size)
     THEN /\ call' = [call EXCEPT ![t] = NewCall("calloc", NULL, 0)]
          /\ Goto(t, "done")
     ELSE EnterMalloc(t, NewCall("calloc", NULL, Wrap(nmemb * size)))
  /\ UNCHANGED shared

\* p2free(NULL) returns at once and is not an action.
p2free(t, ptr) ==
  /\ pc[t] = "idle"
  /\ ptr \in live
  /\ live' = live \ {ptr}
  /\ call' = [call EXCEPT ![t] = [NewCall("free", ptr, 0) EXCEPT !.blk = HdrOf(ptr)]]
  /\ Goto(t, "free")
  /\ UNCHANGED <<init_state, freelists, lock, allocated, totmem, mapped, hdr>>

\* Mutation: a slab block is taken to have room for any size.
StaysInPlace_AnySlab(h, size) == ~IS_LARGE(h)

\* The block stays where it is: same bucket and not from the OS.
StaysInPlace(h, size) ==
  ~IS_LARGE(h) /\ get_freelist_idx(size) = get_freelist_idx(h.size)

p2realloc(t, ptr, size) ==
  LET c == NewCall("realloc", ptr, size)
  IN  /\ pc[t] = "idle"
      /\ ptr \in live \cup {NULL}
      /\ live' = live \ {ptr}
      /\ IF ptr = NULL THEN EnterMalloc(t, c)
         ELSE IF size = 0
         THEN /\ call' = [call EXCEPT ![t] = [c EXCEPT !.blk = HdrOf(ptr)]]
              /\ Goto(t, "free")
         ELSE IF StaysInPlace(hdr[HdrOf(ptr)], size)
         THEN /\ call' = [call EXCEPT ![t] = [c EXCEPT !.ret = ptr]]
              /\ Goto(t, "realloc_sub")
         ELSE EnterMalloc(t, c)
      /\ UNCHANGED <<init_state, freelists, lock, allocated, totmem, mapped, hdr>>

--------------------------------------------------------------------------------
(***************************************************************************)
(* ensure_init: the thread that wins the compare-and-swap initialises the  *)
(* lists, every other one spins until it is done.                          *)
(***************************************************************************)

\* What p2malloc does after ensure_init: choose the large path or a bucket.
Dispatch(t) ==
  LET idx == get_freelist_idx(call[t].size)
  IN  IF idx = -1
      THEN /\ Goto(t, "os_alloc")
           /\ UNCHANGED call
      ELSE /\ Goto(t, "lock")
           /\ call' = [call EXCEPT ![t].idx = idx]

CompareAndSwap(t) ==
  /\ pc[t] = "ensure_init"
  /\ IF init_state = 0
     THEN init_state' = 1 /\ Goto(t, "freelists_init")
     ELSE UNCHANGED init_state /\ Goto(t, "init_spin")
  /\ UNCHANGED <<freelists, lock, allocated, totmem, mapped, hdr, live, call>>

freelists_init(t) ==
  /\ Move(t, "freelists_init", "init_ready")
  /\ freelists' = [i \in Freelists |-> <<>>]
  /\ lock' = [i \in Freelists |-> NoThread]
  /\ UNCHANGED <<init_state, allocated, totmem, mapped, hdr, live, call>>

\* Mutation: the end of the initialisation is not announced.
InitReady_Silent(t) ==
  /\ pc[t] = "init_ready"
  /\ Dispatch(t)
  /\ UNCHANGED <<init_state, freelists, lock, allocated, totmem, mapped, hdr, live>>

InitReady(t) ==
  /\ pc[t] = "init_ready"
  /\ init_state' = 2
  /\ Dispatch(t)
  /\ UNCHANGED <<freelists, lock, allocated, totmem, mapped, hdr, live>>

Spin(t) ==
  /\ pc[t] = "init_spin"
  /\ init_state # 2
  /\ UNCHANGED vars

\* Mutation: a started initialisation passes for a finished one.
SpinEnds_Early(t) ==
  /\ pc[t] = "init_spin"
  /\ init_state # 0
  /\ Dispatch(t)
  /\ UNCHANGED shared

SpinEnds(t) ==
  /\ pc[t] = "init_spin"
  /\ init_state = 2
  /\ Dispatch(t)
  /\ UNCHANGED shared

--------------------------------------------------------------------------------
(***************************************************************************)
(* p2malloc past a size that fits no bucket: pages straight from the OS.   *)
(***************************************************************************)
LargeAlloc(t) ==
  LET alloc_size == page_align(Wrap(P2_HEADER_SIZE + call[t].size))
  IN  /\ Move(t, "os_alloc", "add_allocated")
      /\ \E page \in Room(alloc_size) :
           /\ mapped' = mapped \cup PagesOf(page, alloc_size)
           /\ call' = [call EXCEPT ![t].blk = page, ![t].alloc_size = alloc_size]
      /\ UNCHANGED <<init_state, freelists, lock, allocated, totmem, hdr, live>>

\* Mutation: ask the OS until it gives in.
LargeAllocFails_Retries(t) ==
  /\ pc[t] = "os_alloc"
  /\ UNCHANGED vars

\* The OS can refuse any request.
LargeAllocFails(t) ==
  /\ pc[t] = "os_alloc"
  /\ Resume(t, NULL)
  /\ UNCHANGED shared

\* Mutation: the block is not marked as large.
LargeAddAllocated_Unmarked(t) ==
  /\ Move(t, "add_allocated", "add_totmem")
  /\ hdr' = WithHeader(call[t].blk, [size |-> call[t].size, alloc_size |-> 0])
  /\ allocated' = Wrap(allocated + call[t].size)
  /\ UNCHANGED <<init_state, freelists, lock, totmem, mapped, live, call>>

LargeAddAllocated(t) ==
  /\ Move(t, "add_allocated", "add_totmem")
  /\ hdr' = WithHeader(call[t].blk,
               [size |-> call[t].size, alloc_size |-> call[t].alloc_size])
  /\ allocated' = Wrap(allocated + call[t].size)
  /\ UNCHANGED <<init_state, freelists, lock, totmem, mapped, live, call>>

LargeAddTotmem(t) ==
  /\ pc[t] = "add_totmem"
  /\ totmem' = Wrap(totmem + call[t].alloc_size)
  /\ Resume(t, PtrOf(call[t].blk))
  /\ UNCHANGED <<init_state, freelists, lock, allocated, mapped, hdr, live>>

--------------------------------------------------------------------------------
(***************************************************************************)
(* p2malloc within a bucket.  The list's lock is held from "check" to the  *)
(* end of "pop".                                                           *)
(***************************************************************************)
Acquire(t, from, to) ==
  /\ Move(t, from, to)
  /\ lock[call[t].idx] = NoThread
  /\ lock' = [lock EXCEPT ![call[t].idx] = t]
  /\ UNCHANGED <<init_state, freelists, allocated, totmem, mapped, hdr, live, call>>

Unlock(t) == lock' = [lock EXCEPT ![call[t].idx] = NoThread]

SlabLock(t) == Acquire(t, "lock", "check")

ListHasBlock(t) ==
  /\ Move(t, "check", "pop")
  /\ freelists[call[t].idx] # <<>>
  /\ UNCHANGED <<shared, call>>

\* Mutation: the lock is let go during the call to the OS.
ClaimPage_Unlocked(t) ==
  /\ Move(t, "check", "carve")
  /\ freelists[call[t].idx] = <<>>
  /\ \E page \in Room(PAGE_BYTES) :
       /\ mapped' = mapped \cup {page}
       /\ call' = [call EXCEPT ![t].blk = page]
  /\ Unlock(t)
  /\ UNCHANGED <<init_state, freelists, allocated, totmem, hdr, live>>

ClaimPage(t) ==
  /\ Move(t, "check", "carve")
  /\ freelists[call[t].idx] = <<>>
  /\ \E page \in Room(PAGE_BYTES) :
       /\ mapped' = mapped \cup {page}
       /\ call' = [call EXCEPT ![t].blk = page]
  /\ UNCHANGED <<init_state, freelists, lock, allocated, totmem, hdr, live>>

\* Mutation: ask the OS until it gives in, with the lock held.
ClaimPageFails_Retries(t) ==
  /\ pc[t] = "check"
  /\ freelists[call[t].idx] = <<>>
  /\ UNCHANGED vars

ClaimPageFails(t) ==
  /\ pc[t] = "check"
  /\ freelists[call[t].idx] = <<>>
  /\ Unlock(t)
  /\ Resume(t, NULL)
  /\ UNCHANGED <<init_state, freelists, allocated, totmem, mapped, hdr, live>>

CarvePage(t) ==
  LET i == call[t].idx
  IN  /\ Move(t, "carve", "pop")
      /\ totmem' = Wrap(totmem + PAGE_BYTES)
      /\ freelists' = [freelists EXCEPT
                         ![i] = CarvedPage(call[t].blk, PAGE_BYTES, pow2(i)) \o @]
      /\ UNCHANGED <<init_state, lock, allocated, mapped, hdr, live, call>>

\* Mutation: the block is not taken off the list.
TakeFirst_StillListed(t) ==
  LET i == call[t].idx
  IN  /\ Move(t, "pop", "write_header")
      /\ call' = [call EXCEPT ![t].blk = Head(freelists[i])]
      /\ Unlock(t)
      /\ UNCHANGED <<init_state, freelists, allocated, totmem, mapped, hdr, live>>

TakeFirst(t) ==
  LET i == call[t].idx
  IN  /\ Move(t, "pop", "write_header")
      /\ call' = [call EXCEPT ![t].blk = Head(freelists[i])]
      /\ freelists' = [freelists EXCEPT ![i] = Tail(@)]
      /\ Unlock(t)
      /\ UNCHANGED <<init_state, allocated, totmem, mapped, hdr, live>>

WriteHeader(t) ==
  /\ pc[t] = "write_header"
  /\ hdr' = WithHeader(call[t].blk, [size |-> call[t].size, alloc_size |-> 0])
  /\ allocated' = Wrap(allocated + call[t].size)
  /\ Resume(t, PtrOf(call[t].blk))
  /\ UNCHANGED <<init_state, freelists, lock, totmem, mapped, live>>

--------------------------------------------------------------------------------
(***************************************************************************)
(* p2free.  Its first atomic operation, the subtraction from allocated, is *)
(* after its last look at the header.                                      *)
(***************************************************************************)
FreeLarge(t) ==
  LET h == hdr[call[t].blk]
  IN  /\ Move(t, "free", "free_totmem")
      /\ IS_LARGE(h)
      /\ allocated' = Wrap(allocated - h.size)
      /\ call' = [call EXCEPT ![t].alloc_size = h.alloc_size]
      /\ hdr' = WithoutHeader(call[t].blk)
      /\ UNCHANGED <<init_state, freelists, lock, totmem, mapped, live>>

SubTotmem(t) ==
  /\ Move(t, "free_totmem", "free_unmap")
  /\ totmem' = Wrap(totmem - call[t].alloc_size)
  /\ UNCHANGED <<init_state, freelists, lock, allocated, mapped, hdr, live, call>>

Unmap(t) ==
  /\ Move(t, "free_unmap", "done")
  /\ mapped' = mapped \ PagesOf(call[t].blk, call[t].alloc_size)
  /\ UNCHANGED <<init_state, freelists, lock, allocated, totmem, hdr, live, call>>

\* A failed assertion ends the thread at "aborted".
FreeSlab(t) ==
  LET h   == hdr[call[t].blk]
      idx == get_freelist_idx(h.size)
  IN  /\ pc[t] = "free"
      /\ ~IS_LARGE(h)
      /\ allocated' = Wrap(allocated - h.size)
      /\ hdr' = WithoutHeader(call[t].blk)
      /\ call' = [call EXCEPT ![t].idx = idx]
      /\ Goto(t, IF idx \in Freelists THEN "free_lock" ELSE "aborted")
      /\ UNCHANGED <<init_state, freelists, lock, totmem, mapped, live>>

FreeLock(t) == Acquire(t, "free_lock", "free_insert")

FreeInsert(t) ==
  LET i == call[t].idx
  IN  /\ Move(t, "free_insert", "done")
      /\ \E k \in 0..Len(freelists[i]) :
           /\ ScanStopsAt(freelists[i], call[t].blk, k)
           /\ freelists' = [freelists EXCEPT ![i] = OrderedInsert(@, call[t].blk, k)]
      /\ Unlock(t)
      /\ UNCHANGED <<init_state, allocated, totmem, mapped, hdr, live, call>>

--------------------------------------------------------------------------------
(***************************************************************************)
(* What p2calloc and p2realloc do around p2malloc and p2free.  The payload *)
(* is not part of this module.                                             *)
(***************************************************************************)
ZeroPayload(t) ==
  /\ Move(t, "zero_payload", "done")
  /\ UNCHANGED <<shared, call>>

CopyPayload(t) ==
  /\ Move(t, "copy_payload", "free")
  /\ call' = [call EXCEPT ![t].blk = HdrOf(call[t].ptr)]
  /\ UNCHANGED shared

ResizeSub(t) ==
  /\ Move(t, "realloc_sub", "realloc_add")
  /\ allocated' = Wrap(allocated - hdr[HdrOf(call[t].ptr)].size)
  /\ UNCHANGED <<init_state, freelists, lock, totmem, mapped, hdr, live, call>>

ResizeAdd(t) ==
  /\ Move(t, "realloc_add", "done")
  /\ allocated' = Wrap(allocated + call[t].size)
  /\ hdr' = [hdr EXCEPT ![HdrOf(call[t].ptr)].size = call[t].size]
  /\ UNCHANGED <<init_state, freelists, lock, totmem, mapped, live, call>>

\* The pointers the client has again when the call returns: the result, and
\* the argument of a realloc that failed.
HandedBack(c) ==
  ({c.ret} \cup IF c.op = "realloc" /\ c.size # 0 /\ c.ret = NULL THEN {c.ptr} ELSE {})
    \ {NULL}

Return(t) ==
  /\ Move(t, "done", "idle")
  /\ live' = live \cup HandedBack(call[t])
  /\ call' = [call EXCEPT ![t] = NoCall]
  /\ UNCHANGED <<init_state, freelists, lock, allocated, totmem, mapped, hdr>>

--------------------------------------------------------------------------------
Call(t) ==
  \/ \E size \in MallocSizes : p2malloc(t, size)
  \/ \E args \in CallocArgs : p2calloc(t, args[1], args[2])
  \/ \E ptr \in live : p2free(t, ptr)
  \/ \E ptr \in live \cup {NULL}, size \in ReallocSizes : p2realloc(t, ptr, size)

Step(t) ==
  \/ CompareAndSwap(t) \/ freelists_init(t) \/ InitReady(t) \/ Spin(t) \/ SpinEnds(t)
  \/ LargeAlloc(t) \/ LargeAllocFails(t) \/ LargeAddAllocated(t) \/ LargeAddTotmem(t)
  \/ SlabLock(t) \/ ListHasBlock(t) \/ ClaimPage(t) \/ ClaimPageFails(t)
  \/ CarvePage(t) \/ TakeFirst(t) \/ WriteHeader(t)
  \/ FreeLarge(t) \/ SubTotmem(t) \/ Unmap(t)
  \/ FreeSlab(t) \/ FreeLock(t) \/ FreeInsert(t)
  \/ ZeroPayload(t) \/ CopyPayload(t) \/ ResizeSub(t) \/ ResizeAdd(t)
  \/ Return(t)

Next == \E t \in Threads : Call(t) \/ Step(t)

Spec == Init /\ [][Next]_vars

\* The scheduler runs every thread that can run; it does not promise that a
\* thread which waits for a mutex ever gets it.
Fairness == \A t \in Threads : WF_vars(Step(t))

FairSpec == Spec /\ Fairness

--------------------------------------------------------------------------------
(***************************************************************************)
(* Properties.                                                             *)
(***************************************************************************)
Labels ==
  {"idle", "ensure_init", "freelists_init", "init_ready", "init_spin",
   "os_alloc", "add_allocated", "add_totmem",
   "lock", "check", "carve", "pop", "write_header",
   "free", "free_totmem", "free_unmap", "free_lock", "free_insert",
   "zero_payload", "copy_payload", "realloc_sub", "realloc_add", "done", "aborted"}

BlockAddrs == {a \in PAGE_BYTES..(HeapEnd - 1) : a % pow2(0) = 0}
Pointers   == {PtrOf(b) : b \in BlockAddrs}

Headers == [size : SizeT, alloc_size : SizeT]

Calls ==
  [op : {"none", "malloc", "calloc", "free", "realloc"},
   ptr : Pointers \cup {NULL}, size : SizeT, idx : Freelists \cup {-1},
   blk : BlockAddrs \cup {NULL}, alloc_size : SizeT, ret : Pointers \cup {NULL}]

\* Every variable has its type (p2malloc.c:122-125 and the locals of the
\* functions): init_state takes only the three values of its comment, and every
\* node, block and pointer is at a block boundary inside the heap.
TypeOK ==
  /\ init_state \in 0..2
  /\ freelists \in [Freelists -> Seq(BlockAddrs)]
  /\ lock \in [Freelists -> Threads \cup {NoThread}]
  /\ allocated \in SizeT
  /\ totmem \in SizeT
  /\ mapped \subseteq HeapPages
  /\ DOMAIN hdr \subseteq BlockAddrs
  /\ \A b \in DOMAIN hdr : hdr[b] \in Headers
  /\ live \subseteq Pointers
  /\ pc \in [Threads -> Labels]
  /\ call \in [Threads -> Calls]

--------------------------------------------------------------------------------
\* Thread t is between the lock and the unlock of free list i.
InSection(t, i) ==
  /\ pc[t] \in {"check", "carve", "pop", "free_insert"}
  /\ call[t].idx = i

\* Two threads are never inside the critical section of the same free list,
\* also when one of them is still initialising the mutexes (p2malloc.c:222-238,
\* 275-277, 127-134).
MutualExclusion ==
  \A i \in Freelists : \A t, u \in Threads :
    InSection(t, i) /\ InSection(u, i) => t = u

\* Nobody gets past ensure_init while a thread is inside it: while init_state
\* is not 2 there is no lock held, no block and no page, and at most one thread
\* runs freelists_init (p2malloc.c:136-146).
InitExclusive ==
  /\ init_state # 2 => /\ mapped = {} /\ hdr = <<>>
                       /\ \A i \in Freelists : lock[i] = NoThread
                       /\ \A t \in Threads :
                            pc[t] \in {"idle", "ensure_init", "freelists_init",
                                      "init_ready", "init_spin", "done"}
  /\ \A t, u \in Threads :
       pc[t] \in {"freelists_init", "init_ready"} =>
         init_state = 1 /\ (pc[u] \in {"freelists_init", "init_ready"} => u = t)

--------------------------------------------------------------------------------
(***************************************************************************)
(* The heap is divided among chunks: blocks on free lists, blocks with a   *)
(* header, and what a thread has in hand between the two.  kind and of     *)
(* keep apart chunks with the same address, which there must not be.       *)
(***************************************************************************)
Chunk(kind, of, base, bytes) ==
  [kind |-> kind, of |-> of, base |-> base, bytes |-> bytes]

BlockBytes(h) ==
  IF IS_LARGE(h) THEN h.alloc_size ELSE pow2(get_freelist_idx(h.size))

FreeChunks ==
  UNION {{Chunk("list", i, b, pow2(i)) : b \in Range(freelists[i])} : i \in Freelists}

UsedChunks == {Chunk("header", NoThread, b, BlockBytes(hdr[b])) : b \in DOMAIN hdr}

\* The bytes that thread t has taken from the OS or from a list and not passed on.
InHand(t) ==
  IF pc[t] = "carve" THEN PAGE_BYTES
  ELSE IF pc[t] \in {"write_header", "free_lock", "free_insert"} THEN pow2(call[t].idx)
  ELSE IF pc[t] \in {"add_allocated", "free_totmem", "free_unmap"} THEN call[t].alloc_size
  ELSE 0

HandChunks ==
  {Chunk("thread", t, call[t].blk, InHand(t)) : t \in {u \in Threads : InHand(u) # 0}}

Chunks == FreeChunks \cup UsedChunks \cup HandChunks

Disjoint(c, d) == c.base + c.bytes <= d.base \/ d.base + d.bytes <= c.base

Spanned(c) ==
  {page \in HeapPages : page < c.base + c.bytes /\ c.base < page + PAGE_BYTES}

\* No byte of the heap belongs to two chunks, so no two live blocks overlap, no
\* block is both free and in use, and none is on a list twice; every chunk lies
\* in memory that is mapped (p2malloc.c:200-278 as a whole).
NoOverlap ==
  /\ \A i \in Freelists : IsInjective(freelists[i])
  /\ \A c, d \in Chunks : c = d \/ Disjoint(c, d)
  /\ \A c \in Chunks : Spanned(c) \subseteq mapped

\* Out-of-order neighbours on a free list are the rest of a carved page and
\* nothing else, whatever the order of frees (p2malloc.c:166-194, 228-232).
ListsInRuns == \A i \in Freelists : DescentsAreRuns(freelists[i], pow2(i))

--------------------------------------------------------------------------------
\* A block that a client holds has a header, room for its request and a bucket
\* that p2free will find, or its own pages; this also for the pointer of a
\* realloc that failed (p2malloc.c:148-164, 240-244, 269-271, 305-306).
HeldBlocksFit ==
  \A ptr \in live :
    /\ HdrOf(ptr) \in DOMAIN hdr
    /\ LET h == hdr[HdrOf(ptr)]
       IN  /\ IS_LARGE(h) \/ get_freelist_idx(h.size) \in Freelists
           /\ h.size + P2_HEADER_SIZE <= BlockBytes(h)

\* The comment of get_freelist_idx, "Returns -1 when size + header exceeds one
\* page", for the sizes in the headers: no block of a bucket records a request
\* larger than a page (p2malloc.c:148-164, 298-303).
OversizeHasNoBucket ==
  \A b \in DOMAIN hdr :
    hdr[b].size + P2_HEADER_SIZE > PAGE_BYTES => IS_LARGE(hdr[b])

\* What the comment of p2orderedinsert says: nodes in ascending address order.
ListsAscend == \A i \in Freelists : Ascending(freelists[i])

\* The assertion of p2free holds: a block that came from a list goes back to a
\* list (p2malloc.c:270).
FreeFindsBucket == \A t \in Threads : pc[t] # "aborted"

--------------------------------------------------------------------------------
(***************************************************************************)
(* The headers of the blocks in use are the heap the clients were promised.*)
(***************************************************************************)
AbstractHeap == INSTANCE Heap WITH
  HeaderBytes <- P2_HEADER_SIZE,
  Align       <- ALIGNOF_MAX_ALIGN_T,
  owned       <- [ptr \in {PtrOf(b) : b \in DOMAIN hdr} |-> hdr[HdrOf(ptr)].size]

\* p2malloc, p2calloc, p2realloc and p2free, run by any number of threads,
\* implement the heap: a step gives out one aligned block apart from all others,
\* resizes one within its own space, takes one back, or changes none
\* (p2malloc.c:200-310).
ImplementsHeap == AbstractHeap!Spec

--------------------------------------------------------------------------------
\* Under weak fairness: once a thread has won the compare-and-swap, every
\* thread that spins in ensure_init gets out (p2malloc.c:139-145).
SpinningEnds == \A t \in Threads : pc[t] = "init_spin" ~> pc[t] # "init_spin"

\* No failure path returns with a mutex held: a lock that is held is released
\* (p2malloc.c:222-238, 275-277).
LocksReleased ==
  \A i \in Freelists : \A t \in Threads : lock[i] = t ~> lock[i] # t

\* A thread that runs while no other thread is in a call finishes every call it
\* makes: no earlier call, however it ended, left the initialisation, a lock or
\* a list in a state that stops it (p2malloc.c:136-310).
AloneCallsReturn ==
  \A t \in Threads :
    <>[](\A u \in Threads \ {t} : pc[u] = "idle") => []<>(pc[t] = "idle")
================================================================================
