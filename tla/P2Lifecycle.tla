------------------------------ MODULE P2Lifecycle ------------------------------
(***************************************************************************)
(* P2Malloc with p2reset, which p2malloc.h allows while no other thread     *)
(* uses the allocator.  It empties the lists and sets the counters to 0;    *)
(* clients may have forgotten their blocks by then, or hold some of them    *)
(* and go on using and freeing them.                                        *)
(***************************************************************************)
EXTENDS P2Malloc

CONSTANT MaxResets   \* how often the program calls p2reset

ASSUME ResetAssumption == MaxResets \in Nat

VARIABLES
  resets,     \* calls of p2reset so far
  abandoned,  \* history: the chunks that were free at one of them,
  before      \* and at the last: its blocks' bytes, the bytes mapped, the pages

lifeVars == <<vars, resets, abandoned, before>>

Bytes(blocks) == MapThenSumSet(LAMBDA b : hdr[b].size, blocks)

LifeInit ==
  /\ Init
  /\ resets = 0
  /\ abandoned = {}
  /\ before = [allocated |-> 0, totmem |-> 0, pages |-> {}]

\* Mutations: the lists are left as they are; so is totmem.
p2reset_KeepsLists ==
  /\ init_state' = 2
  /\ lock' = IF init_state = 2 THEN lock ELSE [i \in Freelists |-> NoThread]
  /\ allocated' = 0
  /\ totmem' = 0
  /\ UNCHANGED <<freelists, mapped, hdr, pc, call>>

p2reset_KeepsTotmem ==
  /\ init_state' = 2
  /\ freelists' = [i \in Freelists |-> <<>>]
  /\ lock' = IF init_state = 2 THEN lock ELSE [i \in Freelists |-> NoThread]
  /\ allocated' = 0
  /\ UNCHANGED <<totmem, mapped, hdr, pc, call>>

\* p2reset before the first p2malloc initialises the lists, mutexes included.
p2reset ==
  /\ init_state' = 2
  /\ freelists' = [i \in Freelists |-> <<>>]
  /\ lock' = IF init_state = 2 THEN lock ELSE [i \in Freelists |-> NoThread]
  /\ allocated' = 0
  /\ totmem' = 0
  /\ UNCHANGED <<mapped, hdr, pc, call>>

Reset ==
  /\ \A t \in Threads : pc[t] = "idle"
  /\ resets < MaxResets
  /\ p2reset
  /\ \E kept \in SUBSET live : live' = kept
  /\ resets' = resets + 1
  /\ abandoned' = abandoned \cup FreeChunks
  /\ before' = [allocated |-> Bytes(DOMAIN hdr),
                totmem    |-> PAGE_BYTES * Cardinality(mapped),
                pages     |-> mapped]

\* Pages that go back to the OS are no longer pages of before the reset.
LifeNext ==
  \/ Reset
  \/ /\ Next
     /\ before' = [before EXCEPT !.pages = @ \cap mapped']
     /\ UNCHANGED <<resets, abandoned>>

LifeSpec == LifeInit /\ [][LifeNext]_lifeVars

--------------------------------------------------------------------------------
\* No byte is lost nor has two owners, whatever fails on the way: every mapped
\* byte belongs to one free block, block in use or thread, or is among those that
\* were free at a reset.  So nothing abandoned by p2reset is ever handed out again,
\* and a block from before it stays its holder's until it is freed, then serves
\* once more (p2malloc.c:200-278, 315-328, p2malloc.h:33-35).
EveryByteAccounted ==
  LET all == Chunks \cup abandoned
  IN  /\ \A c, d \in all : c = d \/ Disjoint(c, d)
      /\ abandoned \cap Chunks = {}
      /\ MapThenSumSet(LAMBDA c : c.bytes, all) = PAGE_BYTES * Cardinality(mapped)

\* Blocks whose size is not in allocated because a realloc is halfway.
Resizing == {HdrOf(call[t].ptr) : t \in {u \in Threads : pc[u] = "realloc_add"}}

\* Bytes that are mapped and not in totmem: thread t has just mapped them or
\* is about to unmap them.
Uncounted(t) ==
  IF pc[t] \in {"add_allocated", "add_totmem", "free_unmap"} THEN call[t].alloc_size
  ELSE IF pc[t] = "carve" THEN PAGE_BYTES
  ELSE 0

\* The counters are the change since the last reset, modulo the size of size_t:
\* p2allocated() that of the bytes requested by the blocks in use, p2totmem()
\* that of the bytes mapped, but for what a thread is about to count; whatever
\* blocks from before the reset are freed or resized after it.  Before the
\* first reset they are exact: nothing drifts or wraps
\* (p2malloc.c:215-216, 227, 243, 256-263, 299-301, 326-327).
CountersSinceReset ==
  /\ Wrap(allocated + before.allocated) = Wrap(Bytes(DOMAIN hdr \ Resizing))
  /\ Wrap(totmem + before.totmem + MapThenSumSet(Uncounted, Threads)) =
       Wrap(PAGE_BYTES * Cardinality(mapped))

\* What p2malloc.h says: "p2totmem() therefore reflects only allocations made
\* after the most recent p2reset()" (p2malloc.h:35-36): it is at most what the
\* OS has mapped since.
TotmemOnlyAfterReset ==
  totmem <= PAGE_BYTES * Cardinality(mapped \ before.pages)
================================================================================
