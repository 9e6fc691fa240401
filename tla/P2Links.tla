-------------------------------- MODULE P2Links --------------------------------
(***************************************************************************)
(* P2Malloc with the memory that its lists and headers lie in.  A block's   *)
(* first two words are its header while it is in use and its list node      *)
(* while it is free: struct p2freelist_node begins with its struct ps_list, *)
(* so next lies on size and previous on alloc_size.  Every action of        *)
(* P2Malloc goes with what it writes to these words; the sequences and      *)
(* headers of P2Malloc are what the words ought to say.                     *)
(***************************************************************************)
EXTENDS P2Malloc

CONSTANT ArrayPlaces   \* where the linker may have put the array freelists

\* sizeof(struct p2freelist_head) and the offset of its list_head: an int, two
\* pointers and a pthread_mutex_t.
HEAD_BYTES  == 64
HEAD_OFFSET == 8

ASSUME ArrayAssumption ==
  \A a \in ArrayPlaces :
    /\ a \in Nat \ {0}
    /\ a + NUM_FREELISTS * HEAD_BYTES <= PAGE_BYTES \/ HeapEnd <= a

VARIABLES
  mem,      \* the two words at each list head, block and list node written so far
  array     \* the address of freelists

linkVars == <<vars, mem, array>>

INSTANCE PsList WITH lname <- 0

list_head(i) == array + i * HEAD_BYTES + HEAD_OFFSET

Words(first, second) == [next |-> first, previous |-> second]

LinksInit ==
  /\ Init
  /\ mem = <<>>
  /\ array \in ArrayPlaces

--------------------------------------------------------------------------------
\* freelists_init, whose order does not matter: each list is its own word pair.
InitHeads ==
  LET heads == {list_head(i) : i \in Freelists}
  IN  [a \in DOMAIN mem \cup heads |-> IF a \in heads THEN Words(a, a) ELSE mem[a]]

\* The loop over a new page, which walks it upwards: the memory when k blocks are
\* linked.
CarveLinks(i, page) ==
  LET links[k \in 0..(PAGE_BYTES \div pow2(i))] ==
        IF k = 0 THEN mem
        ELSE LET n == page + (k - 1) * pow2(i)
             IN  ps_list_head_add(ps_list_init(links[k - 1], n), list_head(i), n)
  IN  links[PAGE_BYTES \div pow2(i)]

\* The cursor of p2orderedinsert after k steps back; no list has more nodes than
\* the heap has bytes.
Cursor(head) ==
  LET cursor[k \in 0..HeapEnd] ==
        IF k = 0 THEN ps_list_head_last(mem, head) ELSE ps_list_prev(mem, cursor[k - 1])
  IN  cursor

ScanEnds(head, node, cursor) == cursor <= node \/ At(mem, cursor).previous = head

LastCursor(head, node) ==
  LET cursor == Cursor(head)
  IN  cursor[CHOOSE k \in 0..HeapEnd :
               /\ ScanEnds(head, node, cursor[k])
               /\ \A j \in 0..(k - 1) : ~ScanEnds(head, node, cursor[j])]

\* Mutation: the node that sorts first goes behind the first node.
ScanFrom_BehindFirst(head, node) == LastCursor(head, node)

\* Where the scan of p2orderedinsert ends: at the node to insert behind, or at
\* the head when the scan has passed the first node.
ScanFrom(head, node) ==
  LET cursor == LastCursor(head, node)
  IN  IF cursor <= node THEN cursor ELSE head

p2orderedinsert(node, head) ==
  IF ps_list_head_empty(mem, head) THEN ps_list_head_append(mem, head, node)
  ELSE ps_list_ll_add(mem, ScanFrom(head, node), node)

\* Mutation: alloc_size keeps what the list left in it.
HeaderWords_Unmarked(c) == SetNext(mem, c.blk, c.size)

\* The header of the block in hand; alloc_size is 0 in the locals of a slab call.
HeaderWords(c) == Store(mem, c.blk, Words(c.size, c.alloc_size))

\* The words of an unmapped page are gone; mapped again it reads as zero.
Without(pages) ==
  [a \in {b \in DOMAIN mem : \A p \in pages : b \notin p..(p + PAGE_BYTES - 1)} |-> mem[a]]

--------------------------------------------------------------------------------
\* The steps that write the words of a block or of a list head.
WritingLabels ==
  {"freelists_init", "carve", "pop", "write_header", "add_allocated",
   "realloc_add", "free_insert", "free_unmap"}

LinkStep(t) ==
  LET c == call[t]
  IN  \/ freelists_init(t)    /\ mem' = InitHeads
      \/ CarvePage(t)         /\ mem' = CarveLinks(c.idx, c.blk)
      \/ TakeFirst(t)         /\ mem' = ps_list_rem(mem,
                                          ps_list_head_first(mem, list_head(c.idx)))
      \/ WriteHeader(t)       /\ mem' = HeaderWords(c)
      \/ LargeAddAllocated(t) /\ mem' = HeaderWords(c)
      \/ ResizeAdd(t)         /\ mem' = SetNext(mem, HdrOf(c.ptr), c.size)
      \/ FreeInsert(t)        /\ mem' = p2orderedinsert(c.blk, list_head(c.idx))
      \/ Unmap(t)             /\ mem' = Without(PagesOf(c.blk, c.alloc_size))

LinksNext ==
  /\ UNCHANGED array
  /\ \E t \in Threads :
       \/ LinkStep(t)
       \/ (Call(t) \/ Step(t)) /\ pc[t] \notin WritingLabels /\ UNCHANGED mem

LinksSpec == LinksInit /\ [][LinksNext]_linkVars

--------------------------------------------------------------------------------
\* Each list that no thread is changing is, followed by next and by previous,
\* the ring of the nodes that P2Malloc's sequence holds, in its order; in
\* particular the sentinel is never taken for a node, wherever it lies, and
\* the emptiness test and the first node are those of the sequence
\* (p2malloc.c:169-194, 224-237).
RingsAreFreelists ==
  init_state = 2 => \A i \in Freelists : IsRing(mem, list_head(i), freelists[i])

\* The words of every block in use are its header: no list operation writes
\* into a block in use, and no pointer is left over where p2free reads size
\* and alloc_size (p2malloc.c:115-120, 213-214, 240-242, 251-263).
HeadersIntact ==
  \A b \in DOMAIN hdr : At(mem, b) = Words(hdr[b].size, hdr[b].alloc_size)
================================================================================
