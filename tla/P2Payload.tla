------------------------------- MODULE P2Payload -------------------------------
(***************************************************************************)
(* P2Lifecycle with what is in the blocks.  Of the payloads, some words are *)
(* followed; clients fill a block they hold with a value and remember it,   *)
(* p2calloc, p2realloc and p2free write what they write.  Headers and list  *)
(* nodes lie on the first 16 bytes of a block and so on no followed word    *)
(* (P2Links has those bytes).                                               *)
(***************************************************************************)
EXTENDS P2Lifecycle

CONSTANTS
  Grain,     \* no request gets a block smaller than this
  Offsets,   \* of each Grain bytes, the words followed: at these distances
             \* behind a header
  Values     \* what clients write

ASSUME PayloadAssumption ==
  /\ Grain \in {pow2(i) : i \in Freelists}
  /\ \A o \in Offsets : o \in Nat /\ o % pow2(0) = 0 /\ o < Grain
  /\ 0 \in Offsets /\ 0 \notin Values
  /\ \A size \in MallocSizes \cup ReallocSizes \cup {Wrap(a[1] * a[2]) : a \in CallocArgs} :
       size = 0 \/ get_freelist_idx(size) = -1 \/ pow2(get_freelist_idx(size)) >= Grain

VARIABLES
  word,      \* the followed words
  promise    \* what the holder of a block counts on: its first n bytes hold value

payVars == <<lifeVars, word, promise>>

Followed ==
  {a \in PAGE_BYTES..(HeapEnd - 1) : \E o \in Offsets : a % Grain = PtrOf(o)}

\* The followed words among the n bytes at ptr.
Within(ptr, n) == {a \in Followed : ptr <= a /\ a + SIZEOF_SIZE_T <= ptr + n}

\* memset and memcpy.
Set(ptr, value, n) == [a \in Followed |-> IF a \in Within(ptr, n) THEN value ELSE word[a]]
Copy(to, from, n)  ==
  [a \in Followed |-> IF a \in Within(to, n) THEN word[from + (a - to)] ELSE word[a]]

Least(m, n) == IF m < n THEN m ELSE n

Nothing == [value |-> 0, n |-> 0]

PayInit ==
  /\ LifeInit
  /\ word = [a \in Followed |-> 0]
  /\ promise = [ptr \in {PtrOf(b) : b \in {c \in BlockAddrs : c % Grain = 0}} |-> Nothing]

--------------------------------------------------------------------------------
\* A client that holds ptr writes value all over the block.
Fill(ptr, value) ==
  LET n == hdr[HdrOf(ptr)].size
  IN  /\ word' = Set(ptr, value, n)
      /\ promise' = [promise EXCEPT ![ptr] = [value |-> value, n |-> n]]
      /\ UNCHANGED lifeVars

\* The memset of p2calloc, which promises zeroes.
CallocZeroes(t) ==
  /\ ZeroPayload(t)
  /\ word' = Set(call[t].ret, 0, call[t].size)
  /\ promise' = [promise EXCEPT ![call[t].ret] = [value |-> 0, n |-> call[t].size]]

\* Mutation: the whole old payload is copied, also into a smaller block.
CopiedBytes_Old(old_size, size) == old_size

CopiedBytes(old_size, size) == Least(old_size, size)

\* The memcpy of p2realloc; what was in the old block up to the smaller size is
\* promised of the new one.
ReallocCopies(t) ==
  LET c == call[t]
  IN  /\ CopyPayload(t)
      /\ word' = Copy(c.ret, c.ptr, CopiedBytes(hdr[HdrOf(c.ptr)].size, c.size))
      /\ promise' = [promise EXCEPT ![c.ret] =
                       [promise[c.ptr] EXCEPT !.n = Least(@, c.size)]]

ReallocStays(t) ==
  /\ ResizeAdd(t)
  /\ promise' = [promise EXCEPT ![call[t].ptr].n = Least(@, call[t].size)]
  /\ UNCHANGED word

Forget(ptrs) ==
  promise' = [ptr \in DOMAIN promise |-> IF ptr \in ptrs THEN Nothing ELSE promise[ptr]]

\* Mutation: the word is not zeroed.
FreeZeroes_Not(t) ==
  /\ FreeSlab(t)
  /\ Forget({PtrOf(call[t].blk)})
  /\ UNCHANGED word

FreeZeroes(t) ==
  /\ FreeSlab(t)
  /\ Forget({PtrOf(call[t].blk)})
  /\ word' = Set(PtrOf(call[t].blk), 0, SIZEOF_SIZE_T)

FreeLargeForgets(t) ==
  /\ FreeLarge(t)
  /\ Forget({PtrOf(call[t].blk)})
  /\ UNCHANGED word

\* A page that is mapped again holds zeroes.
UnmapForgets(t) ==
  /\ Unmap(t)
  /\ word' = Set(call[t].blk, 0, call[t].alloc_size)
  /\ UNCHANGED promise

TouchingLabels == {"zero_payload", "copy_payload", "realloc_add", "free", "free_unmap"}

PayStep(t) ==
  \/ CallocZeroes(t) \/ ReallocCopies(t) \/ ReallocStays(t)
  \/ FreeZeroes(t) \/ FreeLargeForgets(t) \/ UnmapForgets(t)
  \/ (Call(t) \/ Step(t)) /\ pc[t] \notin TouchingLabels /\ UNCHANGED <<word, promise>>

PayNext ==
  \/ \E ptr \in live, value \in Values : Fill(ptr, value)
  \/ Reset /\ Forget(live \ live') /\ UNCHANGED word
  \/ /\ \E t \in Threads : PayStep(t)
     /\ before' = [before EXCEPT !.pages = @ \cap mapped']
     /\ UNCHANGED <<resets, abandoned>>

PaySpec == PayInit /\ [][PayNext]_payVars

--------------------------------------------------------------------------------
\* What a client wrote into a block stays there through everybody's calls until
\* it writes again or gives the block up, p2calloc's blocks are zero also where
\* memory is used again, and p2realloc keeps the bytes that both sizes have,
\* moved, resized in place or failed; also across p2reset (p2malloc.c:280-309).
PromisesKept ==
  \A ptr \in DOMAIN promise :
    \A a \in Within(ptr, promise[ptr].n) : word[a] = promise[ptr].value

\* The tripwire that p2free lays is still there when the block is given out
\* again: the first payload word of every block on a free list is 0, and so is
\* that of a block on its way to or from a list (p2malloc.c:265-267).
TripwiresIntact ==
  /\ \A i \in Freelists : \A b \in Range(freelists[i]) : word[PtrOf(b)] = 0
  /\ \A t \in Threads :
       pc[t] \in {"free_lock", "free_insert", "write_header"} => word[PtrOf(call[t].blk)] = 0
================================================================================
