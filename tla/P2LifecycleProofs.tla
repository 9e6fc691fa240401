--------------------------- MODULE P2LifecycleProofs ---------------------------
(***************************************************************************)
(* p2reset keeps the heap's invariants; no byte that is mapped is lost; and *)
(* the counters are the change since the last reset: for any pages and any *)
(* number of resets, and, for the counters, any finite number of threads.  *)
(***************************************************************************)
EXTENDS P2Lifecycle, P2MallocProofs

--------------------------------------------------------------------------------
(***************************************************************************)
(* p2reset.                                                                *)
(***************************************************************************)
LEMMA ResetControl ==
  ASSUME ControlInv, Reset
  PROVE  ControlInv'
<1>1. /\ \A t \in Threads : pc[t] = "idle"
      /\ init_state' = 2 /\ UNCHANGED <<pc, call>>
      /\ lock' = lock \/ lock' = [i \in Freelists |-> NoThread]
  BY DEF Reset, p2reset
<1>2. ControlTypeOK'
  BY <1>1 DEF ControlInv, ControlTypeOK, CallsHaveFields
<1>3. NothingYet' /\ OneInits' /\ HoldsLock'
  BY <1>1 DEF NothingYet, OneInits, Initing, HoldsLock, Section
<1> QED
  BY <1>2, <1>3 DEF ControlInv

LEMMA ResetLists ==
  ASSUME Reset
  PROVE  \A i \in Freelists : /\ freelists'[i] = <<>>
                              /\ Range(freelists'[i]) = {} /\ IsInjective(freelists'[i])
<1>1. \A i \in Freelists : freelists'[i] = <<>>
  BY DEF Reset, p2reset
<1>2. DOMAIN <<>> = {}
  OBVIOUS
<1> QED
  BY <1>1, <1>2, Zenon DEF Range, IsInjective

\* What p2reset forgets is free; what is in use stays where it is.
LEMMA ResetHeap ==
  ASSUME HeapInv, ControlInv, Reset
  PROVE  HeapInv'
<1>1. /\ \A t \in Threads : pc[t] = "idle"
      /\ UNCHANGED <<mapped, hdr, pc, call>>
      /\ init_state' = 2 /\ allocated' = 0 /\ totmem' = 0
      /\ freelists' = [i \in Freelists |-> <<>>]
      /\ lock' = lock \/ lock' = [i \in Freelists |-> NoThread]
      /\ live' \subseteq live
  BY DEF Reset, p2reset
<1>2. TypeOK'
  <2>1. 0 \in SizeT /\ <<>> \in Seq(BlockAddrs)
    BY PlatformAssumption DEF SizeT, PlatformAssumption
  <2> QED
    BY <1>1, <2>1 DEF HeapInv, TypeOK
<1>3. LocalsInv'
  <2> SUFFICES ASSUME NEW t \in Threads PROVE LocalsAt("idle", call[t], freelists', hdr)
    BY <1>1 DEF LocalsInv
  <2>1. call[t] = NoCall
    BY <1>1 DEF HeapInv, LocalsInv, LocalsAt
  <2> QED
    BY <2>1 DEF LocalsAt, Asking, SlabWay, FreeWay
<1>4. HeadersInv'
  BY <1>1 DEF HeapInv, HeadersInv
<1>5. OwnersInv'
  <2>1. HeldBlocks' \subseteq HeldBlocks
    BY <1>1 DEF HeldBlocks
  <2>2. \A t \in Threads : /\ CallBlocks(t)' = CallBlocks(t)
                           /\ GivenBlock(pc[t], call[t])' = GivenBlock(pc[t], call[t])
                           /\ NewBlock(pc[t], call[t])' = NewBlock(pc[t], call[t])
    BY <1>1 DEF CallBlocks, GivenBlock, NewBlock
  <2> QED
    BY <1>1, <2>1, <2>2 DEF HeapInv, OwnersInv
<1>6. ChunksInv'
  <2>1. FreeChunks' = {}
    BY ResetLists DEF FreeChunks
  <2>2. Chunks' \subseteq Chunks
    BY <1>1, <2>1 DEF Chunks, UsedChunks, HandChunks, InHand
  <2> QED
    BY <1>1, <2>2, ResetLists DEF HeapInv, ChunksInv, Apart, Placed
<1> QED
  BY <1>2, <1>3, <1>4, <1>5, <1>6 DEF HeapInv

LEMMA LifeStep ==
  ASSUME ControlInv, HeapInv, [LifeNext]_lifeVars
  PROVE  ControlInv' /\ HeapInv'
<1>1. CASE Reset
  BY <1>1, ResetControl, ResetHeap
<1>2. CASE Next
  <2>1. PICK t \in Threads : Call(t) \/ Step(t)
    BY <1>2 DEF Next
  <2>2. ControlInv'
    BY <2>1, ControlCall, ControlStep
  <2>3. HeapInv'
    BY <2>1, HeapCall, HeapStep
  <2> QED
    BY <2>2, <2>3
<1>3. CASE UNCHANGED lifeVars
  <2>1. UNCHANGED vars
    BY <1>3 DEF lifeVars
  <2> QED
    BY <2>1, ControlStutter, HeapStutter
<1> QED
  BY <1>1, <1>2, <1>3 DEF LifeNext

\* The heap keeps its owners, types and boundaries over p2reset too, whatever
\* pointers the clients keep (p2malloc.c:200-328).
THEOREM ResetHeapTheorem == LifeSpec => [](ControlInv /\ HeapInv)
<1>1. LifeInit => ControlInv /\ HeapInv
  BY ControlInit, HeapInit DEF LifeInit
<1>2. ControlInv /\ HeapInv /\ [LifeNext]_lifeVars => (ControlInv /\ HeapInv)'
  BY LifeStep
<1> QED
  BY <1>1, <1>2, PTL DEF LifeSpec

\* Not even a block from before a p2reset overlaps one that was given out after
\* it: what p2reset drops is never used again (p2malloc.c:315-328).
THEOREM ResetNoOverlapTheorem == LifeSpec => []NoOverlap
<1>1. HeapInv => NoOverlap
  BY DEF HeapInv, ChunksInv, Apart, Placed, NoOverlap
<1> QED
  BY <1>1, ResetHeapTheorem, PTL

--------------------------------------------------------------------------------
(***************************************************************************)
(* Sums over finite sets, as numbers of cells: w[x] cells for every x.     *)
(***************************************************************************)
\* Induction over the subsets of a finite set: what every set has that all its
\* strict subsets have.
LEMMA SubsetInduction ==
  ASSUME NEW S, IsFiniteSet(S), NEW Good,
         \A T \in SUBSET S : (\A U \in SUBSET T : U # T => U \in Good) => T \in Good
  PROVE  SUBSET S \subseteq Good
<1>1. SUFFICES ASSUME (SUBSET S) \ Good # {}
               PROVE  FALSE
  OBVIOUS
<1>2. PICK T \in (SUBSET S) \ Good : \A U \in (SUBSET S) \ Good : ~ (U \subseteq T /\ U # T)
  <2>1. \A Sets : Sets \subseteq SUBSET S /\ Sets # {}
                   => \E T \in Sets : \A U \in Sets : ~ (U \subseteq T /\ U # T)
    BY MinimalSubset
  <2>2. PICK Sets : Sets = (SUBSET S) \ Good
    OBVIOUS
  <2> QED
    BY <1>1, <2>1, <2>2
<1> QED
  BY <1>2

Cells(w, S) == UNION {{x} \X (1 .. w[x]) : x \in S}
Total(w, S) == Cardinality(Cells(w, S))

Pick(S) == CHOOSE x \in S : TRUE
Sums(w, S, f) ==
  f = [T \in SUBSET S |-> IF T = {} THEN 0 ELSE w[Pick(T)] + f[T \ {Pick(T)}]]

LEMMA OneCells ==
  ASSUME NEW x, NEW n \in Nat
  PROVE  IsFiniteSet({x} \X (1 .. n)) /\ Cardinality({x} \X (1 .. n)) = n
<1>1. IsFiniteSet({x}) /\ Cardinality({x}) = 1
  BY FS_Singleton, Zenon
<1>2. IsFiniteSet(1 .. n) /\ Cardinality(1 .. n) = n
  BY FS_Interval
<1>3. /\ IsFiniteSet({x} \X (1 .. n))
      /\ Cardinality({x} \X (1 .. n)) = Cardinality({x}) * Cardinality(1 .. n)
  BY <1>1, <1>2, FS_Product, Zenon
<1> QED
  BY <1>1, <1>2, <1>3

LEMMA CellsFinite ==
  ASSUME NEW S, IsFiniteSet(S), NEW w, \A x \in S : w[x] \in Nat
  PROVE  IsFiniteSet(Cells(w, S)) /\ Total(w, S) \in Nat
<1> DEFINE cells == [x \in S |-> {x} \X (1 .. w[x])]
           all   == {{x} \X (1 .. w[x]) : x \in S}
<1>1. cells \in Surjection(S, all)
  BY DEF Surjection
<1>2. IsFiniteSet(all)
  BY <1>1, FS_Surjection, Zenon
<1>3. ASSUME NEW c \in all
      PROVE  IsFiniteSet(c)
  <2>1. PICK x \in S : c = {x} \X (1 .. w[x])
    OBVIOUS
  <2>2. w[x] \in Nat
    OBVIOUS
  <2>3. IsFiniteSet({x} \X (1 .. w[x]))
    BY <2>2, OneCells, Zenon
  <2> QED
    BY <2>1, <2>3
<1>4. IsFiniteSet(UNION all)
  <2> HIDE DEF all
  <2> QED
    BY <1>2, <1>3, FS_UNION, Zenon
<1> QED
  BY <1>4, FS_CardinalityType, Zenon DEF Cells, Total

LEMMA TotalEmpty == ASSUME NEW w PROVE Total(w, {}) = 0
<1>1. Cells(w, {}) = {}
  BY DEF Cells
<1> QED
  BY <1>1, FS_EmptySet DEF Total

\* The total over two sets that share nothing is the sum of both.
LEMMA TotalUnion ==
  ASSUME NEW S, NEW T, IsFiniteSet(S), IsFiniteSet(T), S \cap T = {},
         NEW w, \A x \in S \cup T : w[x] \in Nat
  PROVE  Total(w, S \cup T) = Total(w, S) + Total(w, T)
<1>1. Cells(w, S \cup T) = Cells(w, S) \cup Cells(w, T)
  BY DEF Cells
<1>2. Cells(w, S) \cap Cells(w, T) = {}
  BY DEF Cells
<1>3. IsFiniteSet(Cells(w, S)) /\ Total(w, S) \in Nat
  BY CellsFinite
<1>4. IsFiniteSet(Cells(w, T)) /\ Total(w, T) \in Nat
  BY CellsFinite
<1>5. Cardinality({}) = 0
  BY FS_EmptySet
<1>6. Cardinality(Cells(w, S) \cup Cells(w, T))
        = Cardinality(Cells(w, S)) + Cardinality(Cells(w, T))
            - Cardinality(Cells(w, S) \cap Cells(w, T))
  BY <1>3, <1>4, FS_Union, Zenon
<1>7. Total(w, S \cup T) = Total(w, S) + Total(w, T) - 0
  BY <1>1, <1>2, <1>5, <1>6, Zenon DEF Total
<1> QED
  BY <1>3, <1>4, <1>7

LEMMA TotalOne ==
  ASSUME NEW w, NEW x, w[x] \in Nat
  PROVE  Total(w, {x}) = w[x]
<1>1. Cells(w, {x}) = {x} \X (1 .. w[x])
  BY DEF Cells
<1> QED
  BY <1>1, OneCells DEF Total

\* One more element adds its weight.
LEMMA TotalAdd ==
  ASSUME NEW S, IsFiniteSet(S), NEW x, x \notin S,
         NEW w, \A y \in S \cup {x} : w[y] \in Nat
  PROVE  Total(w, S \cup {x}) = Total(w, S) + w[x]
<1>1. IsFiniteSet({x})
  BY FS_Singleton, Zenon
<1>2. Total(w, S \cup {x}) = Total(w, S) + Total(w, {x})
  BY <1>1, TotalUnion, Zenon
<1>3. Total(w, {x}) = w[x]
  BY TotalOne
<1> QED
  BY <1>2, <1>3

LEMMA TotalRemove ==
  ASSUME NEW S, IsFiniteSet(S), NEW x \in S, NEW w, \A y \in S : w[y] \in Nat
  PROVE  Total(w, S) = w[x] + Total(w, S \ {x})
<1>1. IsFiniteSet(S \ {x})
  BY FS_RemoveElement, Zenon
<1>2. (S \ {x}) \cup {x} = S
  OBVIOUS
<1>3. Total(w, (S \ {x}) \cup {x}) = Total(w, S \ {x}) + w[x]
  BY <1>1, TotalAdd
<1>4. Total(w, S \ {x}) \in Nat
  BY <1>1, CellsFinite
<1>5. w[x] \in Nat
  OBVIOUS
<1>6. Total(w, S) = Total(w, S \ {x}) + w[x]
  BY <1>2, <1>3, Zenon
<1> QED
  BY <1>4, <1>5, <1>6

\* Only the weights of the elements matter.
LEMMA TotalSame ==
  ASSUME NEW S, NEW v, NEW w, \A x \in S : v[x] = w[x]
  PROVE  Total(v, S) = Total(w, S)
  BY DEF Total, Cells

\* There is a function as MapThenSumSet defines it, and it is the total.
LEMMA SumExists ==
  ASSUME NEW S, IsFiniteSet(S), NEW w, \A x \in S : w[x] \in Nat
  PROVE  \E f : Sums(w, S, f)
<1> DEFINE f == [T \in SUBSET S |-> Total(w, T)]
<1>1. ASSUME NEW T \in SUBSET S
      PROVE  f[T] = IF T = {} THEN 0 ELSE w[Pick(T)] + f[T \ {Pick(T)}]
  <2>1. IsFiniteSet(T)
    BY FS_Subset, Zenon
  <2>2. CASE T = {}
    BY <2>2, TotalEmpty
  <2>3. CASE T # {}
    <3>1. Pick(T) \in T
      BY <2>3 DEF Pick
    <3>2. Total(w, T) = w[Pick(T)] + Total(w, T \ {Pick(T)})
      BY <2>1, <3>1, TotalRemove
    <3> QED
      BY <2>3, <3>2
  <2> QED
    BY <2>2, <2>3
<1>2. f = [T \in SUBSET S |-> IF T = {} THEN 0 ELSE w[Pick(T)] + f[T \ {Pick(T)}]]
  BY <1>1
<1> QED
  BY <1>2, Zenon DEF Sums

LEMMA SumUnique ==
  ASSUME NEW S, IsFiniteSet(S), NEW w, \A x \in S : w[x] \in Nat, NEW f, Sums(w, S, f)
  PROVE  f[S] = Total(w, S)
<1> DEFINE Good == {T \in SUBSET S : f[T] = Total(w, T)}
<1>1. ASSUME NEW T \in SUBSET S, \A U \in SUBSET T : U # T => U \in Good
      PROVE  T \in Good
  <2>1. f[T] = IF T = {} THEN 0 ELSE w[Pick(T)] + f[T \ {Pick(T)}]
    BY DEF Sums
  <2>2. IsFiniteSet(T)
    BY FS_Subset, Zenon
  <2>3. CASE T = {}
    BY <2>1, <2>3, TotalEmpty
  <2>4. CASE T # {}
    <3>1. Pick(T) \in T
      BY <2>4 DEF Pick
    <3>2. f[T \ {Pick(T)}] = Total(w, T \ {Pick(T)})
      BY <1>1, <3>1
    <3>3. Total(w, T) = w[Pick(T)] + Total(w, T \ {Pick(T)})
      BY <2>2, <3>1, TotalRemove
    <3> QED
      BY <2>1, <2>4, <3>2, <3>3
  <2> QED
    BY <2>3, <2>4
<1>2. SUBSET S \subseteq Good
  <2> HIDE DEF Good
  <2> QED
    BY <1>1, SubsetInduction
<1> QED
  BY <1>2

LEMMA SumIsTotal ==
  ASSUME NEW S, IsFiniteSet(S), NEW w, \A x \in S : w[x] \in Nat
  PROVE  (CHOOSE f : Sums(w, S, f))[S] = Total(w, S)
<1>1. Sums(w, S, CHOOSE f : Sums(w, S, f))
  BY SumExists, Zenon
<1> QED
  BY <1>1, SumUnique

LEMMA ChunkSum ==
  ASSUME NEW S, IsFiniteSet(S), \A c \in S : c.bytes \in Nat
  PROVE  MapThenSumSet(LAMBDA c : c.bytes, S) = Total([c \in S |-> c.bytes], S)
<1> DEFINE w     == [c \in S |-> c.bytes]
           Is(f) == f = [T \in SUBSET S |-> IF T = {} THEN 0 ELSE Pick(T).bytes + f[T \ {Pick(T)}]]
<1>1. MapThenSumSet(LAMBDA c : c.bytes, S) = (CHOOSE f : Is(f))[S]
  BY Zenon DEF MapThenSumSet, MapThenFoldSet, Pick
<1>2. \A f : Is(f) <=> Sums(w, S, f)
  <2>1. \A T \in SUBSET S : T # {} => w[Pick(T)] = Pick(T).bytes
    BY DEF Pick
  <2> QED
    BY <2>1 DEF Sums
<1>3. (CHOOSE f : Is(f)) = (CHOOSE f : Sums(w, S, f))
  <2> HIDE DEF Is, w
  <2> QED
    BY <1>2, Zenon
<1> QED
  BY <1>1, <1>3, SumIsTotal

--------------------------------------------------------------------------------
(***************************************************************************)
(* The bytes of the heap: which are mapped, and which have an owner.       *)
(***************************************************************************)
ByteIn(x, base, bytes) == base <= x /\ x < base + bytes

Mapped(x)   == \E page \in mapped : ByteIn(x, page, 4096)
InList(x)   == \E i \in Freelists : \E b \in Range(freelists[i]) : ByteIn(x, b, pow2(i))
InBlock(x)  == \E b \in DOMAIN hdr : ByteIn(x, b, BlockBytes(hdr[b]))
Handed(l, c, x) == HandAt(l, c) # 0 /\ ByteIn(x, c.blk, HandAt(l, c))
InHands(x)  == \E t \in Threads : Handed(pc[t], call[t], x)
IsOwned(x)  == InList(x) \/ InBlock(x) \/ InHands(x)

\* The owner of a byte goes and comes with its page.
Kept(x) ==
  IF Mapped(x)' <=> Mapped(x) THEN IsOwned(x)' <=> IsOwned(x)
  ELSE IsOwned(x)' \/ IsOwned(x)

LEMMA OwnedIsChunk ==
  ASSUME NEW x
  PROVE  /\ InList(x) <=> \E c \in FreeChunks : ByteIn(x, c.base, c.bytes)
         /\ InBlock(x) <=> \E c \in UsedChunks : ByteIn(x, c.base, c.bytes)
         /\ InHands(x) <=> \E c \in HandChunks : ByteIn(x, c.base, c.bytes)
         /\ IsOwned(x) <=> \E c \in Chunks : ByteIn(x, c.base, c.bytes)
<1>1. InList(x) <=> \E c \in FreeChunks : ByteIn(x, c.base, c.bytes)
  <2>1. ASSUME NEW i \in Freelists, NEW b \in Range(freelists[i]), ByteIn(x, b, pow2(i))
        PROVE  \E c \in FreeChunks : ByteIn(x, c.base, c.bytes)
    <3>1. Chunk("list", i, b, pow2(i)) \in FreeChunks
      BY DEF FreeChunks
    <3> QED
      BY <2>1, <3>1 DEF Chunk
  <2>2. ASSUME NEW c \in FreeChunks, ByteIn(x, c.base, c.bytes)
        PROVE  InList(x)
    <3>1. PICK i \in Freelists : \E b \in Range(freelists[i]) : c = Chunk("list", i, b, pow2(i))
      BY DEF FreeChunks
    <3> QED
      BY <2>2, <3>1 DEF Chunk, InList
  <2> QED
    BY <2>1, <2>2 DEF InList
<1>2. InBlock(x) <=> \E c \in UsedChunks : ByteIn(x, c.base, c.bytes)
  <2>1. ASSUME NEW b \in DOMAIN hdr, ByteIn(x, b, BlockBytes(hdr[b]))
        PROVE  \E c \in UsedChunks : ByteIn(x, c.base, c.bytes)
    <3>1. Chunk("header", NoThread, b, BlockBytes(hdr[b])) \in UsedChunks
      BY DEF UsedChunks
    <3> QED
      BY <2>1, <3>1 DEF Chunk
  <2>2. ASSUME NEW c \in UsedChunks, ByteIn(x, c.base, c.bytes)
        PROVE  InBlock(x)
    <3>1. PICK b \in DOMAIN hdr : c = Chunk("header", NoThread, b, BlockBytes(hdr[b]))
      BY DEF UsedChunks
    <3> QED
      BY <2>2, <3>1 DEF Chunk, InBlock
  <2> QED
    BY <2>1, <2>2 DEF InBlock
<1>3. InHands(x) <=> \E c \in HandChunks : ByteIn(x, c.base, c.bytes)
  <2>1. \A t \in Threads : InHand(t) = HandAt(pc[t], call[t])
    BY DEF InHand, HandAt
  <2>2. ASSUME NEW t \in Threads, Handed(pc[t], call[t], x)
        PROVE  \E c \in HandChunks : ByteIn(x, c.base, c.bytes)
    <3>1. Chunk("thread", t, call[t].blk, InHand(t)) \in HandChunks
      BY <2>1, <2>2 DEF HandChunks, Handed
    <3> QED
      BY <2>1, <2>2, <3>1 DEF Chunk, Handed
  <2>3. ASSUME NEW c \in HandChunks, ByteIn(x, c.base, c.bytes)
        PROVE  InHands(x)
    <3>1. PICK t \in Threads : InHand(t) # 0 /\ c = Chunk("thread", t, call[t].blk, InHand(t))
      BY DEF HandChunks
    <3> QED
      BY <2>1, <2>3, <3>1 DEF Chunk, Handed, InHands
  <2> QED
    BY <2>2, <2>3 DEF InHands
<1> QED
  BY <1>1, <1>2, <1>3 DEF IsOwned, Chunks

LEMMA SamePage ==
  ASSUME NEW x \in Nat, NEW p \in HeapPages, NEW q \in HeapPages,
         ByteIn(x, p, 4096), ByteIn(x, q, 4096)
  PROVE  p = q
  BY HeapNumbers DEF ByteIn

\* Only mapped bytes have an owner.
LEMMA PlacedMapped ==
  ASSUME NEW c, Placed(c), NEW x \in Nat, ByteIn(x, c.base, c.bytes)
  PROVE  Mapped(x)
<1>1. c.base \in Nat /\ c.base >= 4096 /\ c.bytes \in Nat /\ c.base + c.bytes <= HeapEnd
  BY AddressRange DEF Placed
<1>2. x >= 4096 /\ x < HeapEnd
  BY <1>1, HeapNumbers DEF ByteIn
<1>3. PICK page \in HeapPages : page <= x /\ x < page + 4096
  BY <1>2, PageOfByte
<1>4. page \in Spanned(c)
  BY <1>1, <1>3, HeapNumbers DEF Spanned, ByteIn
<1> QED
  BY <1>3, <1>4 DEF Placed, Mapped, ByteIn

LEMMA OwnedIsMapped ==
  ASSUME HeapInv, NEW x \in Nat, IsOwned(x)
  PROVE  Mapped(x)
<1>1. PICK c \in Chunks : ByteIn(x, c.base, c.bytes)
  BY OwnedIsChunk
<1> QED
  BY <1>1, PlacedMapped DEF HeapInv, ChunksInv

\* The bytes of whole pages.
LEMMA PageBytes ==
  ASSUME NEW page \in HeapPages, NEW n \in Nat, WholePages(page, n), page + n <= HeapEnd,
         NEW x \in Nat
  PROVE  (\E p \in PagesOf(page, n) : ByteIn(x, p, 4096)) <=> ByteIn(x, page, n)
<1>1. page \in Nat /\ page % 4096 = 0 /\ page >= 4096 /\ n % 4096 = 0
  BY HeapNumbers DEF WholePages
<1>2. ASSUME NEW p \in PagesOf(page, n), ByteIn(x, p, 4096)
      PROVE  ByteIn(x, page, n)
  <2>1. p \in Nat /\ p % 4096 = 0 /\ page <= p /\ p < page + n
    BY HeapNumbers DEF PagesOf
  <2>2. p + 4096 <= page + n
    BY <1>1, <2>1
  <2> QED
    BY <1>1, <1>2, <2>1, <2>2 DEF ByteIn
<1>3. ASSUME ByteIn(x, page, n)
      PROVE  \E p \in PagesOf(page, n) : ByteIn(x, p, 4096)
  <2>1. x >= 4096 /\ x < HeapEnd
    BY <1>1, <1>3, HeapNumbers DEF ByteIn
  <2>2. PICK p \in HeapPages : p <= x /\ x < p + 4096
    BY <2>1, PageOfByte
  <2>3. p \in Nat /\ p % 4096 = 0
    BY HeapNumbers
  <2>4. page <= x /\ x < page + n
    BY <1>3 DEF ByteIn
  <2>5. page <= p /\ p < page + n
    BY <1>1, <2>2, <2>3, <2>4
  <2> QED
    BY <2>2, <2>5 DEF PagesOf, ByteIn
<1> QED
  BY <1>2, <1>3

--------------------------------------------------------------------------------
(***************************************************************************)
(* What a step does to a byte.                                             *)
(***************************************************************************)
LEMMA HandsAfterStep ==
  ASSUME TypeOK, NEW t \in Threads, NEW l, NEW c, StepTo(t, l, c), NEW x
  PROVE  /\ InHands(x) <=> \/ Handed(pc[t], call[t], x)
                           \/ \E u \in Threads \ {t} : Handed(pc[u], call[u], x)
         /\ InHands(x)' <=> \/ Handed(l, c, x)
                            \/ \E u \in Threads \ {t} : Handed(pc[u], call[u], x)
<1>1. /\ pc'[t] = l /\ call'[t] = c
      /\ \A u \in Threads \ {t} : pc'[u] = pc[u] /\ call'[u] = call[u]
  BY AfterStep
<1>2. InHands(x)' <=> \E u \in Threads : Handed(pc'[u], call'[u], x)
  BY DEF InHands, Handed, HandAt
<1> QED
  BY <1>1, <1>2, Zenon DEF InHands

\* A step that leaves the heap as it is and passes on nothing.
LEMMA QuietByte ==
  ASSUME TypeOK, NEW t \in Threads, NEW l, NEW c, StepTo(t, l, c), NEW x,
         UNCHANGED <<freelists, hdr, mapped>>,
         Handed(l, c, x) <=> Handed(pc[t], call[t], x)
  PROVE  Kept(x)
<1>1. InHands(x)' <=> InHands(x)
  BY HandsAfterStep
<1>2. (InList(x)' <=> InList(x)) /\ (InBlock(x)' <=> InBlock(x)) /\ (Mapped(x)' <=> Mapped(x))
  BY DEF InList, InBlock, Mapped
<1> QED
  BY <1>1, <1>2 DEF Kept, IsOwned

Holding == {"carve", "write_header", "free_lock", "free_insert",
            "add_allocated", "free_totmem", "free_unmap"}

LEMMA EmptyHand ==
  ASSUME NEW l, l \notin Holding, NEW c, NEW x
  PROVE  ~ Handed(l, c, x)
  BY DEF Handed, HandAt, Holding

LEMMA EmptyByte ==
  ASSUME TypeOK, NEW t \in Threads, NEW l, NEW c, StepTo(t, l, c), NEW x,
         UNCHANGED <<freelists, hdr, mapped>>,
         pc[t] \notin Holding, l \notin Holding
  PROVE  Kept(x)
  BY QuietByte, EmptyHand

LEMMA CallMoves ==
  ASSUME NEW t \in Threads, Call(t)
  PROVE  /\ pc[t] = "idle" /\ UNCHANGED <<freelists, hdr, mapped, allocated, totmem>>
         /\ \E l \in {"done", "ensure_init", "free", "realloc_sub"} : \E c : StepTo(t, l, c)
<1>1. \E l \in {"done", "ensure_init", "free", "realloc_sub"} : \E c : StepTo(t, l, c)
  <2>1. ASSUME NEW c, EnterMalloc(t, c)
        PROVE  \E l \in {"done", "ensure_init", "free", "realloc_sub"} : StepTo(t, l, c)
    BY <2>1 DEF EnterMalloc, StepTo, Goto
  <2>2. CASE \E size \in MallocSizes : p2malloc(t, size)
    BY <2>1, <2>2 DEF p2malloc
  <2>3. CASE \E args \in CallocArgs : p2calloc(t, args[1], args[2])
    <3>1. PICK args \in CallocArgs : p2calloc(t, args[1], args[2])
      BY <2>3
    <3>2. \/ StepTo(t, "done", NewCall("calloc", NULL, 0))
          \/ EnterMalloc(t, NewCall("calloc", NULL, Wrap(args[1] * args[2])))
      BY <3>1 DEF p2calloc, StepTo, Goto
    <3> QED
      BY <2>1, <3>2
  <2>4. CASE \E ptr \in live : p2free(t, ptr)
    <3>1. PICK ptr \in live : p2free(t, ptr)
      BY <2>4
    <3>2. StepTo(t, "free", [NewCall("free", ptr, 0) EXCEPT !.blk = HdrOf(ptr)])
      BY <3>1 DEF p2free, StepTo, Goto
    <3> QED
      BY <3>2
  <2>5. CASE \E ptr \in live \cup {NULL}, size \in ReallocSizes : p2realloc(t, ptr, size)
    <3>1. PICK ptr \in live \cup {NULL}, size \in ReallocSizes : p2realloc(t, ptr, size)
      BY <2>5
    <3> DEFINE c == NewCall("realloc", ptr, size)
    <3>2. \/ EnterMalloc(t, c)
          \/ StepTo(t, "free", [c EXCEPT !.blk = HdrOf(ptr)])
          \/ StepTo(t, "realloc_sub", [c EXCEPT !.ret = ptr])
      BY <3>1 DEF p2realloc, StepTo, Goto
    <3> HIDE DEF c
    <3> QED
      BY <2>1, <3>2
  <2> QED
    BY <2>2, <2>3, <2>4, <2>5 DEF Call
<1>2. pc[t] = "idle" /\ UNCHANGED <<freelists, hdr, mapped, allocated, totmem>>
  BY DEF Call, p2malloc, p2calloc, p2free, p2realloc, shared
<1> QED
  BY <1>1, <1>2

LEMMA CallByte ==
  ASSUME HeapInv, NEW t \in Threads, Call(t), NEW x
  PROVE  Kept(x)
  BY CallMoves, EmptyByte DEF HeapInv, Holding

LEMMA DispatchStep ==
  ASSUME NEW t \in Threads, Dispatch(t), TypeOK
  PROVE  \E l \in {"os_alloc", "lock"} : \E c : StepTo(t, l, c)
  BY DEF Dispatch, StepTo, Goto, TypeOK

LEMMA ResumeStep ==
  ASSUME NEW t \in Threads, NEW ptr, Resume(t, ptr)
  PROVE  \E l \in {"zero_payload", "copy_payload", "done"} :
           StepTo(t, l, [call[t] EXCEPT !.ret = ptr])
  BY DEF Resume, AfterMalloc, StepTo, Goto

\* What matters to the bytes or the counters happens between these labels.
Busy == Holding \cup {"add_totmem", "realloc_add"}

Aside(t) ==
  \/ CompareAndSwap(t) \/ InitReady(t) \/ SpinEnds(t)
  \/ LargeAllocFails(t)
  \/ SlabLock(t) \/ ListHasBlock(t) \/ ClaimPageFails(t)
  \/ ZeroPayload(t) \/ CopyPayload(t) \/ Return(t)

LEMMA AsideMoves ==
  ASSUME TypeOK, NEW t \in Threads, Aside(t)
  PROVE  /\ pc[t] \notin Busy /\ UNCHANGED <<freelists, hdr, mapped, allocated, totmem>>
         /\ \E l : l \notin Busy /\ \E c : StepTo(t, l, c)
<1> USE DEF Busy, Holding
<1>1. CASE CompareAndSwap(t)
  BY <1>1, SameCall DEF CompareAndSwap
<1>2. CASE InitReady(t) \/ SpinEnds(t)
  BY <1>2, DispatchStep DEF InitReady, SpinEnds, shared
<1>3. CASE LargeAllocFails(t) \/ ClaimPageFails(t)
  BY <1>3, ResumeStep DEF LargeAllocFails, ClaimPageFails, shared
<1>4. CASE SlabLock(t) \/ ListHasBlock(t) \/ ZeroPayload(t)
  BY <1>4, SameCall DEF SlabLock, Acquire, ListHasBlock, ZeroPayload, Move, shared
<1>5. CASE CopyPayload(t)
  <2>1. StepTo(t, "free", [call[t] EXCEPT !.blk = HdrOf(call[t].ptr)])
    BY <1>5 DEF CopyPayload, Move, Goto, StepTo
  <2> QED
    BY <1>5, <2>1 DEF CopyPayload, Move, shared
<1>6. CASE Return(t)
  <2>1. StepTo(t, "idle", NoCall)
    BY <1>6 DEF Return, Move, Goto, StepTo
  <2> QED
    BY <1>6, <2>1 DEF Return, Move
<1> QED
  BY <1>1, <1>2, <1>3, <1>4, <1>5, <1>6 DEF Aside

\* The steps of a thread that has nothing in hand, before and after.
LEMMA AsideByte ==
  ASSUME HeapInv, NEW t \in Threads, NEW x,
         Aside(t) \/ LargeAddTotmem(t) \/ ResizeSub(t)
  PROVE  Kept(x)
<1>1. CASE Aside(t)
  BY <1>1, AsideMoves, EmptyByte DEF HeapInv, Busy
<1>2. CASE LargeAddTotmem(t)
  BY <1>2, ResumeStep, EmptyByte DEF LargeAddTotmem, HeapInv, Holding
<1>3. CASE ResizeSub(t)
  BY <1>3, SameCall, EmptyByte DEF ResizeSub, Move, HeapInv, Holding
<1> QED
  BY <1>1, <1>2, <1>3

\* The steps that keep in hand what they had.
LEMMA SameHandByte ==
  ASSUME HeapInv, NEW t \in Threads, NEW x, SubTotmem(t) \/ FreeLock(t)
  PROVE  Kept(x)
<1>1. UNCHANGED <<freelists, hdr, mapped>>
  BY DEF SubTotmem, FreeLock, Acquire
<1>2. CASE SubTotmem(t)
  <2>1. StepTo(t, "free_unmap", call[t]) /\ pc[t] = "free_totmem"
    BY <1>2, SameCall DEF SubTotmem, Move, HeapInv
  <2>2. Handed("free_unmap", call[t], x) <=> Handed("free_totmem", call[t], x)
    BY DEF Handed, HandAt
  <2> QED
    BY <1>1, <2>1, <2>2, QuietByte DEF HeapInv
<1>3. CASE FreeLock(t)
  <2>1. StepTo(t, "free_insert", call[t]) /\ pc[t] = "free_lock"
    BY <1>3, SameCall DEF FreeLock, Acquire, Move, HeapInv
  <2>2. Handed("free_insert", call[t], x) <=> Handed("free_lock", call[t], x)
    BY DEF Handed, HandAt
  <2> QED
    BY <1>1, <2>1, <2>2, QuietByte DEF HeapInv
<1> QED
  BY <1>2, <1>3

LEMMA freelists_initByte ==
  ASSUME HeapInv, ControlInv, NEW t \in Threads, freelists_init(t), NEW x \in Nat
  PROVE  Kept(x)
<1>1. /\ \A u \in Threads : pc[u] \in EarlyLabels /\ pc'[u] \in EarlyLabels
      /\ hdr = <<>> /\ hdr' = <<>> /\ mapped' = mapped
  BY DEF freelists_init, Move, Goto, ControlInv, ControlTypeOK, NothingYet, OneInits, Initing,
     EarlyLabels
<1>2. ~ InHands(x) /\ ~ InHands(x)'
  BY <1>1 DEF InHands, Handed, HandAt, EarlyLabels
<1>3. ~ InBlock(x) /\ ~ InBlock(x)'
  BY <1>1 DEF InBlock
<1>4. ~ InList(x)'
  <2>1. \A i \in Freelists : freelists'[i] = <<>>
    BY DEF freelists_init
  <2> QED
    BY <2>1 DEF InList, Range
<1>5. ~ InList(x)
  <2>1. mapped = {}
    BY DEF freelists_init, Move, ControlInv, NothingYet, OneInits, Initing
  <2> QED
    BY <2>1, OwnedIsMapped DEF Mapped, IsOwned
<1>6. Mapped(x)' <=> Mapped(x)
  BY <1>1 DEF Mapped
<1> QED
  BY <1>2, <1>3, <1>4, <1>5, <1>6 DEF Kept, IsOwned

--------------------------------------------------------------------------------
\* Headers and lists, byte by byte.
LEMMA HeaderOn ==
  ASSUME NEW b, b \notin DOMAIN hdr, NEW h, hdr' = WithHeader(b, h), NEW x
  PROVE  InBlock(x)' <=> InBlock(x) \/ ByteIn(x, b, BlockBytes(h))
<1>1. /\ DOMAIN hdr' = DOMAIN hdr \cup {b} /\ hdr'[b] = h
      /\ \A a \in DOMAIN hdr : hdr'[a] = hdr[a]
  BY DEF WithHeader
<1>2. InBlock(x)' <=> \E a \in DOMAIN hdr' : ByteIn(x, a, BlockBytes(hdr'[a]))
  BY DEF InBlock, BlockBytes, IS_LARGE
<1> QED
  BY <1>1, <1>2, Zenon DEF InBlock

LEMMA HeaderOff ==
  ASSUME NEW b \in DOMAIN hdr, hdr' = WithoutHeader(b), NEW x
  PROVE  InBlock(x) <=> InBlock(x)' \/ ByteIn(x, b, BlockBytes(hdr[b]))
<1>1. /\ DOMAIN hdr' = DOMAIN hdr \ {b}
      /\ \A a \in DOMAIN hdr \ {b} : hdr'[a] = hdr[a]
  BY DEF WithoutHeader
<1>2. InBlock(x)' <=> \E a \in DOMAIN hdr' : ByteIn(x, a, BlockBytes(hdr'[a]))
  BY DEF InBlock, BlockBytes, IS_LARGE
<1>3. (\E a \in DOMAIN hdr' : ByteIn(x, a, BlockBytes(hdr'[a])))
        <=> \E a \in DOMAIN hdr \ {b} : ByteIn(x, a, BlockBytes(hdr[a]))
  BY <1>1, Zenon
<1> QED
  BY <1>2, <1>3, Zenon DEF InBlock

OnOthers(i, x) ==
  \E j \in Freelists \ {i} : \E b \in Range(freelists[j]) : ByteIn(x, b, pow2(j))

LEMMA OneList ==
  ASSUME TypeOK, NEW i \in Freelists, NEW list, freelists' = [freelists EXCEPT ![i] = list],
         NEW x
  PROVE  /\ InList(x) <=> \/ OnOthers(i, x)
                          \/ \E b \in Range(freelists[i]) : ByteIn(x, b, pow2(i))
         /\ InList(x)' <=> \/ OnOthers(i, x)
                           \/ \E b \in Range(list) : ByteIn(x, b, pow2(i))
<1>1. freelists'[i] = list /\ \A j \in Freelists \ {i} : freelists'[j] = freelists[j]
  BY DEF TypeOK
<1>2. InList(x)' <=> \E j \in Freelists : \E b \in Range(freelists'[j]) : ByteIn(x, b, pow2(j))
  BY DEF InList
<1> QED
  BY <1>1, <1>2, Zenon DEF InList, OnOthers

\* A block in hand gets its header, and one in use gives it up.
LEMMA LargeAddAllocatedByte ==
  ASSUME HeapInv, NEW t \in Threads, LargeAddAllocated(t), NEW x
  PROVE  Kept(x)
<1> DEFINE c == call[t]
           h == [size |-> c.size, alloc_size |-> c.alloc_size]
<1>1. /\ pc[t] = "add_allocated" /\ StepTo(t, "add_totmem", c)
      /\ hdr' = WithHeader(c.blk, h) /\ UNCHANGED <<freelists, mapped>>
  BY SameCall DEF LargeAddAllocated, Move, HeapInv
<1>2. LocalsAt("add_allocated", c, freelists, hdr)
  BY <1>1 DEF HeapInv, LocalsInv
<1>3. c.alloc_size # 0
  BY <1>2 DEF LocalsAt, WholePages
<1>4. HandAt("add_allocated", c) = c.alloc_size /\ BlockBytes(h) = c.alloc_size
  BY <1>3 DEF HandAt, BlockBytes, IS_LARGE
<1>5. InHand(t) # 0
  BY <1>1, <1>3 DEF InHand
<1>6. c.blk \notin DOMAIN hdr
  BY <1>5, InHandAlone DEF HeapInv
<1>7. InBlock(x)' <=> InBlock(x) \/ ByteIn(x, c.blk, c.alloc_size)
  BY <1>1, <1>4, <1>6, HeaderOn
<1>8. Handed("add_allocated", c, x) <=> ByteIn(x, c.blk, c.alloc_size)
  BY <1>3, <1>4 DEF Handed
<1>9. ~ Handed("add_totmem", c, x)
  BY EmptyHand DEF Holding
<1>10. (InList(x)' <=> InList(x)) /\ (Mapped(x)' <=> Mapped(x))
  BY <1>1 DEF InList, Mapped
<1> QED
  BY <1>1, <1>7, <1>8, <1>9, <1>10, HandsAfterStep DEF Kept, IsOwned, HeapInv

LEMMA WriteHeaderByte ==
  ASSUME HeapInv, NEW t \in Threads, WriteHeader(t), NEW x
  PROVE  Kept(x)
<1> DEFINE c == call[t]
           h == [size |-> c.size, alloc_size |-> 0]
<1>1. /\ pc[t] = "write_header"
      /\ hdr' = WithHeader(c.blk, h) /\ UNCHANGED <<freelists, mapped>>
  BY DEF WriteHeader
<1>2. PICK l \in {"zero_payload", "copy_payload", "done"} :
        StepTo(t, l, [c EXCEPT !.ret = PtrOf(c.blk)])
  BY ResumeStep DEF WriteHeader
<1>3. LocalsAt("write_header", c, freelists, hdr)
  BY <1>1 DEF HeapInv, LocalsInv
<1>4. c.idx \in Freelists /\ c.idx = get_freelist_idx(c.size)
  BY <1>3 DEF LocalsAt, SlabWay
<1>5. pow2(c.idx) # 0
  BY <1>4, BlockSizes, FreelistNumbers
<1>6. HandAt("write_header", c) = pow2(c.idx) /\ BlockBytes(h) = pow2(c.idx)
  BY <1>4 DEF HandAt, BlockBytes, IS_LARGE
<1>7. InHand(t) # 0
  BY <1>1, <1>5 DEF InHand
<1>8. c.blk \notin DOMAIN hdr
  BY <1>7, InHandAlone DEF HeapInv
<1>9. InBlock(x)' <=> InBlock(x) \/ ByteIn(x, c.blk, pow2(c.idx))
  BY <1>1, <1>6, <1>8, HeaderOn
<1>10. Handed("write_header", c, x) <=> ByteIn(x, c.blk, pow2(c.idx))
  BY <1>5, <1>6 DEF Handed
<1>11. ~ Handed(l, [c EXCEPT !.ret = PtrOf(c.blk)], x)
  BY EmptyHand DEF Holding
<1>12. (InList(x)' <=> InList(x)) /\ (Mapped(x)' <=> Mapped(x))
  BY <1>1 DEF InList, Mapped
<1> QED
  BY <1>1, <1>2, <1>9, <1>10, <1>11, <1>12, HandsAfterStep DEF Kept, IsOwned, HeapInv

LEMMA FreedHasHeader ==
  ASSUME HeapInv, NEW t \in Threads, pc[t] = "free"
  PROVE  call[t].blk \in DOMAIN hdr
  BY DEF HeapInv, OwnersInv, CallBlocks, GivenBlock

LEMMA FreeLargeByte ==
  ASSUME HeapInv, NEW t \in Threads, FreeLarge(t), NEW x
  PROVE  Kept(x)
<1> DEFINE c == call[t]
           b == c.blk
           n == hdr[b].alloc_size
           d == [c EXCEPT !.alloc_size = n]
<1>1. /\ pc[t] = "free" /\ StepTo(t, "free_totmem", d) /\ n # 0
      /\ hdr' = WithoutHeader(b) /\ UNCHANGED <<freelists, mapped>>
  BY DEF FreeLarge, Move, Goto, StepTo, IS_LARGE
<1>2. b \in DOMAIN hdr /\ BlockBytes(hdr[b]) = n
  BY <1>1, FreedHasHeader DEF BlockBytes, IS_LARGE
<1>3. InBlock(x) <=> InBlock(x)' \/ ByteIn(x, b, n)
  BY <1>1, <1>2, HeaderOff
<1>4. d.blk = b /\ d.alloc_size = n
  BY DEF HeapInv, TypeOK, Calls
<1> HIDE DEF d
<1>5. Handed("free_totmem", d, x) <=> ByteIn(x, b, n)
  BY <1>1, <1>4 DEF Handed, HandAt
<1>6. ~ Handed("free", c, x)
  BY EmptyHand DEF Holding
<1>7. (InList(x)' <=> InList(x)) /\ (Mapped(x)' <=> Mapped(x))
  BY <1>1 DEF InList, Mapped
<1> QED
  BY <1>1, <1>3, <1>5, <1>6, <1>7, HandsAfterStep DEF Kept, IsOwned, HeapInv

LEMMA FreeSlabByte ==
  ASSUME HeapInv, NEW t \in Threads, FreeSlab(t), NEW x
  PROVE  Kept(x)
<1> DEFINE c == call[t]
           b == c.blk
           i == get_freelist_idx(hdr[b].size)
           d == [c EXCEPT !.idx = i]
<1>1. /\ pc[t] = "free" /\ ~ IS_LARGE(hdr[b])
      /\ StepTo(t, IF i \in Freelists THEN "free_lock" ELSE "aborted", d)
      /\ hdr' = WithoutHeader(b) /\ UNCHANGED <<freelists, mapped>>
  BY DEF FreeSlab, Goto, StepTo
<1>2. b \in DOMAIN hdr /\ BlockBytes(hdr[b]) = pow2(i)
  BY <1>1, FreedHasHeader DEF BlockBytes
<1>3. i \in Freelists
  BY <1>1, <1>2 DEF HeapInv, HeadersInv, HeaderTrue
<1>4. InBlock(x) <=> InBlock(x)' \/ ByteIn(x, b, pow2(i))
  BY <1>1, <1>2, HeaderOff
<1>5. d.blk = b /\ d.idx = i /\ pow2(i) # 0
  BY <1>3, BlockSizes, FreelistNumbers DEF HeapInv, TypeOK, Calls
<1> HIDE DEF d, i
<1>6. Handed("free_lock", d, x) <=> ByteIn(x, b, pow2(i))
  BY <1>5 DEF Handed, HandAt
<1>7. ~ Handed("free", c, x)
  BY EmptyHand DEF Holding
<1>8. (InList(x)' <=> InList(x)) /\ (Mapped(x)' <=> Mapped(x))
  BY <1>1 DEF InList, Mapped
<1> QED
  BY <1>1, <1>3, <1>4, <1>6, <1>7, <1>8, HandsAfterStep DEF Kept, IsOwned, HeapInv

\* A realloc in place changes the request and not the block.
LEMMA ResizeAddByte ==
  ASSUME HeapInv, NEW t \in Threads, ResizeAdd(t), NEW x
  PROVE  Kept(x)
<1> DEFINE c == call[t]
           b == HdrOf(c.ptr)
<1>1. /\ pc[t] = "realloc_add" /\ StepTo(t, "done", c)
      /\ hdr' = [hdr EXCEPT ![b].size = c.size] /\ UNCHANGED <<freelists, mapped>>
  BY SameCall DEF ResizeAdd, Move, HeapInv
<1>2. LocalsAt("realloc_add", c, freelists, hdr)
  BY <1>1 DEF HeapInv, LocalsInv
<1>3. StaysInPlace(hdr[b], c.size) /\ b \in DOMAIN hdr
  BY <1>1, <1>2 DEF LocalsAt, HeapInv, OwnersInv, CallBlocks, NewBlock
<1>4. hdr[b] \in Headers
  BY <1>3 DEF HeapInv, TypeOK
<1>5. DOMAIN hdr' = DOMAIN hdr /\ \A a \in DOMAIN hdr : BlockBytes(hdr'[a]) = BlockBytes(hdr[a])
  <2> SUFFICES ASSUME NEW a \in DOMAIN hdr PROVE BlockBytes(hdr'[a]) = BlockBytes(hdr[a])
    BY <1>1
  <2>1. CASE a = b
    <3>1. hdr'[b].size = c.size /\ hdr'[b].alloc_size = hdr[b].alloc_size
      BY <1>1, <1>3, <1>4 DEF Headers
    <3> QED
      BY <1>3, <2>1, <3>1 DEF BlockBytes, IS_LARGE, StaysInPlace
  <2>2. CASE a # b
    BY <1>1, <2>2
  <2> QED
    BY <2>1, <2>2
<1>6. InBlock(x)' <=> InBlock(x)
  <2>1. InBlock(x)' <=> \E a \in DOMAIN hdr' : ByteIn(x, a, BlockBytes(hdr'[a]))
    BY DEF InBlock, BlockBytes, IS_LARGE
  <2> QED
    BY <1>5, <2>1, Zenon DEF InBlock
<1>7. ~ Handed("realloc_add", c, x) /\ ~ Handed("done", c, x)
  BY EmptyHand DEF Holding
<1>8. (InList(x)' <=> InList(x)) /\ (Mapped(x)' <=> Mapped(x))
  BY <1>1 DEF InList, Mapped
<1> QED
  BY <1>1, <1>6, <1>7, <1>8, HandsAfterStep DEF Kept, IsOwned, HeapInv

\* The blocks that a page is carved into leave out none of its bytes.
LEMMA CarvedBytes ==
  ASSUME NEW page \in Nat, NEW bytes \in BlockLengths, NEW x \in Nat
  PROVE  (\E b \in Range(CarvedPage(page, 4096, bytes)) : ByteIn(x, b, bytes))
           <=> ByteIn(x, page, 4096)
<1> DEFINE list == CarvedPage(page, 4096, bytes)
           n    == 4096 \div bytes
<1>1. BlocksOfPage(list, page, bytes)
  BY CarvedPageBlocks
<1>2. bytes \in Nat /\ bytes >= 32
  BY DEF BlockLengths
<1>3. ASSUME NEW b \in Range(list), ByteIn(x, b, bytes)
      PROVE  ByteIn(x, page, 4096)
  <2>1. b \in Nat /\ page <= b /\ b + bytes <= page + 4096
    BY <1>1 DEF BlocksOfPage
  <2> HIDE DEF list
  <2> QED
    BY <1>2, <1>3, <2>1 DEF ByteIn
<1>4. ASSUME ByteIn(x, page, 4096)
      PROVE  \E b \in Range(list) : ByteIn(x, b, bytes)
  <2>1. PICK y \in 0..4095 : x = page + y
    <3>1. x - page \in 0..4095 /\ x = page + (x - page)
      BY <1>4 DEF ByteIn
    <3> QED
      BY <3>1
  <2>2. \E k \in 1..n : 4096 - k * bytes <= y /\ y < 4096 - k * bytes + bytes
    <3>1. bytes \in {32, 64, 128, 256, 512, 1024, 2048, 4096}
      BY DEF BlockLengths
    <3> DEFINE q == y \div bytes
    <3>2. n \in Nat /\ n * bytes = 4096
      BY <3>1
    <3>3. q \in Nat /\ q * bytes <= y /\ y < q * bytes + bytes
      BY <3>1
    <3>4. q < n
      BY <3>1
    <3> HIDE DEF n, q
    <3>5. (n - q) * bytes = n * bytes - q * bytes
      BY <1>2, <3>2, <3>3
    <3>6. n - q \in 1..n /\ 4096 - (n - q) * bytes <= y /\ y < 4096 - (n - q) * bytes + bytes
      BY <1>2, <3>2, <3>3, <3>4, <3>5
    <3> QED
      BY <3>6
  <2>3. PICK k \in 1..n : 4096 - k * bytes <= y /\ y < 4096 - k * bytes + bytes
    BY <2>2
  <2>4. DOMAIN list = 1..n /\ list[k] = page + 4096 - k * bytes
    BY DEF CarvedPage
  <2>5. list[k] \in Range(list)
    <3> HIDE DEF list
    <3> QED
      BY <2>4 DEF Range
  <2>6. ByteIn(x, page + 4096 - k * bytes, bytes)
    <3>1. k * bytes \in Int
      BY <1>2
    <3> DEFINE m == k * bytes
    <3> HIDE DEF m
    <3>2. m \in Int /\ 4096 - m <= y /\ y < 4096 - m + bytes
      BY <2>3, <3>1 DEF m
    <3>3. ByteIn(x, page + 4096 - m, bytes)
      BY <1>2, <2>1, <3>2 DEF ByteIn
    <3> QED
      BY <3>3 DEF m
  <2> HIDE DEF list
  <2> QED
    BY <2>4, <2>5, <2>6
<1> QED
  BY <1>3, <1>4

LEMMA CarvePageByte ==
  ASSUME HeapInv, NEW t \in Threads, CarvePage(t), NEW x \in Nat
  PROVE  Kept(x)
<1> DEFINE c    == call[t]
           i    == c.idx
           list == CarvedPage(c.blk, 4096, pow2(i))
<1>1. /\ pc[t] = "carve" /\ StepTo(t, "pop", c)
      /\ freelists' = [freelists EXCEPT ![i] = list \o @] /\ UNCHANGED <<hdr, mapped>>
  BY SameCall DEF CarvePage, Move, HeapInv, PAGE_BYTES
<1>2. LocalsAt("carve", c, freelists, hdr)
  BY <1>1 DEF HeapInv, LocalsInv
<1>3. i \in Freelists /\ c.blk \in HeapPages /\ freelists[i] = <<>>
  BY <1>2 DEF LocalsAt, SlabWay
<1>4. c.blk \in Nat /\ pow2(i) \in BlockLengths
  <2>1. c.blk \in Nat
    BY <1>3, HeapNumbers
  <2>2. pow2(i) \in BlockLengths
    BY <1>3, BlockSizes, FreelistNumbers DEF BlockLengths
  <2> QED
    BY <2>1, <2>2
<1>5. (\E b \in Range(list) : ByteIn(x, b, pow2(i))) <=> ByteIn(x, c.blk, 4096)
  BY <1>4, CarvedBytes
<1>6. list \in Seq(Int)
  BY <1>4, CarvedPageBlocks DEF BlocksOfPage
<1> HIDE DEF list
<1>7. freelists' = [freelists EXCEPT ![i] = list]
  BY <1>1, <1>3, <1>6 DEF HeapInv, TypeOK
<1>8. ~ \E b \in Range(freelists[i]) : ByteIn(x, b, pow2(i))
  BY <1>3 DEF Range
<1>9. InList(x)' <=> InList(x) \/ ByteIn(x, c.blk, 4096)
  <2>1. /\ InList(x) <=> \/ OnOthers(i, x)
                         \/ \E b \in Range(freelists[i]) : ByteIn(x, b, pow2(i))
        /\ InList(x)' <=> OnOthers(i, x) \/ \E b \in Range(list) : ByteIn(x, b, pow2(i))
    BY <1>3, <1>7, OneList, Zenon DEF HeapInv
  <2> QED
    BY <1>5, <1>8, <2>1
<1>10. Handed("carve", c, x) <=> ByteIn(x, c.blk, 4096)
  BY DEF Handed, HandAt, PAGE_BYTES
<1>11. ~ Handed("pop", c, x)
  BY EmptyHand DEF Holding
<1>12. (InBlock(x)' <=> InBlock(x)) /\ (Mapped(x)' <=> Mapped(x))
  BY <1>1 DEF InBlock, Mapped
<1> QED
  BY <1>1, <1>9, <1>10, <1>11, <1>12, HandsAfterStep DEF Kept, IsOwned, HeapInv

LEMMA TakeFirstByte ==
  ASSUME HeapInv, NEW t \in Threads, TakeFirst(t), NEW x \in Nat
  PROVE  Kept(x)
<1> DEFINE c    == call[t]
           i    == c.idx
           b    == Head(freelists[i])
           d    == [c EXCEPT !.blk = b]
           rest == Tail(freelists[i])
<1>1. /\ pc[t] = "pop" /\ StepTo(t, "write_header", d)
      /\ freelists' = [freelists EXCEPT ![i] = rest] /\ UNCHANGED <<hdr, mapped>>
  BY DEF TakeFirst, Move, Goto, StepTo
<1>2. i \in Freelists /\ freelists[i] # <<>> /\ freelists[i] \in Seq(BlockAddrs)
  BY <1>1 DEF HeapInv, LocalsInv, LocalsAt, SlabWay, TypeOK
<1>3. b \in Range(freelists[i]) /\ Range(rest) = Range(freelists[i]) \ {b}
  BY <1>2, TailNodes DEF HeapInv, ChunksInv
<1>4. d.blk = b /\ d.idx = i
  BY DEF HeapInv, TypeOK, Calls
<1>5. pow2(i) # 0
  BY <1>2, BlockSizes, FreelistNumbers
<1> HIDE DEF d, rest, b
<1>6. InList(x) <=> InList(x)' \/ ByteIn(x, b, pow2(i))
  <2>1. /\ InList(x) <=> \/ OnOthers(i, x)
                         \/ \E a \in Range(freelists[i]) : ByteIn(x, a, pow2(i))
        /\ InList(x)' <=> OnOthers(i, x) \/ \E a \in Range(rest) : ByteIn(x, a, pow2(i))
    BY <1>1, <1>2, OneList, Zenon DEF HeapInv
  <2> QED
    BY <1>3, <2>1
<1>7. Handed("write_header", d, x) <=> ByteIn(x, b, pow2(i))
  BY <1>4, <1>5 DEF Handed, HandAt
<1>8. ~ Handed("pop", c, x)
  BY EmptyHand DEF Holding
<1>9. (InBlock(x)' <=> InBlock(x)) /\ (Mapped(x)' <=> Mapped(x))
  BY <1>1 DEF InBlock, Mapped
<1> QED
  BY <1>1, <1>6, <1>7, <1>8, <1>9, HandsAfterStep DEF Kept, IsOwned, HeapInv

LEMMA FreeInsertByte ==
  ASSUME HeapInv, NEW t \in Threads, FreeInsert(t), NEW x \in Nat
  PROVE  Kept(x)
<1> DEFINE c == call[t]
           i == c.idx
           b == c.blk
<1>1. PICK k \in 0..Len(freelists[i]) :
        freelists' = [freelists EXCEPT ![i] = OrderedInsert(@, b, k)]
  BY DEF FreeInsert
<1>2. /\ pc[t] = "free_insert" /\ StepTo(t, "done", c) /\ UNCHANGED <<hdr, mapped>>
  BY SameCall DEF FreeInsert, Move, HeapInv
<1>3. LocalsAt("free_insert", c, freelists, hdr)
  BY <1>2 DEF HeapInv, LocalsInv
<1>4. i \in Freelists /\ b \in BlockAddrs
  BY <1>3 DEF LocalsAt
<1>5. freelists[i] \in Seq(BlockAddrs) /\ IsInjective(freelists[i])
  BY <1>4 DEF HeapInv, TypeOK, ChunksInv
<1>6. pow2(i) # 0
  BY <1>4, BlockSizes, FreelistNumbers
<1>7. b \notin Range(freelists[i])
  <2>1. InHand(t) # 0
    BY <1>2, <1>6 DEF InHand
  <2> QED
    BY <1>4, <2>1, InHandAlone DEF HeapInv
<1> DEFINE new == OrderedInsert(freelists[i], b, k)
<1>8. Range(new) = Range(freelists[i]) \cup {b}
  BY <1>4, <1>5, <1>7, InsertNodes
<1>9. freelists' = [freelists EXCEPT ![i] = new]
  BY <1>1
<1> HIDE DEF new
<1>10. InList(x)' <=> InList(x) \/ ByteIn(x, b, pow2(i))
  <2>1. /\ InList(x) <=> \/ OnOthers(i, x)
                         \/ \E a \in Range(freelists[i]) : ByteIn(x, a, pow2(i))
        /\ InList(x)' <=> OnOthers(i, x) \/ \E a \in Range(new) : ByteIn(x, a, pow2(i))
    BY <1>4, <1>9, OneList, Zenon DEF HeapInv
  <2> QED
    BY <1>8, <2>1
<1>11. Handed("free_insert", c, x) <=> ByteIn(x, b, pow2(i))
  BY <1>6 DEF Handed, HandAt
<1>12. ~ Handed("done", c, x)
  BY EmptyHand DEF Holding
<1>13. (InBlock(x)' <=> InBlock(x)) /\ (Mapped(x)' <=> Mapped(x))
  BY <1>2 DEF InBlock, Mapped
<1> QED
  BY <1>2, <1>10, <1>11, <1>12, <1>13, HandsAfterStep DEF Kept, IsOwned, HeapInv

\* Fresh pages come into the hand of the thread that asked for them.
LEMMA FromOSByte ==
  ASSUME HeapInv, NEW t \in Threads, NEW l \in {"add_allocated", "carve"}, NEW c, StepTo(t, l, c),
         pc[t] \notin Holding, HandAt(l, c) \in Nat, WholePages(c.blk, HandAt(l, c)),
         c.blk \in Room(HandAt(l, c)), mapped' = mapped \cup PagesOf(c.blk, HandAt(l, c)),
         UNCHANGED <<freelists, hdr>>, NEW x \in Nat
  PROVE  Kept(x)
<1> DEFINE n    == HandAt(l, c)
           page == c.blk
<1>1. page \in HeapPages /\ n # 0 /\ page + n <= HeapEnd /\ PagesOf(page, n) \cap mapped = {}
  BY DEF Room
<1>2. Handed(l, c, x) <=> ByteIn(x, page, n)
  BY <1>1 DEF Handed
<1> HIDE DEF n, page
<1>3. (\E p \in PagesOf(page, n) : ByteIn(x, p, 4096)) <=> ByteIn(x, page, n)
  BY <1>1, PageBytes DEF n, page
<1>4. Mapped(x)' <=> Mapped(x) \/ ByteIn(x, page, n)
  BY <1>3 DEF Mapped, n, page
<1>5. ~ (Mapped(x) /\ ByteIn(x, page, n))
  <2> SUFFICES ASSUME NEW p \in mapped, ByteIn(x, p, 4096),
                      NEW q \in PagesOf(page, n), ByteIn(x, q, 4096)
               PROVE  FALSE
    BY <1>3 DEF Mapped
  <2>1. p \in HeapPages /\ q \in HeapPages
    BY DEF HeapInv, TypeOK, PagesOf
  <2> QED
    BY <1>1, <2>1, SamePage
<1>6. ~ Handed(pc[t], call[t], x)
  BY EmptyHand
<1>7. (InList(x)' <=> InList(x)) /\ (InBlock(x)' <=> InBlock(x))
  BY DEF InList, InBlock
<1>8. IsOwned(x)' <=> IsOwned(x) \/ ByteIn(x, page, n)
  BY <1>2, <1>6, <1>7, HandsAfterStep DEF IsOwned, HeapInv
<1> QED
  BY <1>4, <1>5, <1>8 DEF Kept

LEMMA LargeAllocByte ==
  ASSUME HeapInv, NEW t \in Threads, LargeAlloc(t), NEW x \in Nat
  PROVE  Kept(x)
<1> DEFINE n == page_align(Wrap(P2_HEADER_SIZE + call[t].size))
<1>1. PICK page \in Room(n) :
        /\ mapped' = mapped \cup PagesOf(page, n)
        /\ call' = [call EXCEPT ![t].blk = page, ![t].alloc_size = n]
  BY DEF LargeAlloc
<1>2. call[t] \in Calls /\ pc[t] = "os_alloc" /\ Goto(t, "add_allocated")
      /\ UNCHANGED <<freelists, hdr>>
  BY DEF LargeAlloc, Move, HeapInv, TypeOK
<1>3. n \in Nat /\ n % PAGE_BYTES = 0
  BY <1>2, LargeBytes DEF Calls
<1> HIDE DEF n
<1> DEFINE d == [call[t] EXCEPT !.blk = page, !.alloc_size = n]
<1>4. StepTo(t, "add_allocated", d)
  BY <1>1, <1>2 DEF StepTo, Goto, HeapInv, TypeOK
<1>5. d.blk = page /\ d.alloc_size = n
  BY <1>2 DEF Calls
<1>6. page \in HeapPages /\ n > 0
  BY DEF Room
<1>7. WholePages(page, n)
  BY <1>3, <1>6, HeapNumbers DEF WholePages
<1> HIDE DEF d
<1>8. HandAt("add_allocated", d) = n
  BY <1>5 DEF HandAt
<1> QED
  BY <1>1, <1>2, <1>3, <1>4, <1>5, <1>7, <1>8, FromOSByte DEF Holding

LEMMA ClaimPageByte ==
  ASSUME HeapInv, NEW t \in Threads, ClaimPage(t), NEW x \in Nat
  PROVE  Kept(x)
<1>1. PICK page \in Room(PAGE_BYTES) :
        /\ mapped' = mapped \cup {page}
        /\ call' = [call EXCEPT ![t].blk = page]
  BY DEF ClaimPage
<1>2. call[t] \in Calls /\ pc[t] = "check" /\ Goto(t, "carve")
      /\ UNCHANGED <<freelists, hdr>>
  BY DEF ClaimPage, Move, HeapInv, TypeOK
<1> DEFINE d == [call[t] EXCEPT !.blk = page]
<1>3. StepTo(t, "carve", d) /\ d.blk = page
  BY <1>1, <1>2 DEF StepTo, Goto, Calls
<1> HIDE DEF d
<1>4. HandAt("carve", d) = PAGE_BYTES /\ PAGE_BYTES \in Nat
  BY DEF HandAt, PAGE_BYTES
<1>5. page \in HeapPages
  BY DEF Room
<1>6. WholePages(page, PAGE_BYTES) /\ PagesOf(page, PAGE_BYTES) = {page}
  BY <1>5, HeapNumbers DEF WholePages, PagesOf
<1> QED
  BY <1>1, <1>2, <1>3, <1>4, <1>6, FromOSByte DEF Holding

\* Pages in hand go back to the OS.
LEMMA UnmapByte ==
  ASSUME HeapInv, NEW t \in Threads, Unmap(t), NEW x \in Nat
  PROVE  Kept(x)
<1> DEFINE c == call[t]
           n == c.alloc_size
<1>1. /\ pc[t] = "free_unmap" /\ StepTo(t, "done", c)
      /\ mapped' = mapped \ PagesOf(c.blk, n)
      /\ UNCHANGED <<freelists, hdr>>
  BY SameCall DEF Unmap, Move, HeapInv
<1>2. LocalsAt("free_unmap", c, freelists, hdr)
  BY <1>1 DEF HeapInv, LocalsInv
<1>3. c.blk \in HeapPages /\ WholePages(c.blk, n) /\ n # 0
  BY <1>2 DEF LocalsAt, WholePages
<1>4. Chunk("thread", t, c.blk, n) \in Chunks
  BY <1>1, <1>3 DEF Chunks, HandChunks, InHand
<1>5. c.blk + n <= HeapEnd /\ n \in Nat
  BY <1>4 DEF HeapInv, ChunksInv, Placed, Chunk
<1>6. (\E p \in PagesOf(c.blk, n) : ByteIn(x, p, 4096)) <=> ByteIn(x, c.blk, n)
  BY <1>3, <1>5, PageBytes
<1>7. Handed("free_unmap", c, x) <=> ByteIn(x, c.blk, n)
  BY <1>3 DEF Handed, HandAt
<1>8. ~ Handed("done", c, x)
  BY EmptyHand DEF Holding
<1>9. (InList(x)' <=> InList(x)) /\ (InBlock(x)' <=> InBlock(x))
  BY <1>1 DEF InList, InBlock
<1>10. IsOwned(x) <=> IsOwned(x)' \/ ByteIn(x, c.blk, n)
  BY <1>1, <1>7, <1>8, <1>9, HandsAfterStep DEF IsOwned, HeapInv
<1>11. CASE ByteIn(x, c.blk, n)
  <2>1. Mapped(x)
    BY <1>10, <1>11, OwnedIsMapped
  <2>2. ~ Mapped(x)'
    <3> SUFFICES ASSUME NEW p \in mapped \ PagesOf(c.blk, n), ByteIn(x, p, 4096)
                 PROVE  FALSE
      BY <1>1 DEF Mapped
    <3>1. PICK q \in PagesOf(c.blk, n) : ByteIn(x, q, 4096)
      BY <1>6, <1>11
    <3>2. p \in HeapPages /\ q \in HeapPages
      BY DEF HeapInv, TypeOK, PagesOf
    <3> QED
      BY <3>1, <3>2, SamePage
  <2> QED
    BY <1>10, <1>11, <2>1, <2>2 DEF Kept
<1>12. CASE ~ ByteIn(x, c.blk, n)
  <2>1. Mapped(x)' <=> Mapped(x)
    BY <1>1, <1>6, <1>12 DEF Mapped
  <2> QED
    BY <1>10, <1>12, <2>1 DEF Kept
<1> QED
  BY <1>11, <1>12

\* Whatever a thread does, every byte keeps an owner while it stays mapped.
LEMMA ByteKept ==
  ASSUME HeapInv, ControlInv, NEW t \in Threads, Call(t) \/ Step(t), NEW x \in Nat
  PROVE  Kept(x)
<1>1. CASE Call(t)
  BY <1>1, CallByte
<1>2. CASE freelists_init(t)
  BY <1>2, freelists_initByte
<1>3. CASE Spin(t)
  <2>1. UNCHANGED vars
    BY <1>3 DEF Spin
  <2> QED
    BY <2>1 DEF vars, Kept, IsOwned, Mapped, InList, InBlock, InHands
<1>4. CASE Aside(t) \/ LargeAddTotmem(t) \/ ResizeSub(t)
  BY <1>4, AsideByte
<1>5. CASE SubTotmem(t) \/ FreeLock(t)
  BY <1>5, SameHandByte
<1>6. CASE \/ LargeAddAllocated(t) \/ WriteHeader(t) \/ FreeLarge(t) \/ FreeSlab(t)
           \/ ResizeAdd(t)
  BY <1>6, LargeAddAllocatedByte, WriteHeaderByte, FreeLargeByte, FreeSlabByte, ResizeAddByte
<1>7. CASE CarvePage(t) \/ TakeFirst(t) \/ FreeInsert(t)
  BY <1>7, CarvePageByte, TakeFirstByte, FreeInsertByte
<1>8. CASE LargeAlloc(t) \/ ClaimPage(t) \/ Unmap(t)
  BY <1>8, LargeAllocByte, ClaimPageByte, UnmapByte
<1> QED
  BY <1>1, <1>2, <1>3, <1>4, <1>5, <1>6, <1>7, <1>8 DEF Step, Aside

--------------------------------------------------------------------------------
(***************************************************************************)
(* Nothing is lost.                                                        *)
(***************************************************************************)
Lost(x) == \E c \in abandoned : ByteIn(x, c.base, c.bytes)

\* Every mapped byte has an owner or was free at a p2reset, never both.
AccountInv ==
  /\ Apart(abandoned)
  /\ \A c \in abandoned : Placed(c)
  /\ \A x \in Nat : /\ Mapped(x) => IsOwned(x) \/ Lost(x)
                    /\ ~ (IsOwned(x) /\ Lost(x))

LEMMA OwnersMapped == HeapInv => \A x \in Nat : IsOwned(x) => Mapped(x)
  BY OwnedIsMapped

LEMMA OwnersMappedNext == (HeapInv => \A x \in Nat : IsOwned(x) => Mapped(x))'
  BY OwnersMapped, PTL

\* Two chunks are apart or share a byte.
LEMMA SharedByte ==
  ASSUME NEW c, NEW d, c.base \in Nat, d.base \in Nat,
         c.bytes \in Nat \ {0}, d.bytes \in Nat \ {0}
  PROVE  \/ Disjoint(c, d)
         \/ \E x \in Nat : ByteIn(x, c.base, c.bytes) /\ ByteIn(x, d.base, d.bytes)
<1> DEFINE x == IF c.base < d.base THEN d.base ELSE c.base
<1>1. Disjoint(c, d) \/ (ByteIn(x, c.base, c.bytes) /\ ByteIn(x, d.base, d.bytes))
  BY DEF Disjoint, ByteIn
<1>2. x \in Nat
  OBVIOUS
<1> HIDE DEF x
<1> QED
  BY <1>1, <1>2

LEMMA DisjointBytes ==
  ASSUME NEW c, NEW d, c.base \in Nat, d.base \in Nat,
         c.bytes \in Nat, d.bytes \in Nat, Disjoint(c, d),
         NEW x \in Nat, ByteIn(x, c.base, c.bytes), ByteIn(x, d.base, d.bytes)
  PROVE  FALSE
  BY DEF Disjoint, ByteIn

LEMMA PlacedNumbers ==
  ASSUME NEW c, Placed(c)
  PROVE  c.base \in Nat /\ c.bytes \in Nat \ {0} /\ ByteIn(c.base, c.base, c.bytes)
  BY AddressRange DEF Placed, ByteIn

LEMMA StepAccount ==
  ASSUME HeapInv, ControlInv, HeapInv', AccountInv, NEW t \in Threads, Call(t) \/ Step(t),
         abandoned' = abandoned
  PROVE  AccountInv'
<1>1. \A x \in Nat : /\ Kept(x)
                     /\ IsOwned(x) => Mapped(x)
                     /\ IsOwned(x)' => Mapped(x)'
                     /\ Lost(x)' <=> Lost(x)
  BY ByteKept, OwnersMapped, OwnersMappedNext DEF Lost
<1>2. ASSUME NEW c \in abandoned PROVE Placed(c)'
  <2>1. Placed(c) /\ c.base \in Nat /\ c.bytes \in Nat \ {0}
    BY PlacedNumbers DEF AccountInv
  <2>2. ASSUME NEW page \in Spanned(c), page \notin mapped' PROVE FALSE
    <3>1. page \in mapped /\ page \in HeapPages /\ page \in Nat
      BY <2>1, HeapNumbers DEF Placed, Spanned
    <3> DEFINE x == IF c.base < page THEN page ELSE c.base
    <3>2. x \in Nat /\ ByteIn(x, page, 4096) /\ ByteIn(x, c.base, c.bytes)
      BY <2>1, <3>1, HeapNumbers DEF Spanned, ByteIn
    <3> HIDE DEF x
    <3>3. Mapped(x) /\ Lost(x) /\ ~ IsOwned(x)
      BY <3>1, <3>2 DEF Mapped, Lost, AccountInv
    <3>4. ~ Mapped(x)'
      <4> SUFFICES ASSUME NEW p \in mapped', ByteIn(x, p, 4096) PROVE FALSE
        BY DEF Mapped
      <4>1. p \in HeapPages
        BY DEF HeapInv, TypeOK
      <4> QED
        BY <2>2, <3>1, <3>2, <4>1, SamePage
    <3> QED
      BY <1>1, <3>2, <3>3, <3>4 DEF Kept
  <2>3. Spanned(c) \subseteq mapped'
    BY <2>2
  <2> QED
    BY <2>1, <2>3 DEF Placed, Spanned
<1>3. ASSUME NEW x \in Nat
      PROVE  (Mapped(x)' => IsOwned(x)' \/ Lost(x)') /\ ~ (IsOwned(x)' /\ Lost(x)')
  <2>1. (Mapped(x) => IsOwned(x) \/ Lost(x)) /\ ~ (IsOwned(x) /\ Lost(x))
    BY DEF AccountInv
  <2>2. Lost(x) => Mapped(x)
    BY PlacedMapped DEF Lost, AccountInv
  <2> QED
    BY <1>1, <2>1, <2>2 DEF Kept
<1> QED
  BY <1>2, <1>3 DEF AccountInv, Apart, Disjoint

LEMMA ResetAccount ==
  ASSUME HeapInv, AccountInv, Reset
  PROVE  AccountInv'
<1>1. /\ \A t \in Threads : pc[t] = "idle"
      /\ UNCHANGED <<mapped, hdr, pc, call>>
      /\ \A i \in Freelists : Range(freelists'[i]) = {}
      /\ abandoned' = abandoned \cup FreeChunks
  BY ResetLists DEF Reset, p2reset
<1>2. ASSUME NEW x
      PROVE  /\ Mapped(x)' <=> Mapped(x)
             /\ IsOwned(x) <=> InList(x) \/ InBlock(x)
             /\ IsOwned(x)' <=> InBlock(x)
             /\ Lost(x)' <=> Lost(x) \/ InList(x)
  <2>1. ~ InHands(x) /\ ~ InHands(x)'
    BY <1>1 DEF InHands, Handed, HandAt
  <2>2. ~ InList(x)'
    BY <1>1 DEF InList
  <2>3. (InBlock(x)' <=> InBlock(x)) /\ (Mapped(x)' <=> Mapped(x))
    BY <1>1 DEF InBlock, Mapped
  <2>4. Lost(x)' <=> Lost(x) \/ InList(x)
    BY <1>1, OwnedIsChunk DEF Lost
  <2> QED
    BY <2>1, <2>2, <2>3, <2>4 DEF IsOwned
<1>3. ASSUME NEW c \in abandoned \cup FreeChunks
      PROVE  Placed(c)
  BY <1>3 DEF AccountInv, HeapInv, ChunksInv, Chunks
<1>4. ASSUME NEW c \in abandoned, NEW d \in FreeChunks
      PROVE  Disjoint(c, d) /\ Disjoint(d, c)
  <2>1. /\ c.base \in Nat /\ c.bytes \in Nat \ {0}
        /\ d.base \in Nat /\ d.bytes \in Nat \ {0}
    BY <1>3, PlacedNumbers
  <2>2. ASSUME NEW x \in Nat, ByteIn(x, c.base, c.bytes), ByteIn(x, d.base, d.bytes)
        PROVE  FALSE
    <3>1. Lost(x) /\ InList(x)
      BY <2>2, OwnedIsChunk DEF Lost
    <3> QED
      BY <3>1 DEF AccountInv, IsOwned
  <2> QED
    BY <2>1, <2>2, SharedByte DEF Disjoint
<1>5. Apart(abandoned \cup FreeChunks)
  <2>1. Apart(abandoned) /\ Apart(Chunks)
    BY DEF AccountInv, HeapInv, ChunksInv
  <2> QED
    BY <1>4, <2>1 DEF Apart, Chunks
<1>6. ASSUME NEW x \in Nat, InList(x), InBlock(x)
      PROVE  FALSE
  <2>1. PICK c \in FreeChunks : ByteIn(x, c.base, c.bytes)
    BY <1>6, OwnedIsChunk
  <2>2. PICK d \in UsedChunks : ByteIn(x, d.base, d.bytes)
    BY <1>6, OwnedIsChunk
  <2>3. c # d
    BY DEF FreeChunks, UsedChunks, Chunk
  <2>4. Disjoint(c, d) /\ Placed(c) /\ Placed(d)
    BY <2>3 DEF HeapInv, ChunksInv, Apart, Chunks
  <2> QED
    BY <2>1, <2>2, <2>4, PlacedNumbers, DisjointBytes
<1>7. \A x \in Nat : /\ Mapped(x)' => IsOwned(x)' \/ Lost(x)'
                     /\ ~ (IsOwned(x)' /\ Lost(x)')
  BY <1>2, <1>6 DEF AccountInv
<1>8. \A c \in abandoned' : Placed(c)'
  BY <1>1, <1>3 DEF Placed, Spanned
<1> QED
  BY <1>1, <1>5, <1>7, <1>8 DEF AccountInv, Apart, Disjoint

--------------------------------------------------------------------------------
(***************************************************************************)
(* The sum of the bytes.                                                   *)
(***************************************************************************)
\* Places that are filled one cell by one, without sharing any, have as many
\* bytes as cells.
LEMMA CellsAreBytes ==
  ASSUME NEW S, NEW at, NEW w, NEW Place,
         \A c \in S : at[c] \in Nat /\ w[c] \in Nat,
         \A c \in S : \A x \in Nat : ByteIn(x, at[c], w[c]) => x \in Place,
         \A x \in Place : x \in Nat /\ \E c \in S : ByteIn(x, at[c], w[c]),
         \A c, d \in S : \A x \in Nat :
           ByteIn(x, at[c], w[c]) /\ ByteIn(x, at[d], w[d]) => c = d,
         IsFiniteSet(Cells(w, S))
  PROVE  Total(w, S) = Cardinality(Place)
<1> DEFINE f == [z \in Cells(w, S) |-> at[z[1]] + z[2] - 1]
<1>1. ASSUME NEW z \in Cells(w, S)
      PROVE  /\ z[1] \in S /\ z[2] \in 1 .. w[z[1]] /\ z = <<z[1], z[2]>>
             /\ f[z] \in Nat /\ ByteIn(f[z], at[z[1]], w[z[1]])
  <2>1. PICK c \in S : z \in {c} \X (1 .. w[c])
    BY DEF Cells
  <2>2. z[1] = c /\ z[2] \in 1 .. w[c] /\ z = <<z[1], z[2]>>
    BY <2>1
  <2>3. f[z] = at[c] + z[2] - 1
    BY <2>2
  <2>4. at[c] \in Nat /\ w[c] \in Nat
    OBVIOUS
  <2> HIDE DEF f
  <2>5. f[z] \in Nat /\ ByteIn(f[z], at[c], w[c])
    BY <2>2, <2>3, <2>4 DEF ByteIn
  <2> QED
    BY <2>2, <2>5
<1>2. ASSUME NEW y \in Cells(w, S), NEW z \in Cells(w, S), f[y] = f[z]
      PROVE  y = z
  <2>1. y[1] = z[1]
    <3> HIDE DEF f
    <3> QED
      BY <1>1, <1>2
  <2>2. at[y[1]] + y[2] - 1 = at[z[1]] + z[2] - 1
    BY <1>2
  <2>3. y[2] \in Int /\ z[2] \in Int /\ at[y[1]] \in Int
    BY <1>1
  <2>4. y[2] = z[2]
    BY <2>1, <2>2, <2>3
  <2> QED
    BY <1>1, <2>1, <2>4
<1>3. ASSUME NEW x \in Place
      PROVE  \E z \in Cells(w, S) : f[z] = x
  <2>1. PICK c \in S : ByteIn(x, at[c], w[c])
    OBVIOUS
  <2>2. x \in Nat /\ at[c] \in Nat /\ w[c] \in Nat
    OBVIOUS
  <2> DEFINE k == x - at[c] + 1
  <2>3. k \in 1 .. w[c] /\ at[c] + k - 1 = x
    BY <2>1, <2>2 DEF ByteIn
  <2> HIDE DEF k
  <2>4. <<c, k>> \in Cells(w, S)
    BY <2>3 DEF Cells
  <2>5. f[<<c, k>>] = x
    BY <2>3, <2>4
  <2> QED
    BY <2>4, <2>5
<1>4. f \in Bijection(Cells(w, S), Place)
  <2>1. f \in [Cells(w, S) -> Place]
    BY <1>1
  <2> HIDE DEF f
  <2> QED
    BY <1>2, <1>3, <2>1 DEF Bijection, Injection, Surjection, IsInjective
<1>5. ExistsBijection(Cells(w, S), Place)
  BY <1>4 DEF ExistsBijection
<1> QED
  BY <1>5, FS_Bijection, Zenon DEF Total

LEMMA HeapFinite ==
  /\ IsFiniteSet(BlockAddrs)
  /\ IsFiniteSet(HeapPages)
<1>1. IsFiniteSet(0 .. HeapEnd)
  BY HeapNumbers, FS_Interval
<1>2. BlockAddrs \subseteq 0 .. HeapEnd
  BY AddressRange, HeapNumbers
<1>3. HeapPages \subseteq 0 .. HeapEnd
  BY HeapNumbers
<1> QED
  BY <1>1, <1>2, <1>3, FS_Subset, Zenon

\* The bytes of whole pages.
BytesOf(pages) == {x \in Nat : \E p \in pages : ByteIn(x, p, 4096)}

LEMMA PagesTotal ==
  ASSUME NEW pages, pages \subseteq HeapPages
  PROVE  /\ IsFiniteSet(pages) /\ Cardinality(pages) \in Nat
         /\ Cardinality(BytesOf(pages)) = 4096 * Cardinality(pages)
<1> DEFINE at == [p \in pages |-> p]
           w  == [p \in pages |-> 4096]
<1>1. IsFiniteSet(pages)
  BY HeapFinite, FS_Subset, Zenon
<1>2. IsFiniteSet(Cells(w, pages))
  BY <1>1, CellsFinite
<1>3. Total(w, pages) = Cardinality(BytesOf(pages))
  <2>1. \A p \in pages : at[p] = p /\ w[p] = 4096 /\ p \in Nat /\ p \in HeapPages
    BY HeapNumbers
  <2> HIDE DEF at, w
  <2>2. \A p \in pages : at[p] \in Nat /\ w[p] \in Nat
    BY <2>1
  <2>3. \A p \in pages : \A x \in Nat : ByteIn(x, at[p], w[p]) => x \in BytesOf(pages)
    BY <2>1 DEF BytesOf
  <2>4. \A x \in BytesOf(pages) : x \in Nat /\ \E p \in pages : ByteIn(x, at[p], w[p])
    BY <2>1 DEF BytesOf
  <2>5. \A p, q \in pages : \A x \in Nat :
          ByteIn(x, at[p], w[p]) /\ ByteIn(x, at[q], w[q]) => p = q
    BY <2>1, SamePage
  <2> QED
    BY <1>2, <2>2, <2>3, <2>4, <2>5, CellsAreBytes
<1>4. PICK n \in Nat : n = 4096
  OBVIOUS
<1>5. Cells(w, pages) = pages \X (1 .. n)
  BY <1>4 DEF Cells
<1>6. IsFiniteSet(1 .. n) /\ Cardinality(1 .. n) = n
  BY FS_Interval
<1>7. Cardinality(pages \X (1 .. n)) = Cardinality(pages) * Cardinality(1 .. n)
  BY <1>1, <1>6, FS_Product, Zenon
<1>8. Cardinality(pages) \in Nat
  BY <1>1, FS_CardinalityType, Zenon
<1>9. Cardinality(BytesOf(pages)) = Cardinality(pages) * n
  BY <1>3, <1>5, <1>6, <1>7 DEF Total
<1> QED
  BY <1>1, <1>4, <1>8, <1>9

LEMMA AccountTotal ==
  ASSUME HeapInv, AccountInv
  PROVE  EveryByteAccounted
<1> DEFINE all == Chunks \cup abandoned
           at  == [c \in all |-> c.base]
           w   == [c \in all |-> c.bytes]
           Heap == BytesOf(mapped)
<1>1. \A c \in all : /\ Placed(c) /\ c.base \in Nat /\ c.bytes \in Nat \ {0}
                     /\ ByteIn(c.base, c.base, c.bytes)
  BY PlacedNumbers DEF HeapInv, ChunksInv, AccountInv
<1>2. \A c \in Chunks, d \in abandoned : \A x \in Nat :
        ~ (ByteIn(x, c.base, c.bytes) /\ ByteIn(x, d.base, d.bytes))
  BY OwnedIsChunk DEF AccountInv, Lost
<1>3. abandoned \cap Chunks = {}
  BY <1>1, <1>2
<1>4. \A c, d \in all : c = d \/ Disjoint(c, d)
  <2>1. \A c \in Chunks, d \in abandoned : Disjoint(c, d) /\ Disjoint(d, c)
    BY <1>1, <1>2, SharedByte DEF Disjoint
  <2> QED
    BY <2>1 DEF HeapInv, ChunksInv, AccountInv, Apart
<1>5. IsFiniteSet(all)
  <2>1. \A c, d \in all : c.base = d.base => c = d
    BY <1>1, <1>4 DEF Disjoint
  <2>2. at \in Injection(all, BlockAddrs)
    <3>1. at \in [all -> BlockAddrs]
      BY <1>1 DEF Placed
    <3>2. \A c, d \in all : at[c] = at[d] => c = d
      BY <2>1
    <3> HIDE DEF at, all
    <3> QED
      BY <3>1, <3>2 DEF Injection, IsInjective
  <2> QED
    BY <2>2, HeapFinite, FS_Injection, Zenon
<1>6. MapThenSumSet(LAMBDA c : c.bytes, all) = Total(w, all)
  <2>1. \A c \in all : c.bytes \in Nat
    BY <1>1
  <2> HIDE DEF all
  <2> QED
    BY <1>5, <2>1, ChunkSum
<1>7. Total(w, all) = Cardinality(Heap)
  <2>1. \A c \in all : at[c] = c.base /\ w[c] = c.bytes
    OBVIOUS
  <2>2. \A x \in Nat : x \in Heap <=> \E c \in all : ByteIn(x, c.base, c.bytes)
    <3>1. \A x \in Nat : IsOwned(x) => Mapped(x)
      BY OwnedIsMapped
    <3>2. \A x \in Nat : Lost(x) => Mapped(x)
      BY PlacedMapped DEF Lost, AccountInv
    <3>3. \A x \in Nat : Mapped(x) => IsOwned(x) \/ Lost(x)
      BY DEF AccountInv
    <3>4. \A x : (\E c \in all : ByteIn(x, c.base, c.bytes)) <=> IsOwned(x) \/ Lost(x)
      BY OwnedIsChunk DEF Lost
    <3> QED
      BY <3>1, <3>2, <3>3, <3>4 DEF Mapped, BytesOf
  <2>3. \A c, d \in all : \A x \in Nat :
          ByteIn(x, c.base, c.bytes) /\ ByteIn(x, d.base, d.bytes) => c = d
    BY <1>1, <1>4, DisjointBytes
  <2>4. \A c \in all : at[c] \in Nat /\ w[c] \in Nat
    BY <1>1
  <2>5. IsFiniteSet(Cells(w, all))
    <3> HIDE DEF all, w
    <3> QED
      BY <1>5, <2>4, CellsFinite
  <2>9. Heap \subseteq Nat
    BY DEF BytesOf
  <2> HIDE DEF all, at, w, Heap
  <2>6. \A x \in Heap : x \in Nat /\ \E c \in all : ByteIn(x, at[c], w[c])
    BY <2>1, <2>2, <2>9
  <2>7. \A c \in all : \A x \in Nat : ByteIn(x, at[c], w[c]) => x \in Heap
    BY <2>1, <2>2
  <2>8. \A c, d \in all : \A x \in Nat :
          ByteIn(x, at[c], w[c]) /\ ByteIn(x, at[d], w[d]) => c = d
    BY <2>1, <2>3
  <2> QED
    BY <2>4, <2>5, <2>6, <2>7, <2>8, CellsAreBytes
<1>8. Cardinality(Heap) = PAGE_BYTES * Cardinality(mapped)
  BY PagesTotal DEF HeapInv, TypeOK, PAGE_BYTES
<1> QED
  BY <1>3, <1>4, <1>6, <1>7, <1>8 DEF EveryByteAccounted

LEMMA LifeAccount ==
  ASSUME ControlInv, HeapInv, AccountInv, [LifeNext]_lifeVars
  PROVE  AccountInv'
<1>1. HeapInv'
  BY LifeStep
<1>2. CASE Reset
  BY <1>2, ResetAccount
<1>3. CASE Next /\ UNCHANGED abandoned
  BY <1>1, <1>3, StepAccount DEF Next
<1>4. CASE UNCHANGED lifeVars
  BY <1>4 DEF lifeVars, vars, AccountInv, Apart, Disjoint, Placed, Spanned, Mapped, IsOwned, Lost,
     InList, InBlock, InHands, BlockBytes, IS_LARGE
<1> QED
  BY <1>2, <1>3, <1>4 DEF LifeNext

--------------------------------------------------------------------------------
\* No byte is lost nor has two owners, for any number of threads, pages and
\* resets: the sizes of all free blocks, blocks in use, blocks in hand and blocks
\* that were free at a p2reset add up to the bytes mapped
\* (p2malloc.c:200-278, 315-328).
THEOREM EveryByteAccountedTheorem == LifeSpec => []EveryByteAccounted
<1>1. LifeInit => AccountInv
  <2> SUFFICES ASSUME LifeInit PROVE AccountInv
    OBVIOUS
  <2>1. abandoned = {} /\ mapped = {} /\ ControlInv /\ HeapInv
    BY ControlInit, HeapInit DEF LifeInit, Init
  <2> QED
    BY <2>1, OwnedIsMapped DEF AccountInv, Apart, Mapped, Lost
<1>2. ControlInv /\ HeapInv /\ AccountInv /\ [LifeNext]_lifeVars => AccountInv'
  BY LifeAccount
<1>3. HeapInv /\ AccountInv => EveryByteAccounted
  BY AccountTotal
<1> QED
  BY <1>1, <1>2, <1>3, ResetHeapTheorem, PTL DEF LifeSpec

--------------------------------------------------------------------------------
(***************************************************************************)
(* The counters.                                                           *)
(***************************************************************************)
\* Two numbers that wrap to the same differ by multiples of what size_t counts.
LEMMA WrapSame ==
  ASSUME NEW x \in Int, NEW y \in Int
  PROVE  Wrap(x) = Wrap(y) <=> \E k \in Int : x = y + k * (SIZE_MAX + 1)
<1> DEFINE m == SIZE_MAX + 1
<1>1. m \in Nat \ {0}
  BY PlatformAssumption DEF PlatformAssumption
<1>2. \A z \in Int : \E q \in Int : z = q * m + Wrap(z) /\ Wrap(z) \in 0 .. (m - 1)
  <2> SUFFICES ASSUME NEW z \in Int
               PROVE  \E q \in Int : z = q * m + (z % m) /\ (z % m) \in 0 .. (m - 1)
    BY DEF Wrap
  <2> HIDE DEF m
  <2>1. z \div m \in Int /\ z = (z \div m) * m + (z % m) /\ (z % m) \in 0 .. (m - 1)
    BY <1>1
  <2> QED
    BY <2>1
<1>3. PICK a \in Int : x = a * m + Wrap(x) /\ Wrap(x) \in 0 .. (m - 1)
  BY <1>2
<1>4. PICK b \in Int : y = b * m + Wrap(y) /\ Wrap(y) \in 0 .. (m - 1)
  BY <1>2
<1> HIDE DEF m
<1>5. ASSUME Wrap(x) = Wrap(y) PROVE \E k \in Int : x = y + k * m
  <2>1. a * m = b * m + (a - b) * m
    BY <1>1
  <2>2. a - b \in Int
    OBVIOUS
  <2>3. a * m \in Int /\ b * m \in Int /\ (a - b) * m \in Int
    BY <1>1
  <2>4. x = y + (a - b) * m
    BY <1>3, <1>4, <1>5, <2>1, <2>3
  <2> QED
    BY <2>2, <2>4
<1>6. ASSUME NEW k \in Int, x = y + k * m PROVE Wrap(x) = Wrap(y)
  <2> DEFINE d == b + k - a
  <2>1. d \in Int /\ (b + k - a) * m = b * m + k * m - a * m
    BY <1>1
  <2>2. d * m = Wrap(x) - Wrap(y)
    <3>1. a * m \in Int /\ b * m \in Int /\ k * m \in Int
      BY <1>1
    <3> QED
      BY <1>3, <1>4, <1>6, <2>1, <3>1
  <2> HIDE DEF d
  <2>3. Wrap(x) - Wrap(y) < m /\ Wrap(x) - Wrap(y) > 0 - m
    BY <1>1, <1>3, <1>4
  <2>4. d = 0
    <3>1. d >= 1 => d * m >= m
      BY <1>1, <2>1
    <3>2. d <= 0 - 1 => d * m <= 0 - m
      BY <1>1, <2>1
    <3> QED
      BY <1>1, <2>1, <2>2, <2>3, <3>1, <3>2
  <2> QED
    BY <1>1, <1>3, <1>4, <2>2, <2>4
<1> QED
  BY <1>5, <1>6 DEF m

\* A counter goes on being right when it and what it counts change by the same.
LEMMA WrapAdd ==
  ASSUME NEW n \in Int, NEW base \in Int, NEW w \in Int, NEW d \in Int, NEW e \in Int,
         Wrap(n + base) = Wrap(w)
  PROVE  Wrap(Wrap(n + d) + base + e) = Wrap(w + d + e)
<1> DEFINE m == SIZE_MAX + 1
<1>1. m \in Int
  BY PlatformAssumption DEF PlatformAssumption
<1>2. PICK k \in Int : n + base = w + k * m
  BY WrapSame
<1>3. Wrap(n + d) \in Int /\ Wrap(Wrap(n + d)) = Wrap(n + d)
  BY WrapType DEF SizeT
<1>4. PICK j \in Int : Wrap(n + d) = n + d + j * m
  BY <1>3, WrapSame
<1> HIDE DEF m
<1>5. k * m \in Int /\ j * m \in Int /\ (k + j) * m = k * m + j * m
  BY <1>1
<1>6. Wrap(n + d) + base + e = w + d + e + (k + j) * m
  <2> DEFINE p == k * m
             q == j * m
             r == Wrap(n + d)
  <2>1. p \in Int /\ q \in Int /\ r \in Int /\ n + base = w + p /\ r = n + d + q
    BY <1>2, <1>3, <1>4, <1>5
  <2> HIDE DEF p, q, r
  <2>2. r + base + e = w + d + e + (p + q)
    BY <2>1
  <2> QED
    BY <1>5, <2>2 DEF p, q, r
<1>7. Wrap(n + d) + base + e \in Int /\ w + d + e \in Int /\ k + j \in Int
  BY <1>3
<1> QED
  BY <1>6, <1>7, WrapSame DEF m

\* The sizes that clients asked for, and the blocks they are counted for.
Asked   == [b \in DOMAIN hdr |-> hdr[b].size]
Counted == DOMAIN hdr \ Resizing

\* Bytes that thread t holds and totmem does not count.
LooseAt(l, c) ==
  IF l \in {"add_allocated", "add_totmem", "free_unmap"} THEN c.alloc_size
  ELSE IF l = "carve" THEN PAGE_BYTES
  ELSE 0

Loose == [t \in Threads |-> LooseAt(pc[t], call[t])]

AllocatedInv ==
  Wrap(allocated + before.allocated) = Wrap(Total(Asked, Counted))

TotmemInv ==
  Wrap(totmem + before.totmem + Total(Loose, Threads)) = Wrap(4096 * Cardinality(mapped))

BeforeType == [allocated : Nat, totmem : Nat, pages : SUBSET HeapPages]

CountersInv ==
  /\ before \in BeforeType
  /\ AllocatedInv
  /\ TotmemInv

LEMMA AskedTypes ==
  ASSUME TypeOK
  PROVE  /\ IsFiniteSet(DOMAIN hdr)
         /\ \A S \in SUBSET DOMAIN hdr : IsFiniteSet(S) /\ Total(Asked, S) \in Nat
         /\ \A b \in DOMAIN hdr : Asked[b] = hdr[b].size /\ Asked[b] \in Nat
         /\ allocated \in Int /\ totmem \in Int /\ Counted \subseteq DOMAIN hdr
<1>1. IsFiniteSet(DOMAIN hdr)
  BY HeapFinite, FS_Subset, Zenon DEF TypeOK
<1>2. \A b \in DOMAIN hdr : Asked[b] = hdr[b].size /\ Asked[b] \in Nat
  BY DEF TypeOK, Asked, Headers, SizeT
<1>3. ASSUME NEW S \in SUBSET DOMAIN hdr
      PROVE  IsFiniteSet(S) /\ Total(Asked, S) \in Nat
  <2>1. IsFiniteSet(S)
    BY <1>1, FS_Subset, Zenon
  <2> QED
    BY <1>2, <2>1, CellsFinite
<1> QED
  BY <1>1, <1>2, <1>3 DEF TypeOK, SizeT, Counted

LEMMA BytesTotal ==
  ASSUME TypeOK, NEW S \in SUBSET DOMAIN hdr
  PROVE  Bytes(S) = Total(Asked, S)
<1> DEFINE Is(f) == f = [T \in SUBSET S |->
                          IF T = {} THEN 0 ELSE hdr[Pick(T)].size + f[T \ {Pick(T)}]]
<1>1. Bytes(S) = (CHOOSE f : Is(f))[S]
  BY Zenon DEF Bytes, MapThenSumSet, MapThenFoldSet, Pick
<1>2. \A f : Is(f) <=> Sums(Asked, S, f)
  <2>1. \A T \in SUBSET S : T # {} => Asked[Pick(T)] = hdr[Pick(T)].size
    BY DEF Pick, Asked
  <2> QED
    BY <2>1 DEF Sums
<1>3. (CHOOSE f : Is(f)) = (CHOOSE f : Sums(Asked, S, f))
  <2> HIDE DEF Is
  <2> QED
    BY <1>2, Zenon
<1> QED
  BY <1>1, <1>3, AskedTypes, SumIsTotal

LEMMA LooseTypes ==
  ASSUME TypeOK
  PROVE  /\ \A t \in Threads : Loose[t] = Uncounted(t) /\ Loose[t] \in Nat
         /\ \A t \in Threads : LooseAt(pc[t], call[t]) \in Nat
         /\ IsFiniteSet(Threads) => Total(Loose, Threads) \in Nat
<1>1. \A t \in Threads : call[t].alloc_size \in Nat
  BY DEF TypeOK, Calls, SizeT
<1>2. \A t \in Threads : Loose[t] = Uncounted(t) /\ Loose[t] = LooseAt(pc[t], call[t])
                         /\ Loose[t] \in Nat
  BY <1>1 DEF Loose, LooseAt, Uncounted, PAGE_BYTES
<1> QED
  BY <1>2, CellsFinite

LEMMA LooseTotal ==
  ASSUME TypeOK, IsFiniteSet(Threads)
  PROVE  MapThenSumSet(Uncounted, Threads) = Total(Loose, Threads)
<1> DEFINE Is(f) == f = [T \in SUBSET Threads |->
                          IF T = {} THEN 0 ELSE Uncounted(Pick(T)) + f[T \ {Pick(T)}]]
<1>1. MapThenSumSet(Uncounted, Threads) = (CHOOSE f : Is(f))[Threads]
  BY Zenon DEF MapThenSumSet, MapThenFoldSet, Pick
<1>2. \A f : Is(f) <=> Sums(Loose, Threads, f)
  <2>1. \A T \in SUBSET Threads : T # {} => Loose[Pick(T)] = Uncounted(Pick(T))
    BY LooseTypes DEF Pick
  <2> QED
    BY <2>1 DEF Sums
<1>3. (CHOOSE f : Is(f)) = (CHOOSE f : Sums(Loose, Threads, f))
  <2> HIDE DEF Is
  <2> QED
    BY <1>2, Zenon
<1> QED
  BY <1>1, <1>3, LooseTypes, SumIsTotal

LEMMA CountersTotal ==
  ASSUME TypeOK, IsFiniteSet(Threads), CountersInv
  PROVE  CountersSinceReset
<1>1. Bytes(DOMAIN hdr \ Resizing) = Total(Asked, Counted)
  BY BytesTotal DEF Counted
<1> QED
  BY <1>1, LooseTotal DEF CountersInv, AllocatedInv, TotmemInv, CountersSinceReset, PAGE_BYTES

--------------------------------------------------------------------------------
\* What a step adds to allocated it adds to the sizes of the counted blocks.
AllocatedStep ==
  \E d \in Int :
    /\ allocated' = Wrap(allocated + d)
    /\ Total(Asked', Counted') = Total(Asked, Counted) + d

\* And to totmem, with what goes into and out of threads' hands.
TotmemStep ==
  \E d, e \in Int :
    /\ totmem' = Wrap(totmem + d)
    /\ Total(Loose', Threads) = Total(Loose, Threads) + e
    /\ 4096 * Cardinality(mapped') = 4096 * Cardinality(mapped) + d + e

\* WrapAdd, as a fact about these five.
AddRule(n, base, w, d, e) ==
  Wrap(n + base) = Wrap(w) => Wrap(Wrap(n + d) + base + e) = Wrap(w + d + e)

WrapAddFor == \A n, base, w, d, e \in Int : AddRule(n, base, w, d, e)

LEMMA CountersStep ==
  ASSUME TypeOK, IsFiniteSet(Threads), CountersInv, AllocatedStep, TotmemStep,
         before' \in BeforeType,
         before'.allocated = before.allocated, before'.totmem = before.totmem
  PROVE  CountersInv'
<1> USE DEF BeforeType
<1>0. WrapAddFor
  BY WrapAdd DEF WrapAddFor, AddRule
<1>1. AllocatedInv'
  <2> DEFINE base  == before.allocated
             total == Total(Asked, Counted)
  <2>1. PICK d \in Int : /\ allocated' = Wrap(allocated + d)
                         /\ Total(Asked', Counted') = total + d
    BY DEF AllocatedStep
  <2>2. allocated \in Int /\ total \in Int /\ base \in Int
    BY AskedTypes DEF CountersInv
  <2>3. Wrap(allocated + base) = Wrap(total)
    BY DEF CountersInv, AllocatedInv
  <2>4. before'.allocated = base
    OBVIOUS
  <2> HIDE DEF base, total
  <2>5. 0 \in Int /\ Wrap(allocated + d) \in Int
    BY <2>2, WrapType DEF SizeT
  <2>6. Wrap(Wrap(allocated + d) + base + 0) = Wrap(total + d + 0)
    <3>1. AddRule(allocated, base, total, d, 0)
      BY <1>0, <2>1, <2>2, <2>5, Zenon DEF WrapAddFor
    <3> QED
      BY <2>3, <3>1, Zenon DEF AddRule
  <2>7. /\ Wrap(allocated + d) + base + 0 = Wrap(allocated + d) + base
        /\ total + d + 0 = total + d
    BY <2>2, <2>5
  <2>8. Wrap(allocated' + before'.allocated) = Wrap(Total(Asked', Counted'))
    BY <2>1, <2>4, <2>6, <2>7, Zenon
  <2> QED
    BY <2>8 DEF AllocatedInv
<1>2. TotmemInv'
  <2> DEFINE base  == before.totmem
             total == Total(Loose, Threads)
             bytes == 4096 * Cardinality(mapped)
  <2>1. PICK d, e \in Int : /\ totmem' = Wrap(totmem + d)
                            /\ Total(Loose', Threads) = total + e
                            /\ 4096 * Cardinality(mapped') = bytes + d + e
    BY DEF TotmemStep
  <2>2. totmem \in Int /\ total \in Int /\ base \in Int
    BY AskedTypes, LooseTypes DEF CountersInv
  <2>3. bytes \in Int
    BY PagesTotal DEF TypeOK
  <2>4. Wrap(totmem + base + total) = Wrap(bytes)
    BY DEF CountersInv, TotmemInv
  <2>5. before'.totmem = base
    OBVIOUS
  <2> HIDE DEF base, total, bytes
  <2> DEFINE both == base + total
  <2>6. totmem + base + total = totmem + both /\ both \in Int
    BY <2>2
  <2>7. \A r \in Int : r + both + e = r + base + (total + e)
    BY <2>1, <2>2
  <2> HIDE DEF both
  <2>8. Wrap(Wrap(totmem + d) + both + e) = Wrap(bytes + d + e)
    <3>1. AddRule(totmem, both, bytes, d, e)
      <4>1. \A x, y \in Int : AddRule(totmem, both, bytes, x, y)
        BY <1>0, <2>2, <2>3, <2>6, Zenon DEF WrapAddFor
      <4> QED
        BY <2>1, <4>1
    <3>2. Wrap(totmem + both) = Wrap(bytes)
      BY <2>4, <2>6, Zenon
    <3> QED
      BY <3>1, <3>2, Zenon DEF AddRule
  <2>9. Wrap(totmem + d) \in Int
    BY <2>2, WrapType DEF SizeT
  <2>10. Wrap(totmem + d) + both + e = Wrap(totmem + d) + base + (total + e)
    BY <2>7, <2>9
  <2>11. Wrap(totmem' + before'.totmem + Total(Loose', Threads))
           = Wrap(4096 * Cardinality(mapped'))
    BY <2>1, <2>5, <2>8, <2>10
  <2> QED
    BY <2>11 DEF TotmemInv
<1> QED
  BY <1>1, <1>2 DEF CountersInv

--------------------------------------------------------------------------------
(***************************************************************************)
(* What a step does to the counters.                                       *)
(***************************************************************************)
LEMMA LooseStep ==
  ASSUME TypeOK, IsFiniteSet(Threads), NEW t \in Threads, NEW l, NEW c, StepTo(t, l, c),
         LooseAt(l, c) \in Nat
  PROVE  Total(Loose', Threads)
           = Total(Loose, Threads) + (LooseAt(l, c) - LooseAt(pc[t], call[t]))
<1>1. /\ pc'[t] = l /\ call'[t] = c
      /\ \A u \in Threads \ {t} : pc'[u] = pc[u] /\ call'[u] = call[u]
  BY AfterStep
<1>2. Loose' = [u \in Threads |-> LooseAt(pc'[u], call'[u])]
  BY DEF Loose, LooseAt
<1>3. /\ Loose'[t] = LooseAt(l, c) /\ Loose[t] = LooseAt(pc[t], call[t])
      /\ \A u \in Threads \ {t} : Loose'[u] = Loose[u]
  BY <1>1, <1>2 DEF Loose
<1>4. \A u \in Threads : Loose[u] \in Nat
  BY LooseTypes
<1>5. \A u \in Threads : Loose'[u] \in Nat
  BY <1>3, <1>4
<1>6. Total(Loose, Threads) = Loose[t] + Total(Loose, Threads \ {t})
  BY <1>4, TotalRemove
<1> DEFINE after == Loose'
<1>7. Total(after, Threads) = after[t] + Total(after, Threads \ {t})
  <2> HIDE DEF after
  <2>1. \A u \in Threads : after[u] \in Nat
    BY <1>5 DEF after
  <2> QED
    BY <2>1, TotalRemove
<1>8. Total(after, Threads \ {t}) = Total(Loose, Threads \ {t})
  BY <1>3, TotalSame
<1>9. Total(Loose, Threads \ {t}) \in Nat
  <2>1. IsFiniteSet(Threads \ {t})
    BY FS_RemoveElement, Zenon
  <2> QED
    BY <1>4, <2>1, CellsFinite
<1> QED
  BY <1>3, <1>4, <1>5, <1>6, <1>7, <1>8, <1>9

\* A step that counts d bytes more in totmem.
LEMMA TotmemBy ==
  ASSUME TypeOK, IsFiniteSet(Threads), NEW t \in Threads, NEW l, NEW c, StepTo(t, l, c),
         LooseAt(l, c) \in Nat, NEW d \in Int, totmem' = Wrap(totmem + d),
         4096 * Cardinality(mapped')
           = 4096 * Cardinality(mapped) + d + (LooseAt(l, c) - LooseAt(pc[t], call[t]))
  PROVE  TotmemStep
<1>1. LooseAt(pc[t], call[t]) \in Nat
  BY LooseTypes
<1>2. LooseAt(l, c) - LooseAt(pc[t], call[t]) \in Int
  BY <1>1
<1> QED
  BY <1>2, LooseStep DEF TotmemStep

\* A step that maps or unmaps nothing and has as much in hand as before.
LEMMA TotmemQuiet ==
  ASSUME TypeOK, IsFiniteSet(Threads), NEW t \in Threads, NEW l, NEW c, StepTo(t, l, c),
         LooseAt(l, c) = LooseAt(pc[t], call[t]), UNCHANGED <<totmem, mapped>>
  PROVE  TotmemStep
<1>1. LooseAt(pc[t], call[t]) \in Nat
  BY LooseTypes
<1>2. totmem \in SizeT
  BY DEF TypeOK
<1>3. totmem' = Wrap(totmem + 0)
  BY <1>2, WrapType DEF SizeT
<1> DEFINE n == Cardinality(mapped)
<1>4. n \in Nat
  BY PagesTotal DEF TypeOK
<1>5. Cardinality(mapped') = n
  OBVIOUS
<1> HIDE DEF n
<1>6. 4096 * n = 4096 * n + 0 + (LooseAt(l, c) - LooseAt(pc[t], call[t]))
  BY <1>1, <1>4
<1> QED
  BY <1>1, <1>3, <1>5, <1>6, TotmemBy DEF n

LEMMA NotLoose ==
  ASSUME NEW l, l \notin {"add_allocated", "add_totmem", "free_unmap", "carve"}, NEW c
  PROVE  LooseAt(l, c) = 0
  BY DEF LooseAt

--------------------------------------------------------------------------------
ResizingOthers(t) ==
  {HdrOf(call[u].ptr) : u \in {v \in Threads \ {t} : pc[v] = "realloc_add"}}

LEMMA ResizingStep ==
  ASSUME TypeOK, NEW t \in Threads, NEW l, NEW c, StepTo(t, l, c)
  PROVE  /\ Resizing = ResizingOthers(t)
                        \cup IF pc[t] = "realloc_add" THEN {HdrOf(call[t].ptr)} ELSE {}
         /\ Resizing' = ResizingOthers(t) \cup IF l = "realloc_add" THEN {HdrOf(c.ptr)} ELSE {}
<1>1. /\ pc'[t] = l /\ call'[t] = c
      /\ \A u \in Threads \ {t} : pc'[u] = pc[u] /\ call'[u] = call[u]
  BY AfterStep
<1>2. Resizing' = {HdrOf(call'[u].ptr) : u \in {v \in Threads : pc'[v] = "realloc_add"}}
  BY DEF Resizing, HdrOf
<1> QED
  BY <1>1, <1>2 DEF Resizing, ResizingOthers

\* Nobody else answers for a block that is being resized.
LEMMA ResizedBlocks ==
  ASSUME HeapInv, NEW t \in Threads
  PROVE  /\ ResizingOthers(t) \subseteq DOMAIN hdr
         /\ ResizingOthers(t) \cap CallBlocks(t) = {}
         /\ pc[t] \in {"realloc_sub", "realloc_add"} => HdrOf(call[t].ptr) \in CallBlocks(t)
<1>1. ASSUME NEW u \in Threads, pc[u] \in {"realloc_sub", "realloc_add"}
      PROVE  HdrOf(call[u].ptr) \in CallBlocks(u)
  <2>1. call[u].ptr # NULL /\ call[u].ret = call[u].ptr
    BY <1>1 DEF HeapInv, LocalsInv, LocalsAt
  <2> QED
    BY <2>1 DEF CallBlocks, NewBlock
<1>2. /\ \A u \in Threads : CallBlocks(u) \subseteq DOMAIN hdr
      /\ \A u \in Threads : t # u => CallBlocks(t) \cap CallBlocks(u) = {}
  BY DEF HeapInv, OwnersInv
<1> QED
  BY <1>1, <1>2 DEF ResizingOthers

\* One more block is counted, or one less.
LEMMA CountMore ==
  ASSUME TypeOK, NEW b, b \notin Counted, Counted' = Counted \cup {b},
         \A x \in Counted : Asked'[x] = Asked[x],
         Asked'[b] \in Nat, allocated' = Wrap(allocated + Asked'[b])
  PROVE  AllocatedStep
<1> DEFINE after == Asked'
<1>1. IsFiniteSet(Counted) /\ \A x \in Counted : Asked[x] \in Nat
  BY AskedTypes
<1>2. Total(after, Counted \cup {b}) = Total(after, Counted) + after[b]
  <2>1. \A x \in Counted \cup {b} : after[x] \in Nat
    BY <1>1
  <2> HIDE DEF after
  <2> QED
    BY <1>1, <2>1, TotalAdd, Zenon
<1>3. Total(after, Counted) = Total(Asked, Counted)
  BY TotalSame
<1>4. Total(Asked', Counted') = Total(Asked, Counted) + Asked'[b]
  BY <1>2, <1>3
<1> QED
  BY <1>4 DEF AllocatedStep

LEMMA CountLess ==
  ASSUME TypeOK, NEW b \in Counted, Counted' = Counted \ {b},
         \A x \in Counted \ {b} : Asked'[x] = Asked[x],
         allocated' = Wrap(allocated - Asked[b])
  PROVE  AllocatedStep
<1>1. IsFiniteSet(Counted) /\ \A x \in Counted : Asked[x] \in Nat
  BY AskedTypes
<1>2. Total(Asked, Counted) = Asked[b] + Total(Asked, Counted \ {b})
  BY <1>1, TotalRemove, Zenon
<1>3. Total(Asked', Counted \ {b}) = Total(Asked, Counted \ {b})
  BY TotalSame
<1>4. IsFiniteSet(Counted \ {b})
  BY <1>1, FS_RemoveElement, Zenon
<1>5. Total(Asked, Counted \ {b}) \in Nat
  BY <1>1, <1>4, CellsFinite
<1>6. 0 - Asked[b] \in Int /\ allocated \in Int
  BY <1>1, AskedTypes
<1>7. /\ Total(Asked', Counted') = Total(Asked, Counted) + (0 - Asked[b])
      /\ allocated - Asked[b] = allocated + (0 - Asked[b])
  BY <1>1, <1>2, <1>3, <1>5, <1>6
<1> QED
  BY <1>6, <1>7 DEF AllocatedStep

\* A step that leaves the headers and its part of Resizing alone.
LEMMA CountQuiet ==
  ASSUME TypeOK, NEW t \in Threads, NEW l, NEW c, StepTo(t, l, c),
         pc[t] # "realloc_add", l # "realloc_add", UNCHANGED <<hdr, allocated>>
  PROVE  AllocatedStep
<1>1. Resizing' = Resizing
  BY ResizingStep
<1>2. Asked' = Asked /\ Counted' = Counted
  BY <1>1 DEF Asked, Counted
<1>3. allocated \in SizeT
  BY DEF TypeOK
<1>4. allocated' = Wrap(allocated + 0)
  BY <1>3, WrapType DEF SizeT
<1>5. Total(Asked, Counted) \in Nat
  BY AskedTypes
<1>6. Total(Asked', Counted') = Total(Asked, Counted) + 0
  BY <1>2, <1>5
<1> QED
  BY <1>4, <1>6 DEF AllocatedStep

--------------------------------------------------------------------------------
\* Steps between labels that are not Busy change neither counter.
LEMMA AsideCounters ==
  ASSUME TypeOK, IsFiniteSet(Threads), NEW t \in Threads, NEW l, NEW c, StepTo(t, l, c),
         pc[t] \notin Busy, l \notin Busy, UNCHANGED <<hdr, mapped, allocated, totmem>>
  PROVE  AllocatedStep /\ TotmemStep
<1>1. LooseAt(l, c) = 0 /\ LooseAt(pc[t], call[t]) = 0
  BY NotLoose DEF Busy, Holding
<1>2. pc[t] # "realloc_add" /\ l # "realloc_add"
  BY DEF Busy
<1> QED
  BY <1>1, <1>2, CountQuiet, TotmemQuiet

LEMMA CallCounters ==
  ASSUME TypeOK, IsFiniteSet(Threads), NEW t \in Threads, Call(t)
  PROVE  AllocatedStep /\ TotmemStep
  BY CallMoves, AsideCounters DEF Busy, Holding

\* The other steps that leave allocated as it is.
Uncounting(t) ==
  \/ freelists_init(t) \/ LargeAlloc(t) \/ LargeAddTotmem(t) \/ ClaimPage(t)
  \/ CarvePage(t) \/ TakeFirst(t) \/ SubTotmem(t) \/ Unmap(t) \/ FreeLock(t)
  \/ FreeInsert(t)

LEMMA UncountingAllocated ==
  ASSUME TypeOK, NEW t \in Threads, Uncounting(t)
  PROVE  AllocatedStep
<1>1. UNCHANGED <<hdr, allocated>> /\ pc[t] # "realloc_add"
  BY DEF Uncounting, freelists_init, LargeAlloc, LargeAddTotmem, ClaimPage, CarvePage, TakeFirst,
         SubTotmem, Unmap, FreeLock, FreeInsert, Acquire, Move
<1>2. \E l : l # "realloc_add" /\ \E c : StepTo(t, l, c)
  <2>1. CASE LargeAddTotmem(t)
    BY <2>1, ResumeStep DEF LargeAddTotmem
  <2>2. CASE LargeAlloc(t)
    BY <2>2 DEF LargeAlloc, Move, Goto, StepTo
  <2>3. CASE ClaimPage(t) \/ TakeFirst(t)
    BY <2>3 DEF ClaimPage, TakeFirst, Move, Goto, StepTo
  <2>4. CASE \/ freelists_init(t) \/ CarvePage(t) \/ SubTotmem(t) \/ Unmap(t)
             \/ FreeLock(t) \/ FreeInsert(t)
    BY <2>4, SameCall
       DEF freelists_init, CarvePage, SubTotmem, Unmap, FreeLock, FreeInsert, Acquire, Move
  <2> QED
    BY <2>1, <2>2, <2>3, <2>4 DEF Uncounting
<1> QED
  BY <1>1, <1>2, CountQuiet

\* A block gets its header and is counted.
LEMMA HeaderCounted ==
  ASSUME HeapInv, NEW t \in Threads, NEW l, NEW c, StepTo(t, l, c), l # "realloc_add",
         InHand(t) # 0, NEW h, h.size = call[t].size,
         hdr' = WithHeader(call[t].blk, h), allocated' = Wrap(allocated + call[t].size)
  PROVE  AllocatedStep
<1> DEFINE b == call[t].blk
<1>1. b \notin DOMAIN hdr
  BY InHandAlone DEF HeapInv
<1> HIDE DEF b
<1>2. pc[t] # "realloc_add"
  BY DEF InHand
<1>3. Resizing' = Resizing /\ Resizing \subseteq DOMAIN hdr
  BY <1>2, ResizingStep, ResizedBlocks DEF HeapInv
<1>4. /\ DOMAIN hdr' = DOMAIN hdr \cup {b} /\ hdr'[b] = h
      /\ \A a \in DOMAIN hdr : hdr'[a] = hdr[a]
  <2>1. hdr' = WithHeader(b, h)
    BY DEF b
  <2> QED
    BY <1>1, <2>1 DEF WithHeader
<1>5. b \notin Counted /\ Counted' = Counted \cup {b}
  BY <1>1, <1>3, <1>4 DEF Counted
<1>6. Asked' = [a \in DOMAIN hdr' |-> hdr'[a].size]
  BY DEF Asked
<1>7. Asked'[b] = call[t].size /\ \A a \in Counted : Asked'[a] = Asked[a]
  BY <1>4, <1>6 DEF Asked, Counted
<1>8. call[t].size \in Nat
  BY DEF HeapInv, TypeOK, Calls, SizeT
<1> QED
  BY <1>5, <1>7, <1>8, CountMore DEF HeapInv

\* A freed block loses its header and is counted no longer.
LEMMA HeaderUncounted ==
  ASSUME HeapInv, NEW t \in Threads, NEW l, NEW c, StepTo(t, l, c), l # "realloc_add",
         pc[t] = "free", hdr' = WithoutHeader(call[t].blk),
         allocated' = Wrap(allocated - hdr[call[t].blk].size)
  PROVE  AllocatedStep
<1> DEFINE b == call[t].blk
<1>1. b \in DOMAIN hdr /\ b \in CallBlocks(t)
  BY FreedHasHeader DEF CallBlocks, GivenBlock
<1>2. Resizing' = Resizing /\ b \notin Resizing
  BY <1>1, ResizingStep, ResizedBlocks DEF HeapInv
<1>3. DOMAIN hdr' = DOMAIN hdr \ {b} /\ \A a \in DOMAIN hdr \ {b} : hdr'[a] = hdr[a]
  BY DEF WithoutHeader
<1>4. b \in Counted /\ Counted' = Counted \ {b}
  BY <1>1, <1>2, <1>3 DEF Counted
<1>5. Asked' = [a \in DOMAIN hdr' |-> hdr'[a].size]
  BY DEF Asked
<1>6. Asked[b] = hdr[b].size /\ \A a \in Counted \ {b} : Asked'[a] = Asked[a]
  BY <1>1, <1>3, <1>5 DEF Asked, Counted
<1> QED
  BY <1>4, <1>6, CountLess DEF HeapInv

LEMMA ResizeSubAllocated ==
  ASSUME HeapInv, NEW t \in Threads, ResizeSub(t)
  PROVE  AllocatedStep
<1> DEFINE b == HdrOf(call[t].ptr)
<1>1. /\ pc[t] = "realloc_sub" /\ StepTo(t, "realloc_add", call[t])
      /\ hdr' = hdr /\ allocated' = Wrap(allocated - hdr[b].size)
  BY SameCall DEF ResizeSub, Move, HeapInv
<1>2. b \in CallBlocks(t) /\ b \in DOMAIN hdr
  BY <1>1, ResizedBlocks DEF HeapInv, OwnersInv
<1>3. b \notin Resizing /\ Resizing' = Resizing \cup {b}
  BY <1>1, <1>2, ResizingStep, ResizedBlocks DEF HeapInv
<1>4. b \in Counted /\ Counted' = Counted \ {b} /\ Asked' = Asked /\ Asked[b] = hdr[b].size
  BY <1>1, <1>2, <1>3 DEF Counted, Asked
<1> QED
  BY <1>1, <1>4, CountLess DEF HeapInv

LEMMA ResizeAddAllocated ==
  ASSUME HeapInv, NEW t \in Threads, ResizeAdd(t)
  PROVE  AllocatedStep
<1> DEFINE b == HdrOf(call[t].ptr)
           n == call[t].size
<1>1. /\ pc[t] = "realloc_add" /\ StepTo(t, "done", call[t])
      /\ hdr' = [hdr EXCEPT ![b].size = n] /\ allocated' = Wrap(allocated + n)
  BY SameCall DEF ResizeAdd, Move, HeapInv
<1>2. b \in CallBlocks(t) /\ b \in DOMAIN hdr
  BY <1>1, ResizedBlocks DEF HeapInv, OwnersInv
<1>3. b \in Resizing /\ Resizing' = Resizing \ {b}
  BY <1>1, <1>2, ResizingStep, ResizedBlocks DEF HeapInv
<1>4. hdr[b] \in Headers /\ n \in Nat
  BY <1>2 DEF HeapInv, TypeOK, Calls, SizeT
<1>5. /\ DOMAIN hdr' = DOMAIN hdr /\ hdr'[b].size = n
      /\ \A a \in DOMAIN hdr \ {b} : hdr'[a] = hdr[a]
  BY <1>1, <1>2, <1>4 DEF Headers
<1>6. b \notin Counted /\ Counted' = Counted \cup {b}
  BY <1>2, <1>3, <1>5 DEF Counted
<1>7. Asked' = [a \in DOMAIN hdr' |-> hdr'[a].size]
  BY DEF Asked
<1>8. Asked'[b] = n /\ \A a \in Counted : Asked'[a] = Asked[a]
  BY <1>2, <1>5, <1>6, <1>7 DEF Asked, Counted
<1> QED
  BY <1>1, <1>4, <1>6, <1>8, CountMore DEF HeapInv

LEMMA StepAllocated ==
  ASSUME HeapInv, IsFiniteSet(Threads), NEW t \in Threads, Call(t) \/ Step(t)
  PROVE  AllocatedStep
<1>1. CASE Call(t)
  BY <1>1, CallCounters DEF HeapInv
<1>2. CASE Aside(t)
  BY <1>2, AsideMoves, AsideCounters DEF HeapInv
<1>3. CASE Uncounting(t)
  BY <1>3, UncountingAllocated DEF HeapInv
<1>4. CASE Spin(t)
  <2>1. Asked' = Asked /\ Counted' = Counted /\ allocated' = allocated
    BY <1>4 DEF Spin, vars, Asked, Counted, Resizing
  <2>2. allocated \in SizeT /\ Total(Asked, Counted) \in Nat
    BY AskedTypes DEF HeapInv, TypeOK
  <2>3. allocated' = Wrap(allocated + 0) /\ Total(Asked, Counted) = Total(Asked, Counted) + 0
    BY <2>1, <2>2, WrapType DEF SizeT
  <2> QED
    BY <2>1, <2>3 DEF AllocatedStep
<1>5. CASE LargeAddAllocated(t)
  <2>1. pc[t] = "add_allocated" /\ StepTo(t, "add_totmem", call[t])
    BY <1>5, SameCall DEF LargeAddAllocated, Move, HeapInv
  <2>2. InHand(t) # 0
    BY <2>1 DEF HeapInv, LocalsInv, LocalsAt, WholePages, InHand
  <2> QED
    BY <1>5, <2>1, <2>2, HeaderCounted DEF LargeAddAllocated
<1>6. CASE WriteHeader(t)
  <2>1. PICK l \in {"zero_payload", "copy_payload", "done"} :
          StepTo(t, l, [call[t] EXCEPT !.ret = PtrOf(call[t].blk)])
    BY <1>6, ResumeStep DEF WriteHeader
  <2>2. pc[t] = "write_header"
    BY <1>6 DEF WriteHeader
  <2>3. call[t].idx \in Freelists
    BY <2>2 DEF HeapInv, LocalsInv, LocalsAt, SlabWay
  <2>4. InHand(t) # 0
    BY <2>2, <2>3, BlockSizes, FreelistNumbers DEF InHand
  <2> QED
    BY <1>6, <2>1, <2>4, HeaderCounted DEF WriteHeader
<1>7. CASE FreeLarge(t) \/ FreeSlab(t)
  <2>1. pc[t] = "free" /\ \E l : l # "realloc_add" /\ \E c : StepTo(t, l, c)
    BY <1>7 DEF FreeLarge, FreeSlab, Move, Goto, StepTo
  <2> QED
    BY <1>7, <2>1, HeaderUncounted DEF FreeLarge, FreeSlab
<1>8. CASE ResizeSub(t) \/ ResizeAdd(t)
  BY <1>8, ResizeSubAllocated, ResizeAddAllocated
<1> QED
  BY <1>1, <1>2, <1>3, <1>4, <1>5, <1>6, <1>7, <1>8 DEF Step, Aside, Uncounting

--------------------------------------------------------------------------------
\* The pages of an OS allocation have its bytes.
LEMMA PagesCount ==
  ASSUME NEW page \in HeapPages, NEW n \in Nat, WholePages(page, n), page + n <= HeapEnd
  PROVE  /\ PagesOf(page, n) \subseteq HeapPages
         /\ IsFiniteSet(PagesOf(page, n)) /\ Cardinality(PagesOf(page, n)) \in Nat
         /\ 4096 * Cardinality(PagesOf(page, n)) = n
<1>1. PagesOf(page, n) \subseteq HeapPages
  BY DEF PagesOf
<1>2. page \in Nat /\ n > 0
  BY HeapNumbers DEF WholePages
<1>3. BytesOf(PagesOf(page, n)) = page .. (page + n - 1)
  <2>1. \A x \in Nat : x \in BytesOf(PagesOf(page, n)) <=> ByteIn(x, page, n)
    BY PageBytes DEF BytesOf
  <2>2. \A x : x \in page .. (page + n - 1) <=> x \in Nat /\ ByteIn(x, page, n)
    BY <1>2 DEF ByteIn
  <2>3. BytesOf(PagesOf(page, n)) \subseteq Nat
    BY DEF BytesOf
  <2> QED
    BY <2>1, <2>2, <2>3
<1>4. PICK last \in Nat : last = page + n - 1
  BY <1>2
<1>5. Cardinality(page .. last) = last - page + 1
  BY <1>2, <1>4, FS_Interval
<1>6. Cardinality(page .. (page + n - 1)) = n
  BY <1>2, <1>4, <1>5
<1> QED
  BY <1>1, <1>3, <1>6, PagesTotal

LEMMA PagesAdded ==
  ASSUME NEW S, NEW P, S \subseteq HeapPages, P \subseteq HeapPages, S \cap P = {}
  PROVE  4096 * Cardinality(S \cup P) = 4096 * Cardinality(S) + 4096 * Cardinality(P)
<1>1. /\ IsFiniteSet(S) /\ Cardinality(S) \in Nat
      /\ IsFiniteSet(P) /\ Cardinality(P) \in Nat
  BY PagesTotal
<1>2. Cardinality(S \cup P) = Cardinality(S) + Cardinality(P) - Cardinality(S \cap P)
  BY <1>1, FS_Union, Zenon
<1>3. Cardinality(S \cap P) = 0
  BY FS_EmptySet
<1> QED
  BY <1>1, <1>2, <1>3

\* The OS maps pages for a thread.
LEMMA TotmemFromOS ==
  ASSUME HeapInv, IsFiniteSet(Threads), NEW t \in Threads, NEW l, NEW c, StepTo(t, l, c),
         LooseAt(pc[t], call[t]) = 0, NEW n \in Nat, LooseAt(l, c) = n, n % PAGE_BYTES = 0,
         NEW page \in Room(n), mapped' = mapped \cup PagesOf(page, n), totmem' = totmem
  PROVE  TotmemStep
<1>1. page \in HeapPages /\ n > 0 /\ page + n <= HeapEnd /\ PagesOf(page, n) \cap mapped = {}
  BY DEF Room
<1>2. WholePages(page, n)
  BY <1>1, HeapNumbers DEF WholePages
<1>3. PagesOf(page, n) \subseteq HeapPages /\ 4096 * Cardinality(PagesOf(page, n)) = n
  BY <1>1, <1>2, PagesCount
<1>4. mapped \subseteq HeapPages /\ totmem \in SizeT
  BY DEF HeapInv, TypeOK
<1>5. 4096 * Cardinality(mapped') = 4096 * Cardinality(mapped) + n
  <2>1. 4096 * Cardinality(mapped \cup PagesOf(page, n))
          = 4096 * Cardinality(mapped) + 4096 * Cardinality(PagesOf(page, n))
    BY <1>1, <1>3, <1>4, PagesAdded
  <2> QED
    BY <1>3, <2>1
<1>6. PICK d \in Int : d = 0
  OBVIOUS
<1>7. totmem' = Wrap(totmem + d)
  BY <1>4, <1>6, WrapType DEF SizeT
<1>8. Cardinality(mapped) \in Nat
  BY <1>4, PagesTotal
<1>9. 4096 * Cardinality(mapped') = 4096 * Cardinality(mapped) + d + n
  BY <1>5, <1>6, <1>8
<1>10. Total(Loose', Threads) = Total(Loose, Threads) + n
  <2>1. TypeOK /\ LooseAt(l, c) \in Nat
    BY DEF HeapInv
  <2>2. Total(Loose', Threads)
          = Total(Loose, Threads) + (LooseAt(l, c) - LooseAt(pc[t], call[t]))
    BY <2>1, LooseStep, Zenon
  <2>3. n - 0 = n
    OBVIOUS
  <2> QED
    BY <2>2, <2>3, Zenon
<1>11. d \in Int /\ n \in Int
  BY <1>6
<1> USE DEF TotmemStep
<1> WITNESS d \in Int, n \in Int
<1> QED
  BY <1>7, <1>9, <1>10

LEMMA LargeAllocTotmem ==
  ASSUME HeapInv, IsFiniteSet(Threads), NEW t \in Threads, LargeAlloc(t)
  PROVE  TotmemStep
<1> DEFINE n == page_align(Wrap(P2_HEADER_SIZE + call[t].size))
<1>1. PICK page \in Room(n) :
        /\ mapped' = mapped \cup PagesOf(page, n)
        /\ call' = [call EXCEPT ![t].blk = page, ![t].alloc_size = n]
  BY DEF LargeAlloc
<1>2. call[t] \in Calls /\ pc[t] = "os_alloc" /\ Goto(t, "add_allocated") /\ totmem' = totmem
  BY DEF LargeAlloc, Move, HeapInv, TypeOK
<1>3. n \in Nat /\ n % PAGE_BYTES = 0
  BY <1>2, LargeBytes DEF Calls
<1> HIDE DEF n
<1> DEFINE d == [call[t] EXCEPT !.blk = page, !.alloc_size = n]
<1>4. StepTo(t, "add_allocated", d)
  BY <1>1, <1>2 DEF StepTo, Goto, HeapInv, TypeOK
<1>5. LooseAt("add_allocated", d) = n /\ LooseAt(pc[t], call[t]) = 0
  BY <1>2 DEF Calls, LooseAt
<1> HIDE DEF d
<1> QED
  BY <1>1, <1>2, <1>3, <1>4, <1>5, TotmemFromOS

LEMMA ClaimPageTotmem ==
  ASSUME HeapInv, IsFiniteSet(Threads), NEW t \in Threads, ClaimPage(t)
  PROVE  TotmemStep
<1>1. PICK page \in Room(PAGE_BYTES) :
        /\ mapped' = mapped \cup {page}
        /\ call' = [call EXCEPT ![t].blk = page]
  BY DEF ClaimPage
<1>2. pc[t] = "check" /\ Goto(t, "carve") /\ totmem' = totmem
  BY DEF ClaimPage, Move
<1> DEFINE d == [call[t] EXCEPT !.blk = page]
<1>3. StepTo(t, "carve", d)
  BY <1>1, <1>2 DEF StepTo, Goto
<1> HIDE DEF d
<1>4. LooseAt("carve", d) = PAGE_BYTES /\ LooseAt(pc[t], call[t]) = 0
  BY <1>2 DEF LooseAt
<1>5. PAGE_BYTES \in Nat /\ PAGE_BYTES % PAGE_BYTES = 0
  BY DEF PAGE_BYTES
<1>6. PagesOf(page, PAGE_BYTES) = {page}
  <2>1. page \in HeapPages
    BY DEF Room
  <2> QED
    BY <2>1, HeapNumbers DEF PagesOf
<1>7. mapped' = mapped \cup PagesOf(page, PAGE_BYTES)
  BY <1>1, <1>6
<1> QED
  <2> DEFINE n == PAGE_BYTES
  <2>1. page \in Room(n) /\ n \in Nat /\ n % PAGE_BYTES = 0
    BY <1>5
  <2> HIDE DEF n
  <2>2. LooseAt("carve", d) = n /\ mapped' = mapped \cup PagesOf(page, n)
    BY <1>4, <1>7 DEF n
  <2> QED
    BY <1>2, <1>3, <1>4, <2>1, <2>2, TotmemFromOS

\* Pages in hand that totmem no longer counts go back to the OS.
LEMMA UnmapTotmem ==
  ASSUME HeapInv, IsFiniteSet(Threads), NEW t \in Threads, Unmap(t)
  PROVE  TotmemStep
<1> DEFINE c == call[t]
           n == c.alloc_size
           pages == PagesOf(c.blk, n)
<1>1. /\ pc[t] = "free_unmap" /\ StepTo(t, "done", c)
      /\ mapped' = mapped \ pages /\ totmem' = totmem
  BY SameCall DEF Unmap, Move, HeapInv
<1>2. LocalsAt("free_unmap", c, freelists, hdr)
  BY <1>1 DEF HeapInv, LocalsInv
<1>3. c.blk \in HeapPages /\ WholePages(c.blk, n) /\ n # 0
  BY <1>2 DEF LocalsAt, WholePages
<1>4. Chunk("thread", t, c.blk, n) \in Chunks
  BY <1>1, <1>3 DEF Chunks, HandChunks, InHand
<1>5. /\ c.blk + n <= HeapEnd /\ n \in Nat
      /\ Spanned(Chunk("thread", t, c.blk, n)) \subseteq mapped
  BY <1>4 DEF HeapInv, ChunksInv, Placed, Chunk
<1>6. pages \subseteq mapped
  <2>1. pages \subseteq Spanned(Chunk("thread", t, c.blk, n))
    BY <1>3, HeapNumbers DEF PagesOf, Spanned, Chunk
  <2> QED
    BY <1>5, <2>1
<1>7. pages \subseteq HeapPages /\ 4096 * Cardinality(pages) = n
  BY <1>3, <1>5, PagesCount
<1>8. mapped \subseteq HeapPages /\ totmem \in SizeT
  BY DEF HeapInv, TypeOK
<1>9. LooseAt("done", c) = 0 /\ LooseAt(pc[t], call[t]) = n
  BY <1>1 DEF LooseAt
<1> HIDE DEF n, pages
<1>10. 4096 * Cardinality(mapped) = 4096 * Cardinality(mapped') + n
  <2>1. mapped' \cup pages = mapped /\ mapped' \cap pages = {} /\ mapped' \subseteq HeapPages
    BY <1>1, <1>6, <1>8
  <2>2. 4096 * Cardinality(mapped' \cup pages)
          = 4096 * Cardinality(mapped') + 4096 * Cardinality(pages)
    BY <1>7, <2>1, PagesAdded
  <2> QED
    BY <1>7, <2>1, <2>2
<1>11. Cardinality(mapped) \in Nat /\ Cardinality(mapped') \in Nat
  BY <1>1, <1>8, PagesTotal
<1>12. 4096 * Cardinality(mapped')
         = 4096 * Cardinality(mapped) + 0 + (LooseAt("done", c) - LooseAt(pc[t], call[t]))
  BY <1>5, <1>9, <1>10, <1>11 DEF n
<1>13. totmem' = Wrap(totmem + 0)
  BY <1>1, <1>8, WrapType DEF SizeT
<1> QED
  <2>1. LooseAt("done", c) \in Nat /\ 0 \in Int
    BY <1>9
  <2> QED
    BY <1>1, <1>12, <1>13, <2>1, TotmemBy DEF HeapInv

\* Bytes in hand are counted, or counted no longer.
LEMMA TotmemCounts ==
  ASSUME HeapInv, IsFiniteSet(Threads), NEW t \in Threads, NEW l, NEW c, StepTo(t, l, c),
         LooseAt(l, c) \in Nat, mapped' = mapped,
         totmem' = Wrap(totmem + (LooseAt(pc[t], call[t]) - LooseAt(l, c)))
  PROVE  TotmemStep
<1>1. LooseAt(pc[t], call[t]) \in Nat
  BY LooseTypes DEF HeapInv
<1> DEFINE n == Cardinality(mapped)
           a == LooseAt(pc[t], call[t])
           b == LooseAt(l, c)
<1>2. n \in Nat /\ Cardinality(mapped') = n
  BY PagesTotal DEF HeapInv, TypeOK
<1> HIDE DEF n
<1>3. 4096 * n = 4096 * n + (a - b) + (b - a) /\ a - b \in Int
  BY <1>1, <1>2
<1> QED
  BY <1>2, <1>3, TotmemBy DEF HeapInv, n

LEMMA StepTotmem ==
  ASSUME HeapInv, IsFiniteSet(Threads), NEW t \in Threads, Call(t) \/ Step(t)
  PROVE  TotmemStep
<1>1. TypeOK /\ call[t] \in Calls /\ call[t].alloc_size \in Nat
  BY DEF HeapInv, TypeOK, Calls, SizeT
<1>2. CASE Call(t)
  BY <1>1, <1>2, CallCounters
<1>3. CASE Aside(t)
  BY <1>1, <1>3, AsideMoves, AsideCounters
<1>4. CASE LargeAlloc(t) \/ ClaimPage(t) \/ Unmap(t)
  BY <1>4, LargeAllocTotmem, ClaimPageTotmem, UnmapTotmem
<1>5. CASE Spin(t)
  <2>1. Loose' = Loose /\ totmem' = totmem /\ mapped' = mapped
    BY <1>5 DEF Spin, vars, Loose, LooseAt
  <2>2. totmem \in SizeT /\ Total(Loose, Threads) \in Nat /\ Cardinality(mapped) \in Nat
    BY <1>1, LooseTypes, PagesTotal DEF TypeOK
  <2>3. totmem' = Wrap(totmem + 0)
    BY <2>1, <2>2, WrapType DEF SizeT
  <2>4. /\ Total(Loose', Threads) = Total(Loose, Threads) + 0
        /\ 4096 * Cardinality(mapped') = 4096 * Cardinality(mapped) + 0 + 0
    BY <2>1, <2>2
  <2> QED
    BY <2>3, <2>4 DEF TotmemStep
<1>6. CASE LargeAddAllocated(t)
  <2>1. /\ pc[t] = "add_allocated" /\ StepTo(t, "add_totmem", call[t])
        /\ UNCHANGED <<totmem, mapped>>
    BY <1>1, <1>6, SameCall DEF LargeAddAllocated, Move
  <2>2. LooseAt("add_totmem", call[t]) = LooseAt(pc[t], call[t])
    BY <2>1 DEF LooseAt
  <2> QED
    BY <1>1, <2>1, <2>2, TotmemQuiet
<1>7. CASE \/ freelists_init(t) \/ TakeFirst(t) \/ WriteHeader(t) \/ FreeLarge(t)
           \/ FreeSlab(t) \/ FreeLock(t) \/ FreeInsert(t) \/ ResizeSub(t) \/ ResizeAdd(t)
  <2> DEFINE Never == {"add_allocated", "add_totmem", "free_unmap", "carve"}
  <2>1. pc[t] \notin Never /\ UNCHANGED <<totmem, mapped>>
    BY <1>7 DEF freelists_init, TakeFirst, WriteHeader, FreeLarge, FreeSlab, FreeLock, FreeInsert,
                ResizeSub, ResizeAdd, Acquire, Move
  <2>2. \E l : l \notin Never /\ \E c : StepTo(t, l, c)
    <3>1. CASE WriteHeader(t)
      BY <3>1, ResumeStep DEF WriteHeader
    <3>2. CASE TakeFirst(t) \/ FreeLarge(t) \/ FreeSlab(t)
      BY <3>2 DEF TakeFirst, FreeLarge, FreeSlab, Move, Goto, StepTo
    <3>3. CASE \/ freelists_init(t) \/ FreeLock(t) \/ FreeInsert(t)
               \/ ResizeSub(t) \/ ResizeAdd(t)
      BY <1>1, <3>3, SameCall
         DEF freelists_init, FreeLock, FreeInsert, ResizeSub, ResizeAdd, Acquire, Move
    <3> QED
      BY <1>7, <3>1, <3>2, <3>3
  <2> QED
    BY <1>1, <2>1, <2>2, NotLoose, TotmemQuiet
<1>8. CASE LargeAddTotmem(t)
  <2>1. PICK l \in {"zero_payload", "copy_payload", "done"} :
          StepTo(t, l, [call[t] EXCEPT !.ret = PtrOf(call[t].blk)])
    BY <1>8, ResumeStep DEF LargeAddTotmem
  <2> DEFINE d == [call[t] EXCEPT !.ret = PtrOf(call[t].blk)]
             n == call[t].alloc_size
  <2>2. /\ pc[t] = "add_totmem" /\ mapped' = mapped /\ totmem' = Wrap(totmem + n)
    BY <1>8 DEF LargeAddTotmem
  <2>3. LooseAt(l, d) = 0 /\ LooseAt(pc[t], call[t]) = n
    BY <2>2, NotLoose DEF LooseAt
  <2>4. n = n - 0
    BY <1>1
  <2> HIDE DEF d
  <2> QED
    BY <2>1, <2>2, <2>3, <2>4, TotmemCounts DEF d
<1>9. CASE CarvePage(t)
  <2>1. /\ pc[t] = "carve" /\ StepTo(t, "pop", call[t])
        /\ mapped' = mapped /\ totmem' = Wrap(totmem + PAGE_BYTES)
    BY <1>1, <1>9, SameCall DEF CarvePage, Move
  <2>2. LooseAt("pop", call[t]) = 0 /\ LooseAt(pc[t], call[t]) = PAGE_BYTES
    BY <2>1 DEF LooseAt
  <2>3. PAGE_BYTES = PAGE_BYTES - 0
    BY DEF PAGE_BYTES
  <2> QED
    BY <2>1, <2>2, <2>3, TotmemCounts
<1>10. CASE SubTotmem(t)
  <2> DEFINE n == call[t].alloc_size
  <2>1. /\ pc[t] = "free_totmem" /\ StepTo(t, "free_unmap", call[t])
        /\ mapped' = mapped /\ totmem' = Wrap(totmem - n)
    BY <1>1, <1>10, SameCall DEF SubTotmem, Move
  <2>2. LooseAt("free_unmap", call[t]) = n /\ LooseAt(pc[t], call[t]) = 0
    BY <2>1 DEF LooseAt
  <2>3. totmem - n = totmem + (0 - n)
    BY <1>1 DEF TypeOK, SizeT
  <2> QED
    BY <1>1, <2>1, <2>2, <2>3, TotmemCounts
<1> QED
  BY <1>2, <1>3, <1>4, <1>5, <1>6, <1>7, <1>8, <1>9, <1>10 DEF Step, Aside

--------------------------------------------------------------------------------
\* At a p2reset nobody is halfway: before then takes over what was counted.
LEMMA ResetCounters ==
  ASSUME HeapInv, IsFiniteSet(Threads), Reset
  PROVE  CountersInv'
<1>1. /\ \A t \in Threads : pc[t] = "idle"
      /\ UNCHANGED <<mapped, hdr, pc, call>> /\ allocated' = 0 /\ totmem' = 0
      /\ before' = [allocated |-> Bytes(DOMAIN hdr),
                    totmem    |-> PAGE_BYTES * Cardinality(mapped),
                    pages     |-> mapped]
  BY DEF Reset, p2reset
<1>2. TypeOK /\ mapped \subseteq HeapPages
  BY DEF HeapInv, TypeOK
<1> DEFINE asked == Total(Asked, DOMAIN hdr)
           bytes == 4096 * Cardinality(mapped)
<1>3. asked \in Nat /\ Bytes(DOMAIN hdr) = asked
  BY <1>2, AskedTypes, BytesTotal
<1>4. Cardinality(mapped) \in Nat /\ bytes \in Nat
  BY <1>2, PagesTotal
<1>5. Total(Asked', Counted') = asked
  <2>1. Resizing' = {}
    BY <1>1 DEF Resizing
  <2>2. Asked' = Asked /\ Counted' = DOMAIN hdr
    BY <1>1, <2>1 DEF Asked, Counted
  <2> QED
    BY <2>2
<1>6. Total(Loose', Threads) = 0
  <2> DEFINE none == [t \in Threads |-> 0]
  <2>1. \A t \in Threads : Loose'[t] = none[t]
    BY <1>1 DEF Loose, LooseAt
  <2>2. Total(Loose', Threads) = Total(none, Threads)
    BY <2>1, TotalSame
  <2>3. Cells(none, Threads) = {}
    BY DEF Cells
  <2> QED
    BY <2>2, <2>3, FS_EmptySet DEF Total
<1>7. before' \in BeforeType /\ before'.allocated = asked /\ before'.totmem = bytes
  BY <1>1, <1>2, <1>3, <1>4 DEF BeforeType, PAGE_BYTES
<1>8. Cardinality(mapped') = Cardinality(mapped)
  BY <1>1
<1> HIDE DEF asked
<1>9. 0 + asked = asked /\ 0 + bytes + 0 = bytes
  BY <1>3, <1>4
<1>10. AllocatedInv'
  BY <1>1, <1>5, <1>7, <1>9 DEF AllocatedInv
<1>11. TotmemInv'
  BY <1>1, <1>6, <1>7, <1>8, <1>9 DEF TotmemInv
<1> QED
  BY <1>7, <1>10, <1>11 DEF CountersInv

LEMMA LifeCounters ==
  ASSUME ControlInv, HeapInv, IsFiniteSet(Threads), CountersInv, [LifeNext]_lifeVars
  PROVE  CountersInv'
<1>1. CASE Reset
  BY <1>1, ResetCounters
<1>2. CASE Next /\ before' = [before EXCEPT !.pages = @ \cap mapped']
  <2>1. PICK t \in Threads : Call(t) \/ Step(t)
    BY <1>2 DEF Next
  <2>2. AllocatedStep /\ TotmemStep
    BY <2>1, StepAllocated, StepTotmem
  <2>3. before' \in BeforeType /\ before'.allocated = before.allocated
        /\ before'.totmem = before.totmem
    BY <1>2 DEF CountersInv, BeforeType
  <2> QED
    BY <2>2, <2>3, CountersStep DEF HeapInv
<1>3. CASE UNCHANGED lifeVars
  BY <1>3 DEF lifeVars, vars, CountersInv, AllocatedInv, TotmemInv, Asked, Counted, Resizing,
              Loose, LooseAt
<1> QED
  BY <1>1, <1>2, <1>3 DEF LifeNext

LEMMA CountersInit ==
  ASSUME LifeInit
  PROVE  CountersInv
<1>1. /\ allocated = 0 /\ totmem = 0 /\ mapped = {} /\ hdr = <<>>
      /\ pc = [t \in Threads |-> "idle"]
      /\ before = [allocated |-> 0, totmem |-> 0, pages |-> {}]
  BY DEF LifeInit, Init
<1>2. Counted = {}
  <2>1. DOMAIN hdr = {}
    BY <1>1
  <2> QED
    BY <2>1 DEF Counted
<1>3. Cells(Loose, Threads) = {}
  <2>1. \A t \in Threads : Loose[t] = 0
    BY <1>1 DEF Loose, LooseAt
  <2> QED
    BY <2>1 DEF Cells
<1>4. Total(Asked, Counted) = 0 /\ Total(Loose, Threads) = 0 /\ Cardinality(mapped) = 0
  BY <1>1, <1>2, <1>3, TotalEmpty, FS_EmptySet DEF Total
<1> QED
  BY <1>1, <1>4 DEF CountersInv, BeforeType, AllocatedInv, TotmemInv

\* p2allocated() and p2totmem() say what is in use and what is mapped since the
\* last p2reset, modulo the size of size_t, for any finite number of threads,
\* resets and pages: no call, however it ends and however others run in between,
\* lets a counter drift (p2malloc.c:215-216, 227, 243, 256-263, 299-301, 326-327).
THEOREM CountersSinceResetTheorem ==
  ASSUME IsFiniteSet(Threads)
  PROVE  LifeSpec => []CountersSinceReset
<1>1. LifeInit => CountersInv
  BY CountersInit
<1>2. ControlInv /\ HeapInv /\ CountersInv /\ [LifeNext]_lifeVars => CountersInv'
  BY LifeCounters
<1>3. HeapInv /\ CountersInv => CountersSinceReset
  BY CountersTotal DEF HeapInv
<1> QED
  BY <1>1, <1>2, <1>3, ResetHeapTheorem, PTL DEF LifeSpec
================================================================================
