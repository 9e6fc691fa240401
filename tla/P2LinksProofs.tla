----------------------------- MODULE P2LinksProofs -----------------------------
(***************************************************************************)
(* The pointers in the free blocks form the free lists and never reach     *)
(* into a block in use, for any number of threads and pages and wherever    *)
(* the linker puts the array of list heads.                                *)
(***************************************************************************)
EXTENDS P2Links, P2MallocProofs

Pairs == [next : Int, previous : Int]

\* Memory whose words are addresses or sizes.
Readable(m) == \A a \in DOMAIN m : m[a] \in Pairs

\* The k-th stop on the way around a list: its head, its nodes, its head.
Stop(head, seq, k) == IF k \in 1..Len(seq) THEN seq[k] ELSE head

Ring(m, head, seq) ==
  \A k \in 0..Len(seq) : /\ At(m, Stop(head, seq, k)).next = Stop(head, seq, k + 1)
                         /\ At(m, Stop(head, seq, k + 1)).previous = Stop(head, seq, k)

\* A list whose stops are all different.
Proper(head, seq) ==
  /\ head \in Int /\ seq \in Seq(Int) /\ IsInjective(seq)
  /\ head \notin Range(seq)

SelfLinked(m, a) == At(m, a).next = a /\ At(m, a).previous = a

--------------------------------------------------------------------------------
(***************************************************************************)
(* Memory: what the operations of ps_list.h write, word by word.           *)
(***************************************************************************)
LEMMA NoOffset == \A o \in Int : ps_list(o) = o /\ ps_container(o) = o
  BY DEF ps_list, ps_container

LEMMA AtPair ==
  ASSUME NEW m, Readable(m), NEW a
  PROVE  At(m, a) \in Pairs /\ At(m, a).next \in Int /\ At(m, a).previous \in Int
<1>1. At(m, a) \in Pairs
  BY DEF At, Readable, Pairs
<1> QED
  BY <1>1 DEF Pairs

LEMMA SamePair ==
  ASSUME NEW v \in Pairs, NEW w \in Pairs, v.next = w.next, v.previous = w.previous
  PROVE  v = w
  BY DEF Pairs

LEMMA StoreAt ==
  ASSUME NEW m, Readable(m), NEW a, NEW w \in Pairs
  PROVE  /\ Readable(Store(m, a, w))
         /\ \A l : At(Store(m, a, w), l) = IF l = a THEN w ELSE At(m, l)
  BY DEF Readable, Store, At

NextWritten(m, a, to, new) ==
  /\ Readable(new)
  /\ \A l : /\ At(new, l).next = IF l = a THEN to ELSE At(m, l).next
            /\ At(new, l).previous = At(m, l).previous

PreviousWritten(m, a, to, new) ==
  /\ Readable(new)
  /\ \A l : /\ At(new, l).previous = IF l = a THEN to ELSE At(m, l).previous
            /\ At(new, l).next = At(m, l).next

LEMMA SetNextAt ==
  ASSUME NEW m, Readable(m), NEW a, NEW to \in Int
  PROVE  NextWritten(m, a, to, SetNext(m, a, to))
<1>1. PICK w : w = [At(m, a) EXCEPT !.next = to]
  OBVIOUS
<1>2. w \in Pairs /\ w.next = to /\ w.previous = At(m, a).previous
  BY <1>1, AtPair DEF Pairs
<1>3. SetNext(m, a, to) = Store(m, a, w)
  BY <1>1 DEF SetNext
<1> QED
  BY <1>2, <1>3, StoreAt DEF NextWritten

LEMMA SetPreviousAt ==
  ASSUME NEW m, Readable(m), NEW a, NEW to \in Int
  PROVE  PreviousWritten(m, a, to, SetPrevious(m, a, to))
<1>1. PICK w : w = [At(m, a) EXCEPT !.previous = to]
  OBVIOUS
<1>2. w \in Pairs /\ w.previous = to /\ w.next = At(m, a).next
  BY <1>1, AtPair DEF Pairs
<1>3. SetPrevious(m, a, to) = Store(m, a, w)
  BY <1>1 DEF SetPrevious
<1> QED
  BY <1>2, <1>3, StoreAt DEF PreviousWritten

NodeInited(m, a, new) ==
  /\ Readable(new)
  /\ SelfLinked(new, a)
  /\ \A l : l # a => At(new, l) = At(m, l)

NodeAdded(m, a, n, new) ==
  /\ Readable(new)
  /\ \A l : /\ At(new, l).next = IF l = n THEN At(m, a).next
                                 ELSE IF l = a THEN n ELSE At(m, l).next
            /\ At(new, l).previous = IF l = n THEN a
                                     ELSE IF l = At(m, a).next THEN n ELSE At(m, l).previous

NodeRemoved(m, a, new) ==
  /\ Readable(new)
  /\ \A l : /\ At(new, l).next = IF l = a THEN a
                                 ELSE IF l = At(m, a).previous THEN At(m, a).next
                                 ELSE At(m, l).next
            /\ At(new, l).previous = IF l = a THEN a
                                     ELSE IF l = At(m, a).next THEN At(m, a).previous
                                     ELSE At(m, l).previous

LEMMA InitAt ==
  ASSUME NEW m, Readable(m), NEW a \in Int
  PROVE  NodeInited(m, a, ps_list_ll_init(m, a))
<1>1. PICK m1 : m1 = SetPrevious(m, a, a)
  OBVIOUS
<1>2. PICK m2 : m2 = SetNext(m1, a, a)
  OBVIOUS
<1>3. PreviousWritten(m, a, a, m1)
  BY <1>1, SetPreviousAt
<1>4. NextWritten(m1, a, a, m2)
  BY <1>2, <1>3, SetNextAt DEF PreviousWritten
<1>5. ps_list_ll_init(m, a) = m2
  BY <1>1, <1>2 DEF ps_list_ll_init
<1>6. ASSUME NEW l, l # a PROVE At(m2, l) = At(m, l)
  <2>1. At(m2, l).next = At(m, l).next /\ At(m2, l).previous = At(m, l).previous
    BY <1>3, <1>4, <1>6 DEF NextWritten, PreviousWritten
  <2>2. At(m2, l) \in Pairs /\ At(m, l) \in Pairs
    BY <1>4, AtPair DEF NextWritten
  <2> QED
    BY <2>1, <2>2, SamePair, Zenon
<1> QED
  BY <1>3, <1>4, <1>5, <1>6 DEF NodeInited, SelfLinked, NextWritten, PreviousWritten

\* Adding a node behind another one touches the two and the one that followed.
LEMMA AddAt ==
  ASSUME NEW m, Readable(m), NEW a \in Int, NEW n \in Int, n # a, At(m, a).next # n
  PROVE  NodeAdded(m, a, n, ps_list_ll_add(m, a, n))
<1>1. PICK x : x = At(m, a).next
  OBVIOUS
<1>2. PICK m1 : m1 = SetNext(m, n, x)
  OBVIOUS
<1>3. PICK m2 : m2 = SetPrevious(m1, n, a)
  OBVIOUS
<1>4. PICK m3 : m3 = SetNext(m2, a, n)
  OBVIOUS
<1>5. PICK m4 : m4 = SetPrevious(m3, x, n)
  OBVIOUS
<1>6. x \in Int
  BY <1>1, AtPair
<1>7. NextWritten(m, n, x, m1)
  BY <1>2, <1>6, SetNextAt, Zenon
<1>8. PreviousWritten(m1, n, a, m2)
  BY <1>3, <1>7, SetPreviousAt, Zenon DEF NextWritten
<1>9. NextWritten(m2, a, n, m3)
  BY <1>4, <1>8, SetNextAt, Zenon DEF PreviousWritten
<1>10. PreviousWritten(m3, x, n, m4)
  BY <1>5, <1>9, SetPreviousAt, Zenon DEF NextWritten
<1>11. At(m3, n).next = x
  BY <1>7, <1>8, <1>9 DEF NextWritten, PreviousWritten
<1>12. ps_list_ll_add(m, a, n) = m4
  BY <1>1, <1>2, <1>3, <1>4, <1>5, <1>11, Zenon DEF ps_list_ll_add
<1>13. ASSUME NEW l
       PROVE  /\ At(m4, l).next = IF l = n THEN x ELSE IF l = a THEN n ELSE At(m, l).next
              /\ At(m4, l).previous = IF l = n THEN a ELSE IF l = x THEN n ELSE At(m, l).previous
  BY <1>1, <1>7, <1>8, <1>9, <1>10 DEF NextWritten, PreviousWritten
<1> QED
  BY <1>1, <1>10, <1>12, <1>13 DEF NodeAdded, PreviousWritten

\* Removing a node joins its neighbours and leaves it alone in a list.
LEMMA RemAt ==
  ASSUME NEW m, Readable(m), NEW a \in Int, At(m, a).next # a, At(m, a).previous # a
  PROVE  NodeRemoved(m, a, ps_list_ll_rem(m, a))
<1>1. PICK x, y : x = At(m, a).next /\ y = At(m, a).previous
  OBVIOUS
<1>2. PICK m1 : m1 = SetPrevious(m, x, y)
  OBVIOUS
<1>3. PICK m2 : m2 = SetNext(m1, y, x)
  OBVIOUS
<1>4. PICK m3 : m3 = SetPrevious(m2, a, a)
  OBVIOUS
<1>5. PICK m4 : m4 = SetNext(m3, a, a)
  OBVIOUS
<1>6. x \in Int /\ y \in Int
  BY <1>1, AtPair
<1>7. PreviousWritten(m, x, y, m1)
  BY <1>2, <1>6, SetPreviousAt, Zenon
<1>8. NextWritten(m1, y, x, m2)
  BY <1>3, <1>6, <1>7, SetNextAt, Zenon DEF PreviousWritten
<1>9. PreviousWritten(m2, a, a, m3)
  BY <1>4, <1>8, SetPreviousAt, Zenon DEF NextWritten
<1>10. NextWritten(m3, a, a, m4)
  BY <1>5, <1>9, SetNextAt, Zenon DEF PreviousWritten
<1>11. At(m1, a).next = x /\ At(m1, a).previous = y
  BY <1>1, <1>7 DEF PreviousWritten
<1>12. ps_list_ll_rem(m, a) = m4
  <2>1. ps_list_ll_rem(m, a) = ps_list_ll_init(m2, a)
    BY <1>1, <1>2, <1>3, <1>11, Zenon DEF ps_list_ll_rem
  <2> QED
    BY <1>4, <1>5, <2>1, Zenon DEF ps_list_ll_init
<1>13. ASSUME NEW l
       PROVE  /\ At(m4, l).next = IF l = a THEN a ELSE IF l = y THEN x ELSE At(m, l).next
              /\ At(m4, l).previous = IF l = a THEN a
                                      ELSE IF l = x THEN y ELSE At(m, l).previous
  BY <1>1, <1>7, <1>8, <1>9, <1>10 DEF NextWritten, PreviousWritten
<1> QED
  BY <1>1, <1>10, <1>12, <1>13 DEF NodeRemoved, NextWritten

--------------------------------------------------------------------------------
(***************************************************************************)
(* Rings.                                                                  *)
(***************************************************************************)
LEMMA Stops ==
  ASSUME NEW h, NEW seq, Proper(h, seq)
  PROVE  /\ Len(seq) \in Nat
         /\ \A k \in 0..(Len(seq) + 1) : Stop(h, seq, k) \in Int
         /\ \A i, j \in 0..Len(seq) : Stop(h, seq, i) = Stop(h, seq, j) => i = j
         /\ \A i, j \in 1..(Len(seq) + 1) : Stop(h, seq, i) = Stop(h, seq, j) => i = j
         /\ Stop(h, seq, 0) = h /\ Stop(h, seq, Len(seq) + 1) = h
<1>1. /\ h \in Int /\ seq \in Seq(Int) /\ Len(seq) \in Nat /\ DOMAIN seq = 1..Len(seq)
      /\ \A k \in 1..Len(seq) : seq[k] \in Int
  BY DEF Proper
<1>2. \A k \in 1..Len(seq) : seq[k] # h
  BY <1>1 DEF Proper, Range
<1>3. \A i, j \in 1..Len(seq) : seq[i] = seq[j] => i = j
  BY <1>1 DEF Proper, IsInjective
<1>4. \A k : Stop(h, seq, k) = IF k \in 1..Len(seq) THEN seq[k] ELSE h
  BY DEF Stop
<1>5. /\ 0 \notin 1..Len(seq) /\ Len(seq) + 1 \notin 1..Len(seq)
      /\ \A k \in 0..Len(seq) : k \in 1..Len(seq) \/ k = 0
      /\ \A k \in 1..(Len(seq) + 1) : k \in 1..Len(seq) \/ k = Len(seq) + 1
  BY <1>1
<1>6. /\ \A i, j \in 0..Len(seq) : Stop(h, seq, i) = Stop(h, seq, j) => i = j
      /\ \A i, j \in 1..(Len(seq) + 1) : Stop(h, seq, i) = Stop(h, seq, j) => i = j
  BY <1>2, <1>3, <1>4, <1>5, Zenon
<1>7. \A k \in 0..(Len(seq) + 1) : Stop(h, seq, k) \in Int
  BY <1>1, <1>4, Zenon
<1>8. Stop(h, seq, 0) = h /\ Stop(h, seq, Len(seq) + 1) = h
  BY <1>4, <1>5, Zenon
<1> QED
  BY <1>1, <1>6, <1>7, <1>8

LEMMA RingIsRing ==
  ASSUME NEW m, NEW h, NEW seq, Proper(h, seq)
  PROVE  IsRing(m, h, seq) <=> Ring(m, h, seq)
<1> DEFINE n == Len(seq)
           stop == [k \in 0..(n + 1) |-> IF k \in 1..n THEN ps_list(seq[k]) ELSE h]
<1>1. n \in Nat /\ \A k \in 1..n : seq[k] \in Int
  BY DEF Proper
<1>2. \A k \in 0..(n + 1) : stop[k] = Stop(h, seq, k)
  BY <1>1, NoOffset DEF Stop
<1>3. IsRing(m, h, seq) <=> \A k \in 0..n : /\ At(m, stop[k]).next = stop[k + 1]
                                            /\ At(m, stop[k + 1]).previous = stop[k]
  BY Zenon DEF IsRing
<1>4. \A k \in 0..n : k \in 0..(n + 1) /\ k + 1 \in 0..(n + 1)
  BY <1>1
<1> HIDE DEF stop
<1> QED
  BY <1>2, <1>3, <1>4, Zenon DEF Ring

\* A change of memory that leaves the stops of a list alone leaves its ring.
LEMMA RingElsewhere ==
  ASSUME NEW m, NEW new, NEW h, NEW seq, Proper(h, seq), Ring(m, h, seq),
         At(new, h) = At(m, h), \A x \in Range(seq) : At(new, x) = At(m, x)
  PROVE  Ring(new, h, seq)
<1>1. Len(seq) \in Nat /\ DOMAIN seq = 1..Len(seq)
  BY DEF Proper
<1>2. \A k \in 0..(Len(seq) + 1) : Stop(h, seq, k) = h \/ Stop(h, seq, k) \in Range(seq)
  BY <1>1 DEF Stop, Range
<1>3. \A k \in 0..Len(seq) : k \in 0..(Len(seq) + 1) /\ k + 1 \in 0..(Len(seq) + 1)
  BY <1>1
<1>4. \A k \in 0..(Len(seq) + 1) : At(new, Stop(h, seq, k)) = At(m, Stop(h, seq, k))
  BY <1>2, Zenon
<1> QED
  BY <1>3, <1>4, Zenon DEF Ring

\* new is seq with o behind its first k elements.
Inserted(seq, k, o, new) ==
  /\ new \in Seq(Int)
  /\ Len(new) = Len(seq) + 1
  /\ \A j \in 1..Len(new) : new[j] = IF j <= k THEN seq[j] ELSE IF j = k + 1 THEN o ELSE seq[j - 1]

\* The node linked in behind the k-th stop becomes the next stop.
LEMMA RingAfterAdd ==
  ASSUME NEW m, Readable(m), NEW h, NEW seq, Proper(h, seq), Ring(m, h, seq),
         NEW k \in 0..Len(seq), NEW o \in Int, o \notin Range(seq), o # h,
         NEW new, Inserted(seq, k, o, new),
         NEW mem2, mem2 = ps_list_ll_add(m, Stop(h, seq, k), o)
  PROVE  /\ Readable(mem2)
         /\ Ring(mem2, h, new)
         /\ \A l : l # o /\ l # h /\ l \notin Range(seq) => At(mem2, l) = At(m, l)
<1> DEFINE n == Len(seq)
<1>1. n \in Nat /\ k \in Nat /\ k <= n /\ DOMAIN seq = 1..n
  BY Stops DEF Proper
<1>2. /\ \A j \in 0..(n + 1) : Stop(h, seq, j) \in Int
      /\ \A i, j \in 0..n : Stop(h, seq, i) = Stop(h, seq, j) => i = j
      /\ \A i, j \in 1..(n + 1) : Stop(h, seq, i) = Stop(h, seq, j) => i = j
      /\ Stop(h, seq, 0) = h /\ Stop(h, seq, n + 1) = h
  BY Stops, Zenon
<1>3. \A j \in 0..(n + 1) : Stop(h, seq, j) = h \/ Stop(h, seq, j) \in Range(seq)
  BY <1>1 DEF Stop, Range
<1>4. \A j \in 0..(n + 1) : Stop(h, seq, j) # o
  BY <1>3, Zenon
<1>5. At(m, Stop(h, seq, k)).next = Stop(h, seq, k + 1)
  BY DEF Ring
<1>6. k \in 0..(n + 1) /\ k + 1 \in 0..(n + 1) /\ k + 1 \in 1..(n + 1) /\ k \in 0..n
  BY <1>1
<1>7. /\ Readable(mem2)
      /\ \A l : /\ At(mem2, l).next = IF l = o THEN Stop(h, seq, k + 1)
                                      ELSE IF l = Stop(h, seq, k) THEN o ELSE At(m, l).next
                /\ At(mem2, l).previous = IF l = o THEN Stop(h, seq, k)
                                          ELSE IF l = Stop(h, seq, k + 1) THEN o
                                          ELSE At(m, l).previous
  <2>1. NodeAdded(m, Stop(h, seq, k), o, mem2)
    BY <1>2, <1>4, <1>5, <1>6, AddAt, Zenon
  <2> QED
    BY <1>5, <2>1, Zenon DEF NodeAdded
<1>8. \A j \in 0..(n + 2) :
        Stop(h, new, j) = IF j <= k THEN Stop(h, seq, j)
                          ELSE IF j = k + 1 THEN o ELSE Stop(h, seq, j - 1)
  <2> SUFFICES ASSUME NEW j \in 0..(n + 2)
               PROVE  Stop(h, new, j) = IF j <= k THEN Stop(h, seq, j)
                                        ELSE IF j = k + 1 THEN o ELSE Stop(h, seq, j - 1)
    OBVIOUS
  <2>1. CASE j = 0
    BY <1>1, <2>1 DEF Stop, Inserted
  <2>2. CASE j = n + 2
    BY <1>1, <2>2 DEF Stop, Inserted
  <2>3. CASE j \in 1..(n + 1) /\ j <= k
    BY <1>1, <2>3 DEF Stop, Inserted
  <2>4. CASE j \in 1..(n + 1) /\ j = k + 1
    BY <1>1, <2>4 DEF Stop, Inserted
  <2>5. CASE j \in 1..(n + 1) /\ j > k + 1
    BY <1>1, <2>5 DEF Stop, Inserted
  <2> QED
    BY <1>1, <2>1, <2>2, <2>3, <2>4, <2>5
<1>9. Len(new) = n + 1
  BY DEF Inserted
<1>10. ASSUME NEW j \in 0..(n + 1)
       PROVE  /\ At(mem2, Stop(h, new, j)).next = Stop(h, new, j + 1)
              /\ At(mem2, Stop(h, new, j + 1)).previous = Stop(h, new, j)
  <2>1. j \in Nat /\ j <= n + 1 /\ j \in 0..(n + 2) /\ j + 1 \in 0..(n + 2)
    BY <1>1
  <2>2. CASE j < k
    <3>1. Stop(h, new, j) = Stop(h, seq, j) /\ Stop(h, new, j + 1) = Stop(h, seq, j + 1)
      BY <1>1, <1>8, <2>1, <2>2
    <3>2. /\ j \in 0..n /\ j # k /\ j \in 0..(n + 1) /\ j + 1 \in 0..(n + 1)
          /\ j + 1 \in 1..(n + 1) /\ j + 1 # k + 1
      BY <1>1, <2>1, <2>2
    <3>3. /\ At(m, Stop(h, seq, j)).next = Stop(h, seq, j + 1)
          /\ At(m, Stop(h, seq, j + 1)).previous = Stop(h, seq, j)
      BY <3>2 DEF Ring
    <3>4. Stop(h, seq, j) # Stop(h, seq, k) /\ Stop(h, seq, j + 1) # Stop(h, seq, k + 1)
      BY <1>2, <1>6, <3>2, Zenon
    <3> QED
      BY <1>4, <1>7, <3>1, <3>2, <3>3, <3>4, Zenon
  <2>3. CASE j = k
    <3>1. Stop(h, new, j) = Stop(h, seq, k) /\ Stop(h, new, j + 1) = o
      BY <1>1, <1>8, <2>1, <2>3
    <3> QED
      BY <1>4, <1>6, <1>7, <3>1, Zenon
  <2>4. CASE j = k + 1
    <3>1. Stop(h, new, j) = o /\ Stop(h, new, j + 1) = Stop(h, seq, k + 1)
      BY <1>1, <1>8, <2>1, <2>4
    <3> QED
      BY <1>4, <1>6, <1>7, <3>1, Zenon
  <2>5. CASE j > k + 1
    <3>1. Stop(h, new, j) = Stop(h, seq, j - 1) /\ Stop(h, new, j + 1) = Stop(h, seq, j)
      BY <1>1, <1>8, <2>1, <2>5
    <3>2. /\ j - 1 \in 0..n /\ j - 1 # k /\ j - 1 \in 0..(n + 1) /\ j \in 0..(n + 1)
          /\ j \in 1..(n + 1) /\ j # k + 1 /\ (j - 1) + 1 = j
      BY <1>1, <2>1, <2>5
    <3>3. /\ At(m, Stop(h, seq, j - 1)).next = Stop(h, seq, j)
          /\ At(m, Stop(h, seq, j)).previous = Stop(h, seq, j - 1)
      BY <3>2, Zenon DEF Ring
    <3>4. Stop(h, seq, j - 1) # Stop(h, seq, k) /\ Stop(h, seq, j) # Stop(h, seq, k + 1)
      BY <1>2, <1>6, <3>2, Zenon
    <3> QED
      BY <1>4, <1>7, <3>1, <3>2, <3>3, <3>4, Zenon
  <2> QED
    BY <1>1, <2>1, <2>2, <2>3, <2>4, <2>5
<1>11. Ring(mem2, h, new)
  BY <1>9, <1>10, Zenon DEF Ring
<1>12. ASSUME NEW l, l # o, l # h, l \notin Range(seq)
       PROVE  At(mem2, l) = At(m, l)
  <2>1. l # Stop(h, seq, k) /\ l # Stop(h, seq, k + 1)
    BY <1>3, <1>6, <1>12, Zenon
  <2>2. At(mem2, l).next = At(m, l).next /\ At(mem2, l).previous = At(m, l).previous
    BY <1>7, <1>12, <2>1, Zenon
  <2>3. At(mem2, l) \in Pairs /\ At(m, l) \in Pairs
    BY <1>7, AtPair
  <2> QED
    BY <2>2, <2>3, SamePair, Zenon
<1> QED
  BY <1>7, <1>11, <1>12

\* What the first node leaves behind is the ring of the others.
LEMMA RingAfterFirst ==
  ASSUME NEW m, Readable(m), NEW h, NEW seq, Proper(h, seq), seq # <<>>, Ring(m, h, seq),
         NEW mem2, mem2 = ps_list_ll_rem(m, Head(seq))
  PROVE  /\ Readable(mem2)
         /\ Ring(mem2, h, Tail(seq))
         /\ \A l : l # h /\ l \notin Range(seq) => At(mem2, l) = At(m, l)
<1> DEFINE n == Len(seq)
           a == seq[1]
           b == Stop(h, seq, 2)
           new == Tail(seq)
<1>1. /\ n \in Nat /\ n >= 1 /\ DOMAIN seq = 1..n /\ Head(seq) = a /\ seq \in Seq(Int)
      /\ new \in Seq(Int) /\ Len(new) = n - 1
      /\ \A j \in 1..(n - 1) : new[j] = seq[j + 1]
  BY DEF Proper
<1>2. /\ \A j \in 0..(n + 1) : Stop(h, seq, j) \in Int
      /\ \A i, j \in 0..n : Stop(h, seq, i) = Stop(h, seq, j) => i = j
      /\ \A i, j \in 1..(n + 1) : Stop(h, seq, i) = Stop(h, seq, j) => i = j
      /\ Stop(h, seq, 0) = h
  BY Stops, Zenon
<1>3. Stop(h, seq, 1) = a
  BY <1>1 DEF Stop
<1>4. /\ 0 \in 0..n /\ 1 \in 0..n /\ 1 \in 0..(n + 1) /\ 2 \in 0..(n + 1)
      /\ 1 \in 1..(n + 1) /\ 2 \in 1..(n + 1) /\ 0 + 1 = 1 /\ 1 + 1 = 2 /\ 0 # 1 /\ 1 # 2
  BY <1>1
<1>5. /\ At(m, a).next = b /\ At(m, a).previous = h
      /\ At(m, h).next = a
  BY <1>2, <1>3, <1>4, Zenon DEF Ring
<1>6. a \in Int /\ b # a /\ h # a
  BY <1>2, <1>3, <1>4, Zenon
<1>7. /\ Readable(mem2)
      /\ \A l : /\ At(mem2, l).next = IF l = a THEN a
                                      ELSE IF l = h THEN b ELSE At(m, l).next
                /\ At(mem2, l).previous = IF l = a THEN a
                                          ELSE IF l = b THEN h ELSE At(m, l).previous
  <2>1. NodeRemoved(m, a, mem2)
    BY <1>1, <1>5, <1>6, RemAt, Zenon
  <2> QED
    BY <1>5, <2>1, Zenon DEF NodeRemoved
<1>8. \A j \in 0..n : Stop(h, new, j) = IF j = 0 THEN h ELSE Stop(h, seq, j + 1)
  <2> SUFFICES ASSUME NEW j \in 0..n
               PROVE  Stop(h, new, j) = IF j = 0 THEN h ELSE Stop(h, seq, j + 1)
    OBVIOUS
  <2>1. CASE j = 0
    BY <1>1, <2>1 DEF Stop
  <2>2. CASE j = n
    BY <1>1, <2>2 DEF Stop
  <2>3. CASE j \in 1..(n - 1)
    BY <1>1, <2>3 DEF Stop
  <2>4. j = 0 \/ j = n \/ j \in 1..(n - 1)
    <3>1. n \in Nat
      BY <1>1
    <3> HIDE DEF n
    <3> QED
      BY <3>1
  <2> QED
    BY <2>1, <2>2, <2>3, <2>4, Zenon
<1>9. ASSUME NEW j \in 0..(n - 1)
      PROVE  /\ At(mem2, Stop(h, new, j)).next = Stop(h, new, j + 1)
             /\ At(mem2, Stop(h, new, j + 1)).previous = Stop(h, new, j)
  <2>1. CASE j = 0
    <3>1. Stop(h, new, j) = h /\ Stop(h, new, j + 1) = b
      BY <1>1, <1>8, <2>1
    <3> QED
      BY <1>6, <1>7, <3>1, Zenon
  <2>2. CASE j # 0
    <3>1. Stop(h, new, j) = Stop(h, seq, j + 1) /\ Stop(h, new, j + 1) = Stop(h, seq, j + 2)
      BY <1>1, <1>8, <2>2
    <3>2. /\ j + 1 \in 0..n /\ j + 1 # 0 /\ j + 1 # 1 /\ j + 2 \in 1..(n + 1) /\ j + 2 # 2
          /\ j + 2 # 1 /\ (j + 1) + 1 = j + 2
      BY <1>1, <2>2
    <3>3. /\ At(m, Stop(h, seq, j + 1)).next = Stop(h, seq, j + 2)
          /\ At(m, Stop(h, seq, j + 2)).previous = Stop(h, seq, j + 1)
      BY <3>2, Zenon DEF Ring
    <3>4. Stop(h, seq, j + 1) # h /\ Stop(h, seq, j + 1) # a
      BY <1>2, <1>3, <1>4, <3>2, Zenon
    <3>5. Stop(h, seq, j + 2) # b /\ Stop(h, seq, j + 2) # a
      BY <1>2, <1>3, <1>4, <3>2, Zenon
    <3> QED
      BY <1>7, <3>1, <3>3, <3>4, <3>5, Zenon
  <2> QED
    BY <2>1, <2>2
<1>10. Ring(mem2, h, new)
  BY <1>1, <1>9, Zenon DEF Ring
<1>11. ASSUME NEW l, l # h, l \notin Range(seq)
       PROVE  At(mem2, l) = At(m, l)
  <2>1. l # a /\ l # b
    BY <1>1, <1>11 DEF Range, Stop
  <2>2. At(mem2, l).next = At(m, l).next /\ At(mem2, l).previous = At(m, l).previous
    BY <1>7, <1>11, <2>1, Zenon
  <2>3. At(mem2, l) \in Pairs /\ At(m, l) \in Pairs
    BY <1>7, AtPair
  <2> QED
    BY <2>2, <2>3, SamePair, Zenon
<1> QED
  BY <1>7, <1>10, <1>11

--------------------------------------------------------------------------------
(***************************************************************************)
(* Carving a page.                                                         *)
(***************************************************************************)
LEMMA IntervalInduction ==
  ASSUME NEW n \in Nat, NEW G, 0 \in G, \A k \in 0..n : k # n /\ k \in G => k + 1 \in G
  PROVE  0..n \subseteq G
<1> SUFFICES ASSUME NEW x \in 0..n, x \notin G PROVE FALSE
  OBVIOUS
<1> DEFINE Sets == {0..k : k \in {j \in 0..n : j \notin G}}
<1>1. IsFiniteSet(0..n)
  BY FS_Interval
<1>2. Sets \subseteq SUBSET (0..n) /\ Sets # {}
  OBVIOUS
<1>3. PICK T \in Sets : \A U \in Sets : ~ (U \subseteq T /\ U # T)
  <2>1. PICK S, Some : S = 0..n /\ Some = Sets
    OBVIOUS
  <2>2. IsFiniteSet(S) /\ Some \subseteq SUBSET S /\ Some # {}
    BY <1>1, <1>2, <2>1
  <2>3. \E T \in Some : \A U \in Some : ~ (U \subseteq T /\ U # T)
    BY <2>2, MinimalSubset
  <2> QED
    BY <2>1, <2>3
<1>4. PICK k \in 0..n : k \notin G /\ T = 0..k
  BY <1>3
<1>5. k # 0 /\ k - 1 \in 0..n /\ k - 1 # n /\ (k - 1) + 1 = k
  BY <1>4
<1>6. k - 1 \notin G
  BY <1>4, <1>5, Zenon
<1>7. 0..(k - 1) \in Sets
  BY <1>5, <1>6
<1>8. 0..(k - 1) \subseteq T /\ k \in T /\ k \notin 0..(k - 1)
  BY <1>4
<1> QED
  BY <1>3, <1>7, <1>8

\* The j-th block of a page, and the first k blocks, last to first.
Block(page, bytes, j)  == page + j * bytes
Downto(page, bytes, k) == [j \in 1..k |-> Block(page, bytes, k - j)]

LEMMA BlocksDiffer ==
  ASSUME NEW page \in Int, NEW bytes \in Nat \ {0}
  PROVE  /\ \A j \in Int : Block(page, bytes, j) \in Int
         /\ \A i, j \in Int : Block(page, bytes, i) = Block(page, bytes, j) => i = j
<1>1. \A j \in Int : j * bytes \in Int
  BY Multiples
<1>2. ASSUME NEW i \in Int, NEW j \in Int, i < j PROVE i * bytes + bytes <= j * bytes
  BY <1>2, Multiples
<1>3. ASSUME NEW i \in Int, NEW j \in Int, Block(page, bytes, i) = Block(page, bytes, j)
      PROVE  i = j
  <2>1. PICK x \in Int, y \in Int : x = i * bytes /\ y = j * bytes
    BY <1>1
  <2>2. x = y
    BY <1>3, <2>1 DEF Block
  <2>3. i < j => x + bytes <= y
    BY <1>2, <2>1
  <2>4. j < i => y + bytes <= x
    BY <1>2, <2>1
  <2> QED
    BY <2>2, <2>3, <2>4
<1>4. ASSUME NEW j \in Int PROVE Block(page, bytes, j) \in Int
  <2>1. PICK x \in Int : x = j * bytes
    BY <1>1
  <2> QED
    BY <2>1 DEF Block
<1> QED
  BY <1>3, <1>4

LEMMA DowntoCarved ==
  ASSUME NEW page \in Int, NEW bytes \in BlockLengths, NEW n, n = 4096 \div bytes,
         NEW list, list = CarvedPage(page, 4096, bytes)
  PROVE  /\ n \in Nat
         /\ Downto(page, bytes, n) = list
         /\ \A j \in 0..n : j # n => Block(page, bytes, j) \in Range(list)
<1>1. n \in Nat /\ n * bytes = 4096 /\ bytes \in Nat \ {0}
  BY DEF BlockLengths
<1>2. ASSUME NEW j \in Int
      PROVE  page + 4096 - j * bytes = Block(page, bytes, n - j)
  <2>1. PICK q \in Int : q = n
    BY <1>1
  <2>2. (q - j) * bytes = q * bytes - j * bytes /\ j * bytes \in Int /\ (q - j) * bytes \in Int
    BY <1>1, <2>1, Multiples
  <2>3. PICK x \in Int, y \in Int : x = j * bytes /\ y = (q - j) * bytes
    BY <2>2
  <2>4. y = 4096 - x
    BY <1>1, <2>1, <2>2, <2>3
  <2>5. page + 4096 - x = page + y
    BY <2>4
  <2> QED
    BY <2>1, <2>3, <2>5 DEF Block
<1>3. list = [j \in 1..n |-> page + 4096 - j * bytes]
  BY DEF CarvedPage
<1>4. Downto(page, bytes, n) = list
  <2>1. \A j \in 1..n : page + 4096 - j * bytes = Block(page, bytes, n - j)
    BY <1>2
  <2> QED
    BY <1>3, <2>1 DEF Downto
<1>5. ASSUME NEW j \in 0..n, j # n PROVE Block(page, bytes, j) \in Range(list)
  <2>1. n - j \in 1..n /\ n - (n - j) = j
    BY <1>1, <1>5
  <2>2. DOMAIN Downto(page, bytes, n) = 1..n
    BY DEF Downto
  <2>3. Downto(page, bytes, n)[n - j] = Block(page, bytes, j)
    BY <2>1 DEF Downto
  <2> QED
    BY <1>4, <2>1, <2>2, <2>3 DEF Range
<1> QED
  BY <1>1, <1>4, <1>5

LEMMA DowntoIsSeq ==
  ASSUME NEW page \in Int, NEW bytes \in Nat \ {0}, NEW k \in Nat
  PROVE  /\ Downto(page, bytes, k) \in Seq(Int)
         /\ Len(Downto(page, bytes, k)) = k
         /\ \A x \in Range(Downto(page, bytes, k)) :
              \E j \in 0..k : j # k /\ x = Block(page, bytes, j)
         /\ IsInjective(Downto(page, bytes, k))
         /\ Block(page, bytes, k) \notin Range(Downto(page, bytes, k))
<1> DEFINE d == Downto(page, bytes, k)
<1>1. /\ \A j \in Int : Block(page, bytes, j) \in Int
      /\ \A i, j \in Int : Block(page, bytes, i) = Block(page, bytes, j) => i = j
  BY BlocksDiffer
<1>2. d = [j \in 1..k |-> Block(page, bytes, k - j)]
  BY DEF Downto
<1> HIDE DEF d
<1>3. \A j \in 1..k : d[j] = Block(page, bytes, k - j) /\ k - j \in Int /\ d[j] \in Int
  BY <1>1, <1>2
<1>4. DOMAIN d = 1..k
  BY <1>2
<1>5. d \in Seq(Int) /\ Len(d) = k
  BY <1>2, <1>3
<1>6. ASSUME NEW x \in Range(d) PROVE \E j \in 0..k : j # k /\ x = Block(page, bytes, j)
  <2>1. PICK i \in 1..k : x = d[i]
    BY <1>4 DEF Range
  <2>2. k - i \in 0..k /\ k - i # k
    OBVIOUS
  <2> QED
    BY <1>3, <2>1, <2>2
<1>7. IsInjective(d)
  <2> SUFFICES ASSUME NEW i \in 1..k, NEW j \in 1..k, d[i] = d[j] PROVE i = j
    BY <1>4 DEF IsInjective
  <2>1. k - i = k - j
    BY <1>1, <1>3
  <2> QED
    BY <2>1
<1>8. ASSUME Block(page, bytes, k) \in Range(d) PROVE FALSE
  <2>1. PICK j \in 0..k : j # k /\ Block(page, bytes, k) = Block(page, bytes, j)
    BY <1>6, <1>8
  <2> QED
    BY <1>1, <2>1
<1> QED
  BY <1>5, <1>6, <1>7, <1>8 DEF d

LEMMA DowntoInserted ==
  ASSUME NEW page \in Int, NEW bytes \in Nat \ {0}, NEW k \in Nat
  PROVE  Inserted(Downto(page, bytes, k), 0, Block(page, bytes, k), Downto(page, bytes, k + 1))
<1> DEFINE d == Downto(page, bytes, k)
           e == Downto(page, bytes, k + 1)
<1>1. e \in Seq(Int) /\ Len(e) = k + 1 /\ Len(d) = k
  <2>1. k + 1 \in Nat
    OBVIOUS
  <2> QED
    BY <2>1, DowntoIsSeq, Zenon
<1>2. ASSUME NEW j \in 1..(k + 1)
      PROVE  e[j] = IF j <= 0 THEN d[j] ELSE IF j = 0 + 1 THEN Block(page, bytes, k) ELSE d[j - 1]
  <2>1. e[j] = Block(page, bytes, (k + 1) - j)
    BY DEF Downto
  <2>2. CASE j = 1
    BY <2>1, <2>2
  <2>3. CASE j # 1
    <3>1. j - 1 \in 1..k /\ (k + 1) - j = k - (j - 1)
      BY <2>3
    <3>2. d[j - 1] = Block(page, bytes, k - (j - 1))
      BY <3>1 DEF Downto
    <3> QED
      BY <2>1, <2>3, <3>1, <3>2
  <2> QED
    BY <2>2, <2>3
<1> QED
  BY <1>1, <1>2 DEF Inserted

\* The memory while the loop over a page links its first n blocks, block by block.
Linking(head, page, bytes, n, links) ==
  links = [k \in 0..n |->
             IF k = 0 THEN mem
             ELSE ps_list_head_add(ps_list_init(links[k - 1], page + (k - 1) * bytes), head,
                                   page + (k - 1) * bytes)]

LEMMA LinkingExists ==
  ASSUME NEW head, NEW page, NEW bytes, NEW n \in Nat
  PROVE  \E links : Linking(head, page, bytes, n, links)
<1> DEFINE G == {p \in 0..n : \E links : Linking(head, page, bytes, p, links)}
<1>1. 0 \in G
  <2>1. PICK links : links = [k \in 0..0 |-> mem]
    OBVIOUS
  <2>2. Linking(head, page, bytes, 0, links)
    BY <2>1 DEF Linking
  <2> QED
    BY <2>2
<1>2. ASSUME NEW p \in 0..n, p # n, p \in G PROVE p + 1 \in G
  <2>1. PICK links : Linking(head, page, bytes, p, links)
    BY <1>2
  <2>2. PICK x : x = ps_list_head_add(ps_list_init(links[p], page + p * bytes), head,
                                      page + p * bytes)
    OBVIOUS
  <2>3. PICK longer : longer = [k \in 0..(p + 1) |-> IF k = p + 1 THEN x ELSE links[k]]
    OBVIOUS
  <2>4. ASSUME NEW k \in 0..(p + 1)
        PROVE  longer[k] = IF k = 0 THEN mem
                           ELSE ps_list_head_add(ps_list_init(longer[k - 1], page + (k - 1) * bytes),
                                                 head, page + (k - 1) * bytes)
    <3>1. CASE k = p + 1
      <4>1. longer[k] = x /\ k - 1 = p /\ k # 0 /\ longer[p] = links[p]
        BY <2>3, <3>1
      <4> QED
        BY <2>2, <4>1, Zenon
    <3>2. CASE k # p + 1
      <4>1. k \in 0..p /\ longer[k] = links[k]
        BY <2>3, <3>2
      <4>2. k # 0 => k - 1 \in 0..(p + 1) /\ k - 1 # p + 1 /\ longer[k - 1] = links[k - 1]
        BY <2>3, <3>2
      <4>3. links[k] = IF k = 0 THEN mem
                       ELSE ps_list_head_add(ps_list_init(links[k - 1], page + (k - 1) * bytes),
                                             head, page + (k - 1) * bytes)
        BY <2>1, <4>1, Zenon DEF Linking
      <4> QED
        BY <4>1, <4>2, <4>3, Zenon
    <3> QED
      BY <3>1, <3>2
  <2>5. longer = [k \in 0..(p + 1) |-> longer[k]]
    BY <2>3
  <2>6. Linking(head, page, bytes, p + 1, longer)
    BY <2>4, <2>5 DEF Linking
  <2>7. p + 1 \in 0..n
    BY <1>2
  <2> QED
    BY <2>6, <2>7
<1>3. n \in G
  <2> HIDE DEF G
  <2>1. \A k \in 0..n : k # n /\ k \in G => k + 1 \in G
    BY <1>2
  <2> QED
    BY <1>1, <2>1, IntervalInduction
<1> QED
  BY <1>3

LEMMA CarveLinksUnfold ==
  ASSUME NEW i \in Freelists, NEW page
  PROVE  \E links : /\ Linking(list_head(i), page, pow2(i), PAGE_BYTES \div pow2(i), links)
                    /\ CarveLinks(i, page) = links[PAGE_BYTES \div pow2(i)]
<1> DEFINE links == CHOOSE f : Linking(list_head(i), page, pow2(i), PAGE_BYTES \div pow2(i), f)
<1>1. PAGE_BYTES \div pow2(i) \in Nat
  BY BlockSizes, FreelistNumbers DEF PAGE_BYTES
<1>2. Linking(list_head(i), page, pow2(i), PAGE_BYTES \div pow2(i), links)
  BY <1>1, LinkingExists, Zenon
<1>3. CarveLinks(i, page) = links[PAGE_BYTES \div pow2(i)]
  BY Zenon DEF CarveLinks, Linking
<1> QED
  BY <1>2, <1>3, Zenon

\* What m2 is to m when it links list at h where nothing was linked.
Linked(m, h, list, m2) ==
  /\ Readable(m2)
  /\ Ring(m2, h, list)
  /\ \A l : l # h /\ l \notin Range(list) => At(m2, l) = At(m, l)

\* One round of the loop over a new page.
LEMMA BlockLinked ==
  ASSUME NEW h \in Int, NEW page \in Int, NEW bytes \in Nat \ {0}, NEW k \in Nat,
         h # Block(page, bytes, k), h \notin Range(Downto(page, bytes, k)),
         NEW m, NEW m1, Linked(m, h, Downto(page, bytes, k), m1),
         NEW m2, m2 = ps_list_ll_add(ps_list_ll_init(m1, Block(page, bytes, k)), h,
                                     Block(page, bytes, k))
  PROVE  Linked(m, h, Downto(page, bytes, k + 1), m2)
<1> DEFINE d == Downto(page, bytes, k)
           e == Downto(page, bytes, k + 1)
<1>1. PICK n \in Int : n = Block(page, bytes, k)
  BY BlocksDiffer
<1>2. /\ d \in Seq(Int) /\ Len(d) = k /\ IsInjective(d) /\ n \notin Range(d)
      /\ h \notin Range(d) /\ h # n
  BY <1>1, DowntoIsSeq
<1>3. Inserted(d, 0, n, e)
  BY <1>1, DowntoInserted
<1>4. Range(e) = Range(d) \cup {n}
  <2>1. /\ DOMAIN e = 1..(k + 1) /\ DOMAIN d = 1..k
        /\ \A j \in 1..(k + 1) : e[j] = IF j = 1 THEN n ELSE d[j - 1]
    BY <1>2, <1>3 DEF Inserted
  <2> HIDE DEF d, e
  <2>2. ASSUME NEW x \in Range(e) PROVE x \in Range(d) \cup {n}
    <3>1. PICK j \in 1..(k + 1) : x = e[j]
      BY <2>1 DEF Range
    <3>2. j # 1 => j - 1 \in 1..k
      OBVIOUS
    <3> QED
      BY <2>1, <3>1, <3>2 DEF Range
  <2>3. ASSUME NEW x \in Range(d) PROVE x \in Range(e)
    <3>1. PICK j \in 1..k : x = d[j]
      BY <2>1 DEF Range
    <3>2. j + 1 \in 1..(k + 1) /\ j + 1 # 1 /\ (j + 1) - 1 = j
      OBVIOUS
    <3> QED
      BY <2>1, <3>1, <3>2 DEF Range
  <2>4. n \in Range(e)
    <3>1. 1 \in 1..(k + 1)
      OBVIOUS
    <3> QED
      BY <2>1, <3>1 DEF Range
  <2> QED
    BY <2>2, <2>3, <2>4
<1> HIDE DEF d, e
<1>5. Proper(h, d) /\ Readable(m1) /\ Ring(m1, h, d)
  BY <1>2 DEF Proper, Linked, d
<1>6. PICK m0 : m0 = ps_list_ll_init(m1, n)
  OBVIOUS
<1>7. NodeInited(m1, n, m0)
  BY <1>5, <1>6, InitAt
<1>8. Readable(m0) /\ Ring(m0, h, d)
  <2>1. At(m0, h) = At(m1, h) /\ \A x \in Range(d) : At(m0, x) = At(m1, x)
    BY <1>2, <1>7, Zenon DEF NodeInited
  <2>2. Readable(m0)
    BY <1>7 DEF NodeInited
  <2> QED
    BY <1>5, <2>1, <2>2, RingElsewhere, Zenon
<1>9. /\ Readable(m2) /\ Ring(m2, h, e)
      /\ \A l : l # n /\ l # h /\ l \notin Range(d) => At(m2, l) = At(m0, l)
  <2>1. 0 \in 0..Len(d) /\ Stop(h, d, 0) = h
    BY <1>2 DEF Stop
  <2>2. m2 = ps_list_ll_add(m0, Stop(h, d, 0), n)
    BY <1>1, <1>6, <2>1
  <2> QED
    BY <1>2, <1>3, <1>5, <1>8, <2>1, <2>2, RingAfterAdd
<1>10. ASSUME NEW l, l # h, l \notin Range(e) PROVE At(m2, l) = At(m, l)
  <2>1. l # n /\ l \notin Range(d)
    BY <1>4, <1>10
  <2>2. At(m1, l) = At(m, l)
    BY <1>10, <2>1 DEF Linked, d
  <2>3. At(m0, l) = At(m1, l)
    BY <1>7, <2>1, Zenon DEF NodeInited
  <2> QED
    BY <1>9, <1>10, <2>1, <2>2, <2>3, Zenon
<1> QED
  BY <1>9, <1>10 DEF Linked, e

LEMMA CarveLinked ==
  ASSUME Readable(mem), NEW i \in Freelists, NEW page \in Int, list_head(i) \in Int,
         Ring(mem, list_head(i), <<>>),
         list_head(i) \notin Range(CarvedPage(page, PAGE_BYTES, pow2(i)))
  PROVE  Linked(mem, list_head(i), CarvedPage(page, PAGE_BYTES, pow2(i)), CarveLinks(i, page))
<1>1. PICK h \in Int, bytes \in BlockLengths : h = list_head(i) /\ bytes = pow2(i)
  BY BlockSizes, FreelistNumbers DEF BlockLengths
<1>2. PICK n, list : n = 4096 \div bytes /\ list = CarvedPage(page, 4096, bytes)
  OBVIOUS
<1>3. /\ n \in Nat /\ bytes \in Nat \ {0}
      /\ Downto(page, bytes, n) = list
      /\ \A j \in 0..n : j # n => Block(page, bytes, j) \in Range(list)
  <2>1. bytes \in Nat \ {0}
    BY DEF BlockLengths
  <2> QED
    BY <1>2, <2>1, DowntoCarved
<1>4. /\ h \notin Range(list) /\ Ring(mem, h, <<>>)
      /\ PAGE_BYTES \div pow2(i) = n /\ CarvedPage(page, PAGE_BYTES, pow2(i)) = list
  BY <1>1, <1>2 DEF PAGE_BYTES
<1>5. PICK links : Linking(h, page, bytes, n, links) /\ CarveLinks(i, page) = links[n]
  BY <1>1, <1>4, CarveLinksUnfold
<1>6. \A k \in 0..n :
        links[k] = IF k = 0 THEN mem
                   ELSE ps_list_ll_add(ps_list_ll_init(links[k - 1], Block(page, bytes, k - 1)), h,
                                       Block(page, bytes, k - 1))
  <2> SUFFICES ASSUME NEW k \in 0..n
               PROVE  links[k] = IF k = 0 THEN mem
                   ELSE ps_list_ll_add(ps_list_ll_init(links[k - 1], Block(page, bytes, k - 1)), h,
                                       Block(page, bytes, k - 1))
    OBVIOUS
  <2>1. links[k] = IF k = 0 THEN mem
                   ELSE ps_list_head_add(ps_list_init(links[k - 1], Block(page, bytes, k - 1)), h,
                                         Block(page, bytes, k - 1))
    BY <1>5, Zenon DEF Linking, Block
  <2>2. k - 1 \in Int /\ Block(page, bytes, k - 1) \in Int
    BY <1>3, BlocksDiffer
  <2>3. ps_list(Block(page, bytes, k - 1)) = Block(page, bytes, k - 1)
    BY <2>2, NoOffset
  <2> QED
    BY <2>1, <2>3, Zenon DEF ps_list_head_add, ps_list_init
<1> DEFINE G == {k \in 0..n : Linked(mem, h, Downto(page, bytes, k), links[k])}
<1>7. 0 \in G
  <2>1. links[0] = mem /\ 0 \in 0..n
    BY <1>3, <1>6
  <2>2. Downto(page, bytes, 0) = <<>>
    BY DEF Downto
  <2>3. Linked(mem, h, <<>>, mem)
    BY <1>4 DEF Linked
  <2> QED
    BY <2>1, <2>2, <2>3
<1>8. ASSUME NEW k \in 0..n, k # n, k \in G PROVE k + 1 \in G
  <2>1. Linked(mem, h, Downto(page, bytes, k), links[k]) /\ k \in Nat
    BY <1>8
  <2>2. k + 1 \in 0..n /\ k + 1 # 0 /\ (k + 1) - 1 = k
    BY <1>3, <1>8
  <2>3. links[k + 1] = ps_list_ll_add(ps_list_ll_init(links[k], Block(page, bytes, k)), h,
                                      Block(page, bytes, k))
    BY <1>6, <2>2, Zenon
  <2>4. h # Block(page, bytes, k)
    BY <1>3, <1>4, <1>8
  <2>5. h \notin Range(Downto(page, bytes, k))
    <3> SUFFICES ASSUME h \in Range(Downto(page, bytes, k)) PROVE FALSE
      OBVIOUS
    <3>1. PICK j \in 0..k : j # k /\ h = Block(page, bytes, j)
      <4>1. \A x \in Range(Downto(page, bytes, k)) : \E j \in 0..k : j # k /\ x = Block(page, bytes, j)
        BY <1>3, <2>1, DowntoIsSeq
      <4> QED
        BY <4>1
    <3>2. j \in 0..n /\ j # n
      BY <1>3, <1>8, <3>1
    <3> QED
      BY <1>3, <1>4, <3>1, <3>2
  <2>6. Linked(mem, h, Downto(page, bytes, k + 1), links[k + 1])
    BY <1>3, <2>1, <2>3, <2>4, <2>5, BlockLinked
  <2> QED
    BY <2>2, <2>6
<1>9. n \in G
  <2> HIDE DEF G
  <2>1. \A k \in 0..n : k # n /\ k \in G => k + 1 \in G
    BY <1>8
  <2>2. 0..n \subseteq G
    BY <1>3, <1>7, <2>1, IntervalInduction
  <2> QED
    BY <1>3, <2>2
<1>10. Linked(mem, h, list, links[n])
  BY <1>3, <1>9
<1> QED
  BY <1>1, <1>4, <1>5, <1>10, Zenon

--------------------------------------------------------------------------------
(***************************************************************************)
(* The scan of p2orderedinsert.                                            *)
(***************************************************************************)
\* The cursor of the scan over its first n steps.
Scanning(head, n, cursor) ==
  cursor = [k \in 0..n |-> IF k = 0 THEN ps_list_head_last(mem, head)
                           ELSE ps_list_prev(mem, cursor[k - 1])]

LEMMA ScanningExists ==
  ASSUME NEW head, NEW n \in Nat
  PROVE  \E cursor : Scanning(head, n, cursor)
<1> DEFINE G == {p \in 0..n : \E cursor : Scanning(head, p, cursor)}
<1>1. 0 \in G
  <2>1. PICK cursor : cursor = [k \in 0..0 |-> ps_list_head_last(mem, head)]
    OBVIOUS
  <2>2. Scanning(head, 0, cursor)
    BY <2>1 DEF Scanning
  <2> QED
    BY <2>2
<1>2. ASSUME NEW p \in 0..n, p # n, p \in G PROVE p + 1 \in G
  <2>1. PICK cursor : Scanning(head, p, cursor)
    BY <1>2
  <2>2. PICK x : x = ps_list_prev(mem, cursor[p])
    OBVIOUS
  <2>3. PICK longer : longer = [k \in 0..(p + 1) |-> IF k = p + 1 THEN x ELSE cursor[k]]
    OBVIOUS
  <2>4. ASSUME NEW k \in 0..(p + 1)
        PROVE  longer[k] = IF k = 0 THEN ps_list_head_last(mem, head)
                           ELSE ps_list_prev(mem, longer[k - 1])
    <3>1. CASE k = p + 1
      <4>1. longer[k] = x /\ k - 1 = p /\ k # 0 /\ longer[p] = cursor[p]
        BY <2>3, <3>1
      <4> QED
        BY <2>2, <4>1, Zenon
    <3>2. CASE k # p + 1
      <4>1. k \in 0..p /\ longer[k] = cursor[k]
        BY <2>3, <3>2
      <4>2. k # 0 => k - 1 \in 0..(p + 1) /\ k - 1 # p + 1 /\ longer[k - 1] = cursor[k - 1]
        BY <2>3, <3>2
      <4>3. cursor[k] = IF k = 0 THEN ps_list_head_last(mem, head)
                        ELSE ps_list_prev(mem, cursor[k - 1])
        BY <2>1, <4>1, Zenon DEF Scanning
      <4> QED
        BY <4>1, <4>2, <4>3, Zenon
    <3> QED
      BY <3>1, <3>2
  <2>5. longer = [k \in 0..(p + 1) |-> longer[k]]
    BY <2>3
  <2>6. Scanning(head, p + 1, longer)
    BY <2>4, <2>5 DEF Scanning
  <2>7. p + 1 \in 0..n
    BY <1>2
  <2> QED
    BY <2>6, <2>7
<1>3. n \in G
  <2> HIDE DEF G
  <2>1. \A k \in 0..n : k # n /\ k \in G => k + 1 \in G
    BY <1>2
  <2> QED
    BY <1>1, <2>1, IntervalInduction
<1> QED
  BY <1>3

LEMMA CursorUnfold == ASSUME NEW head PROVE Scanning(head, HeapEnd, Cursor(head))
<1> DEFINE cursor == CHOOSE f : Scanning(head, HeapEnd, f)
<1>1. HeapEnd \in Nat
  BY HeapNumbers
<1>2. Scanning(head, HeapEnd, cursor)
  BY <1>1, ScanningExists, Zenon
<1>3. Cursor(head) = cursor
  BY Zenon DEF Cursor, Scanning
<1> QED
  BY <1>2, <1>3, Zenon

\* The scan meets the stops of a list from the last one on.
LEMMA CursorStops ==
  ASSUME Readable(mem), NEW h, NEW seq, Proper(h, seq), Ring(mem, h, seq), Len(seq) <= HeapEnd
  PROVE  \A k \in 0..Len(seq) : Cursor(h)[k] = Stop(h, seq, Len(seq) - k)
<1>1. PICK cursor, n : cursor = Cursor(h) /\ n = Len(seq)
  OBVIOUS
<1>2. n \in Nat /\ HeapEnd \in Nat /\ n <= HeapEnd
  BY <1>1, HeapNumbers DEF Proper
<1>3. \A k \in 0..HeapEnd : cursor[k] = IF k = 0 THEN ps_list_head_last(mem, h)
                                        ELSE ps_list_prev(mem, cursor[k - 1])
  BY <1>1, CursorUnfold, Zenon DEF Scanning
<1>4. \A k \in 0..n : /\ At(mem, Stop(h, seq, k + 1)).previous = Stop(h, seq, k)
                      /\ Stop(h, seq, k) \in Int
  <2>1. \A k \in 0..n : k \in 0..(n + 1)
    BY <1>2
  <2> QED
    BY <1>1, <2>1, Stops, Zenon DEF Ring
<1>5. Stop(h, seq, n + 1) = h
  BY <1>1, Stops, Zenon
<1> DEFINE G == {k \in 0..n : cursor[k] = Stop(h, seq, n - k)}
<1>6. 0 \in G
  <2>1. n \in 0..n /\ 0 \in 0..n /\ 0 \in 0..HeapEnd /\ n - 0 = n
    BY <1>2
  <2>2. At(mem, h).previous = Stop(h, seq, n) /\ Stop(h, seq, n) \in Int
    BY <1>4, <1>5, <2>1, Zenon
  <2>3. cursor[0] = ps_list_head_last(mem, h)
    BY <1>3, <2>1, Zenon
  <2>4. ps_list_head_last(mem, h) = Stop(h, seq, n)
    BY <2>2, NoOffset DEF ps_list_head_last
  <2> QED
    BY <2>1, <2>3, <2>4
<1>7. ASSUME NEW k \in 0..n, k # n, k \in G PROVE k + 1 \in G
  <2>1. /\ k + 1 \in 0..n /\ k + 1 \in 0..HeapEnd /\ k + 1 # 0 /\ (k + 1) - 1 = k
        /\ n - (k + 1) \in 0..n /\ (n - (k + 1)) + 1 = n - k /\ n - k \in 0..n
    BY <1>2, <1>7
  <2>2. cursor[k + 1] = ps_list_prev(mem, Stop(h, seq, n - k))
    BY <1>3, <1>7, <2>1, Zenon
  <2>3. /\ At(mem, Stop(h, seq, n - k)).previous = Stop(h, seq, n - (k + 1))
        /\ Stop(h, seq, n - k) \in Int /\ Stop(h, seq, n - (k + 1)) \in Int
    BY <1>4, <2>1, Zenon
  <2>4. ps_list_prev(mem, Stop(h, seq, n - k)) = Stop(h, seq, n - (k + 1))
    BY <2>3, NoOffset DEF ps_list_prev
  <2> QED
    BY <2>1, <2>2, <2>4
<1>8. 0..n \subseteq G
  <2> HIDE DEF G
  <2>1. \A k \in 0..n : k # n /\ k \in G => k + 1 \in G
    BY <1>7
  <2> QED
    BY <1>2, <1>6, <2>1, IntervalInduction
<1>9. \A k \in 0..n : cursor[k] = Stop(h, seq, n - k)
  BY <1>8
<1> QED
  BY <1>1, <1>9, Zenon

\* A list without repetition is no longer than the heap.
LEMMA ListIsShort ==
  ASSUME NEW seq \in Seq(BlockAddrs), IsInjective(seq)
  PROVE  Len(seq) <= HeapEnd
<1>1. Len(seq) \in Nat /\ HeapEnd \in Nat /\ DOMAIN seq = 1..Len(seq)
  BY HeapNumbers
<1>2. \A k \in 1..Len(seq) : seq[k] \in 1..HeapEnd
  BY HeapNumbers, AddressRange
<1>3. seq \in [1..Len(seq) -> 1..HeapEnd]
  BY <1>2
<1>4. seq \in Injection(1..Len(seq), 1..HeapEnd)
  BY <1>3 DEF Injection
<1>5. /\ IsFiniteSet(1..HeapEnd) /\ Cardinality(1..HeapEnd) = HeapEnd
      /\ Cardinality(1..Len(seq)) = Len(seq)
  <2>1. \A b \in Nat : IsFiniteSet(1..b) /\ Cardinality(1..b) = b
    BY FS_Interval
  <2> QED
    BY <1>1, <2>1, Zenon
<1>6. Cardinality(1..Len(seq)) <= Cardinality(1..HeapEnd)
  BY <1>4, <1>5, FS_Injection
<1> QED
  BY <1>5, <1>6

\* The scan ends at the last node in front of which the new one does not sort.
LEMMA ScanFromStop ==
  ASSUME Readable(mem), NEW h, NEW seq, Proper(h, seq), Ring(mem, h, seq), Len(seq) <= HeapEnd,
         seq # <<>>, NEW node \in Int, NEW k, ScanStopsAt(seq, node, k)
  PROVE  ScanFrom(h, node) = Stop(h, seq, k)
<1>1. PICK cursor, n : cursor = Cursor(h) /\ n = Len(seq)
  OBVIOUS
<1>2. /\ n \in Nat /\ HeapEnd \in Nat /\ n <= HeapEnd /\ n >= 1
      /\ k \in Nat /\ k <= n
      /\ \A j \in (k + 1)..n : seq[j] > node
      /\ k > 0 => seq[k] <= node
      /\ \A j \in 1..n : seq[j] \in Int
  BY <1>1, HeapNumbers DEF Proper, ScanStopsAt
<1>3. \A j \in 0..n : cursor[j] = Stop(h, seq, n - j)
  BY <1>1, CursorStops, Zenon
<1>4. /\ \A j \in 0..n : At(mem, Stop(h, seq, j + 1)).previous = Stop(h, seq, j)
      /\ \A i, j \in 0..n : Stop(h, seq, i) = Stop(h, seq, j) => i = j
      /\ Stop(h, seq, 0) = h
  <2>1. \A j \in 0..n : At(mem, Stop(h, seq, j + 1)).previous = Stop(h, seq, j)
    BY <1>1, Zenon DEF Ring
  <2>2. /\ \A i, j \in 0..Len(seq) : Stop(h, seq, i) = Stop(h, seq, j) => i = j
        /\ Stop(h, seq, 0) = h
    BY Stops, Zenon
  <2> QED
    BY <1>1, <2>1, <2>2
<1>5. \A j \in 1..n : Stop(h, seq, j) = seq[j]
  BY <1>1 DEF Stop
<1>6. ASSUME NEW j \in 1..n
      PROVE  At(mem, Stop(h, seq, j)).previous = h <=> j = 1
  <2>1. j - 1 \in 0..n /\ 0 \in 0..n /\ (j - 1) + 1 = j
    BY <1>2
  <2>2. At(mem, Stop(h, seq, j)).previous = Stop(h, seq, j - 1)
    BY <1>4, <2>1, Zenon
  <2>3. Stop(h, seq, j - 1) = h <=> j - 1 = 0
    BY <1>4, <2>1, Zenon
  <2> QED
    BY <2>2, <2>3
<1>7. PICK e : e = IF k > 0 THEN k ELSE 1
  OBVIOUS
<1>8. e \in 1..n
  BY <1>2, <1>7
<1>9. ScanEnds(h, node, Stop(h, seq, e))
  <2>1. CASE k > 0
    BY <1>2, <1>5, <1>7, <1>8, <2>1 DEF ScanEnds
  <2>2. CASE ~(k > 0)
    BY <1>6, <1>7, <1>8, <2>2 DEF ScanEnds
  <2> QED
    BY <2>1, <2>2
<1>10. ASSUME NEW j \in 1..n, j > e PROVE ~ScanEnds(h, node, Stop(h, seq, j))
  <2>1. j \in (k + 1)..n /\ j # 1
    BY <1>2, <1>7, <1>10
  <2>2. seq[j] > node /\ ~(seq[j] <= node)
    BY <1>2, <2>1
  <2> QED
    BY <1>5, <1>6, <2>1, <2>2 DEF ScanEnds
<1> DEFINE First(j) == /\ ScanEnds(h, node, cursor[j])
                       /\ \A i \in 0..(j - 1) : ~ScanEnds(h, node, cursor[i])
<1>11. n - e \in 0..HeapEnd /\ n - e \in 0..n /\ n - (n - e) = e
  BY <1>2, <1>8
<1>12. First(n - e)
  <2>1. ScanEnds(h, node, cursor[n - e])
    BY <1>3, <1>9, <1>11
  <2>2. ASSUME NEW i \in 0..((n - e) - 1) PROVE ~ScanEnds(h, node, cursor[i])
    <3>1. i \in 0..n /\ n - i \in 1..n /\ n - i > e
      BY <1>2, <1>8
    <3> QED
      BY <1>3, <1>10, <3>1
  <2> QED
    BY <2>1, <2>2
<1>13. ASSUME NEW j \in 0..HeapEnd, First(j) PROVE j = n - e
  <2>1. CASE j < n - e
    <3>1. j \in 0..n /\ j \in 0..((n - e) - 1)
      BY <1>2, <1>8, <2>1
    <3> QED
      BY <1>12, <1>13, <3>1
  <2>2. CASE j > n - e
    <3>1. n - e \in 0..(j - 1)
      BY <1>2, <1>8, <2>2
    <3> QED
      BY <1>12, <1>13, <3>1
  <2>3. j < n - e \/ j = n - e \/ j > n - e
    BY <1>2, <1>8
  <2> QED
    BY <2>1, <2>2, <2>3
<1> HIDE DEF First
<1>14. (CHOOSE j \in 0..HeapEnd : First(j)) = n - e
  BY <1>11, <1>12, <1>13
<1>15. LastCursor(h, node) = cursor[CHOOSE j \in 0..HeapEnd : First(j)]
  BY <1>1, Zenon DEF LastCursor, First
<1>16. LastCursor(h, node) = seq[e]
  BY <1>3, <1>5, <1>8, <1>11, <1>14, <1>15
<1>17. CASE k > 0
  <2>1. e = k /\ seq[k] <= node
    BY <1>2, <1>7, <1>17
  <2> QED
    BY <1>5, <1>8, <1>16, <2>1, Zenon DEF ScanFrom
<1>18. CASE ~(k > 0)
  <2>1. k = 0 /\ e = 1 /\ e \in (k + 1)..n
    BY <1>2, <1>7, <1>18
  <2>2. ~(seq[e] <= node)
    BY <1>2, <1>8, <2>1
  <2> QED
    BY <1>4, <1>16, <2>1, <2>2, Zenon DEF ScanFrom
<1> QED
  BY <1>17, <1>18

LEMMA OrderedInsertRing ==
  ASSUME Readable(mem), NEW h, NEW seq, Proper(h, seq), Ring(mem, h, seq), Len(seq) <= HeapEnd,
         NEW node \in Int, node # h, node \notin Range(seq),
         NEW k, ScanStopsAt(seq, node, k),
         NEW m2, m2 = p2orderedinsert(node, h)
  PROVE  /\ Readable(m2)
         /\ Ring(m2, h, OrderedInsert(seq, node, k))
         /\ \A l : l # node /\ l # h /\ l \notin Range(seq) => At(m2, l) = At(mem, l)
<1>1. /\ seq \in Seq(Int) /\ Len(seq) \in Nat /\ k \in 0..Len(seq)
  BY DEF Proper, ScanStopsAt
<1>2. Inserted(seq, k, node, OrderedInsert(seq, node, k))
  <2> DEFINE S   == Int
             new == OrderedInsert(seq, node, k)
  <2>1. seq \in Seq(S) /\ node \in S /\ k \in 0..Len(seq)
    BY <1>1
  <2> HIDE DEF S
  <2>2. new \in Seq(S) /\ Len(new) = Len(seq) + 1
    BY <2>1, InsertPositions
  <2>3. \A j \in 1..Len(new) : new[j] = IF j <= k THEN seq[j]
                                      ELSE IF j = k + 1 THEN node ELSE seq[j - 1]
    BY <2>1, InsertPositions
  <2> QED
    BY <2>2, <2>3, Zenon DEF Inserted, S
<1>3. /\ Stop(h, seq, 0) = h /\ Stop(h, seq, Len(seq) + 1) = h
      /\ \A i, j \in 0..Len(seq) : Stop(h, seq, i) = Stop(h, seq, j) => i = j
  BY Stops, Zenon
<1>4. ps_list(node) = node
  BY NoOffset
<1>5. m2 = ps_list_ll_add(mem, Stop(h, seq, k), node)
  <2>1. CASE seq = <<>>
    <3>1. k = 0 /\ Len(seq) = 0 /\ 0 \in 0..Len(seq) /\ 0 + 1 = 1
      BY <1>1, <2>1
    <3>2. Stop(h, seq, 0 + 1) = h
      BY <1>3, <3>1
    <3>3. At(mem, h).next = h /\ At(mem, h).previous = h
      BY <1>3, <3>1, <3>2, Zenon DEF Ring
    <3>4. ps_list_head_empty(mem, h)
      BY <3>3 DEF ps_list_head_empty, ps_list_ll_empty
    <3> QED
      BY <1>3, <1>4, <3>1, <3>3, <3>4, Zenon DEF p2orderedinsert, ps_list_head_append
  <2>2. CASE seq # <<>>
    <3>1. 0 \in 0..Len(seq) /\ 1 \in 0..Len(seq) /\ 0 # 1 /\ 0 + 1 = 1
      BY <1>1, <2>2
    <3>2. At(mem, h).next = Stop(h, seq, 1) /\ Stop(h, seq, 1) # h
      BY <1>3, <3>1, Zenon DEF Ring
    <3>3. ~ps_list_head_empty(mem, h)
      BY <3>2 DEF ps_list_head_empty, ps_list_ll_empty
    <3>4. ScanFrom(h, node) = Stop(h, seq, k)
      BY <2>2, ScanFromStop
    <3> QED
      BY <1>4, <3>3, <3>4, Zenon DEF p2orderedinsert
  <2> QED
    BY <2>1, <2>2
<1> QED
  BY <1>1, <1>2, <1>5, RingAfterAdd

--------------------------------------------------------------------------------
(***************************************************************************)
(* Where things lie: heads, nodes and headers are apart.                   *)
(***************************************************************************)
LEMMA HeadsApart ==
  ASSUME array \in ArrayPlaces
  PROVE  /\ \A i \in Freelists : /\ list_head(i) \in Int /\ list_head(i) \notin BlockAddrs
                                 /\ list_head(i) < 4096 \/ HeapEnd <= list_head(i)
         /\ \A i, j \in Freelists : list_head(i) = list_head(j) => i = j
<1>1. /\ array \in Nat /\ HeapEnd \in Nat
      /\ array + 512 <= 4096 \/ HeapEnd <= array
  BY ArrayAssumption, HeapNumbers DEF NUM_FREELISTS, HEAD_BYTES
<1>2. \A i \in Freelists : list_head(i) = array + i * 64 + 8 /\ i \in 0..7
  BY FreelistNumbers DEF list_head, HEAD_BYTES, HEAD_OFFSET
<1>3. ASSUME NEW i \in Freelists
      PROVE  /\ list_head(i) \in Int
             /\ list_head(i) < 4096 \/ HeapEnd <= list_head(i)
  BY <1>1, <1>2
<1>4. ASSUME NEW i \in Freelists PROVE list_head(i) \notin BlockAddrs
  BY <1>1, <1>3, AddressRange
<1>5. \A i, j \in Freelists : list_head(i) = list_head(j) => i = j
  BY <1>1, <1>2
<1> QED
  BY <1>3, <1>4, <1>5

LEMMA ListsApart ==
  ASSUME HeapInv
  PROVE  /\ \A i \in Freelists : /\ freelists[i] \in Seq(BlockAddrs) /\ freelists[i] \in Seq(Int)
                                 /\ Range(freelists[i]) \subseteq BlockAddrs
                                 /\ IsInjective(freelists[i])
         /\ \A i, j \in Freelists : \A x \in Range(freelists[i]) : x \in Range(freelists[j]) => i = j
         /\ \A i \in Freelists : \A x \in Range(freelists[i]) : x \notin DOMAIN hdr
<1>1. ASSUME NEW i \in Freelists
      PROVE  /\ freelists[i] \in Seq(BlockAddrs) /\ freelists[i] \in Seq(Int)
             /\ Range(freelists[i]) \subseteq BlockAddrs
             /\ IsInjective(freelists[i])
  <2>1. freelists[i] \in Seq(BlockAddrs)
    BY DEF HeapInv, TypeOK
  <2>2. \A b \in BlockAddrs : b \in Int
    BY AddressRange
  <2>3. freelists[i] \in Seq(Int)
    <3> DEFINE s == freelists[i]
    <3>1. Len(s) \in Nat /\ s = [k \in 1..Len(s) |-> s[k]] /\ \A k \in 1..Len(s) : s[k] \in BlockAddrs
      BY <2>1
    <3>2. \A k \in 1..Len(s) : s[k] \in Int
      BY <2>2, <3>1
    <3> HIDE DEF s
    <3>3. s \in Seq(Int)
      BY <3>1, <3>2
    <3> QED
      BY <3>3 DEF s
  <2>4. Range(freelists[i]) \subseteq BlockAddrs
    BY <2>1 DEF Range
  <2>5. IsInjective(freelists[i])
    BY DEF HeapInv, ChunksInv
  <2> QED
    BY <2>1, <2>3, <2>4, <2>5
<1>2. ASSUME NEW c \in Chunks, NEW d \in Chunks, c.base = d.base PROVE c = d
  <2>1. c = d \/ Disjoint(c, d)
    BY DEF HeapInv, ChunksInv, Apart
  <2>2. c.bytes \in Nat \ {0} /\ d.bytes \in Nat \ {0} /\ c.base \in Nat /\ d.base \in Nat
    BY AddressRange DEF HeapInv, ChunksInv, Placed
  <2> QED
    BY <1>2, <2>1, <2>2 DEF Disjoint
<1>3. ASSUME NEW i \in Freelists, NEW x \in Range(freelists[i])
      PROVE  /\ Chunk("list", i, x, pow2(i)) \in Chunks
             /\ Chunk("list", i, x, pow2(i)).base = x
             /\ Chunk("list", i, x, pow2(i)).of = i
             /\ Chunk("list", i, x, pow2(i)).kind = "list"
  BY DEF Chunks, FreeChunks, Chunk
<1>4. ASSUME NEW b \in DOMAIN hdr
      PROVE  /\ Chunk("header", NoThread, b, BlockBytes(hdr[b])) \in Chunks
             /\ Chunk("header", NoThread, b, BlockBytes(hdr[b])).base = b
             /\ Chunk("header", NoThread, b, BlockBytes(hdr[b])).kind = "header"
  BY DEF Chunks, UsedChunks, Chunk
<1>5. ASSUME NEW i \in Freelists, NEW j \in Freelists, NEW x \in Range(freelists[i]),
             x \in Range(freelists[j])
      PROVE  i = j
  BY <1>2, <1>3, <1>5
<1>6. ASSUME NEW i \in Freelists, NEW x \in Range(freelists[i]), x \in DOMAIN hdr PROVE FALSE
  <2>1. PICK c \in Chunks : c.base = x /\ c.kind = "list"
    BY <1>3
  <2>2. PICK d \in Chunks : d.base = x /\ d.kind = "header"
    BY <1>4, <1>6
  <2> QED
    BY <1>2, <2>1, <2>2
<1> QED
  BY <1>1, <1>5, <1>6

LEMMA ListsProper ==
  ASSUME HeapInv, array \in ArrayPlaces
  PROVE  \A i \in Freelists : Proper(list_head(i), freelists[i]) /\ Len(freelists[i]) <= HeapEnd
  BY HeadsApart, ListsApart, ListIsShort DEF Proper

\* The bytes a thread has in hand hold neither a free block nor a block in use.
LEMMA InHandApart ==
  ASSUME HeapInv, NEW t \in Threads, InHand(t) # 0,
         NEW x, x \in DOMAIN hdr \/ \E i \in Freelists : x \in Range(freelists[i])
  PROVE  x < call[t].blk \/ call[t].blk + InHand(t) <= x
<1> DEFINE c == Chunk("thread", t, call[t].blk, InHand(t))
<1>1. c \in Chunks /\ c.kind = "thread" /\ c.base = call[t].blk /\ c.bytes = InHand(t)
  BY DEF Chunks, HandChunks, Chunk
<1>2. \E d \in Chunks : d.kind # "thread" /\ d.base = x
  <2>1. CASE x \in DOMAIN hdr
    <3>1. Chunk("header", NoThread, x, BlockBytes(hdr[x])) \in Chunks
      BY <2>1 DEF Chunks, UsedChunks
    <3> QED
      BY <3>1 DEF Chunk
  <2>2. CASE \E i \in Freelists : x \in Range(freelists[i])
    <3>1. PICK i \in Freelists : x \in Range(freelists[i])
      BY <2>2
    <3>2. Chunk("list", i, x, pow2(i)) \in Chunks
      BY <3>1 DEF Chunks, FreeChunks
    <3> QED
      BY <3>2 DEF Chunk
  <2> QED
    BY <2>1, <2>2
<1> HIDE DEF c
<1>3. PICK d \in Chunks : d.kind # "thread" /\ d.base = x
  BY <1>2
<1>4. Disjoint(c, d)
  BY <1>1, <1>3 DEF HeapInv, ChunksInv, Apart
<1>5. /\ d.bytes \in Nat \ {0} /\ c.bytes \in Nat \ {0}
      /\ d.base \in Nat /\ c.base \in Nat
  BY <1>1, AddressRange DEF HeapInv, ChunksInv, Placed
<1> QED
  BY <1>1, <1>3, <1>4, <1>5 DEF Disjoint

--------------------------------------------------------------------------------
(***************************************************************************)
(* The inductive invariant.                                                *)
(***************************************************************************)
\* The initialisation has linked the heads to themselves.
AllLinked == init_state = 2 \/ \E t \in Threads : pc[t] = "init_ready"

\* A call that will write the header of a block from a list, and before.
UnsizedWay == SlabWay \cup {"ensure_init", "freelists_init", "init_ready", "init_spin"}

Unsized == \A t \in Threads : pc[t] \in UnsizedWay => call[t].alloc_size = 0

Rings == \A i \in Freelists : Ring(mem, list_head(i), freelists[i])

LinkInv ==
  /\ Readable(mem)
  /\ array \in ArrayPlaces
  /\ Unsized
  /\ HeadersIntact
  /\ AllLinked => Rings

\* Where a step leads, as far as the links depend on it.
Leads(t) ==
  /\ \A u \in Threads \ {t} : pc'[u] = pc[u] /\ call'[u] = call[u]
  /\ pc'[t] = "init_ready" => pc[t] = "freelists_init"
  /\ pc'[t] \in UnsizedWay /\ (pc[t] \in UnsizedWay => call[t].alloc_size = 0)
       => call'[t].alloc_size = 0
  /\ init_state' = init_state \/ init_state' = 1 \/ pc[t] = "init_ready"

LEMMA NewCallLeads ==
  ASSUME TypeOK, NEW t \in Threads, NEW c \in Calls, c.alloc_size = 0, NEW l \in Labels,
         l # "init_ready",
         pc' = [pc EXCEPT ![t] = l], call' = [call EXCEPT ![t] = c], init_state' = init_state
  PROVE  Leads(t)
  BY DEF Leads, TypeOK

LEMMA MoveLeads ==
  ASSUME TypeOK, NEW t \in Threads, NEW l \in Labels,
         l = "init_ready" => pc[t] = "freelists_init",
         pc' = [pc EXCEPT ![t] = l],
         \A u \in Threads \ {t} : call'[u] = call[u],
         l \in UnsizedWay => pc[t] \in UnsizedWay /\ call'[t].alloc_size = call[t].alloc_size,
         init_state' = init_state \/ init_state' = 1 \/ pc[t] = "init_ready"
  PROVE  Leads(t)
  BY DEF Leads, TypeOK

LEMMA EnterLeads ==
  ASSUME TypeOK, NEW t \in Threads, NEW op \in {"malloc", "calloc", "free", "realloc"},
         NEW ptr \in Pointers \cup {NULL}, NEW size \in SizeT,
         EnterMalloc(t, NewCall(op, ptr, size)), init_state' = init_state
  PROVE  Leads(t)
<1>1. PICK c \in Calls : c = NewCall(op, ptr, size) /\ c.alloc_size = 0
  BY NewCallFields DEF NewCall
<1>2. PICK l \in {"done", "ensure_init"} : pc' = [pc EXCEPT ![t] = l]
  BY DEF EnterMalloc, Goto
<1>3. call' = [call EXCEPT ![t] = c]
  BY <1>1 DEF EnterMalloc
<1>4. l \in Labels /\ l # "init_ready"
  BY DEF Labels
<1> QED
  BY <1>1, <1>2, <1>3, <1>4, NewCallLeads

LEMMA CallLeads ==
  ASSUME TypeOK, NEW t \in Threads, Call(t)
  PROVE  Leads(t)
<1>1. ASSUME NEW size \in MallocSizes, p2malloc(t, size) PROVE Leads(t)
  <2>1. size \in SizeT /\ NULL \in Pointers \cup {NULL}
    BY ClientAssumption
  <2> QED
    BY <1>1, <2>1, EnterLeads DEF p2malloc, shared
<1>2. ASSUME NEW nmemb \in SizeT, NEW size \in SizeT, p2calloc(t, nmemb, size) PROVE Leads(t)
  <2>1. init_state' = init_state
    BY <1>2 DEF p2calloc, shared
  <2>2. CASE nmemb = 0 \/ size = 0 \/ CallocOverflows(nmemb, size)
    <3>1. PICK c \in Calls : c = NewCall("calloc", NULL, 0) /\ c.alloc_size = 0
      <4>1. 0 \in SizeT
        BY PlatformAssumption DEF SizeT
      <4>2. PICK c : c = NewCall("calloc", NULL, 0)
        OBVIOUS
      <4>3. c \in Calls
        BY <4>1, <4>2, NewCallFields
      <4> QED
        BY <4>2, <4>3 DEF NewCall
    <3>2. pc' = [pc EXCEPT ![t] = "done"] /\ call' = [call EXCEPT ![t] = c]
      BY <1>2, <2>2, <3>1 DEF p2calloc, Goto
    <3>3. "done" \in Labels /\ "done" # "init_ready"
      BY DEF Labels
    <3> QED
      BY <2>1, <3>1, <3>2, <3>3, NewCallLeads
  <2>3. CASE ~(nmemb = 0 \/ size = 0 \/ CallocOverflows(nmemb, size))
    <3>1. EnterMalloc(t, NewCall("calloc", NULL, Wrap(nmemb * size)))
      BY <1>2, <2>3, Zenon DEF p2calloc
    <3>2. Wrap(nmemb * size) \in SizeT
      <4>1. nmemb * size \in Int
        BY DEF SizeT
      <4> QED
        BY <4>1, WrapType
    <3> QED
      BY <2>1, <3>1, <3>2, EnterLeads
  <2> QED
    BY <2>2, <2>3
<1>3. ASSUME NEW ptr \in live, p2free(t, ptr) PROVE Leads(t)
  <2>1. ptr \in Pointers /\ HdrOf(ptr) \in BlockAddrs
    BY PointerOfBlock DEF TypeOK
  <2>2. PICK d : d = NewCall("free", ptr, 0)
    OBVIOUS
  <2>3. d \in Calls /\ d.alloc_size = 0
    <3>1. 0 \in SizeT
      BY PlatformAssumption DEF SizeT
    <3> QED
      BY <2>1, <2>2, <3>1, NewCallFields DEF NewCall
  <2>4. PICK c : c = [d EXCEPT !.blk = HdrOf(ptr)]
    OBVIOUS
  <2>5. c \in Calls /\ c.alloc_size = 0
    BY <2>1, <2>3, <2>4 DEF Calls
  <2>6. pc' = [pc EXCEPT ![t] = "free"] /\ call' = [call EXCEPT ![t] = c] /\ init_state' = init_state
    BY <1>3, <2>2, <2>4 DEF p2free, Goto
  <2>7. "free" \in Labels /\ "free" # "init_ready"
    BY DEF Labels
  <2> QED
    BY <2>5, <2>6, <2>7, NewCallLeads
<1>4. ASSUME NEW ptr \in live \cup {NULL}, NEW size \in ReallocSizes, p2realloc(t, ptr, size)
      PROVE  Leads(t)
  <2>1. size \in SizeT /\ ptr \in Pointers \cup {NULL}
    BY ClientAssumption DEF TypeOK
  <2>2. init_state' = init_state
    BY <1>4 DEF p2realloc
  <2>3. PICK d : d = NewCall("realloc", ptr, size)
    OBVIOUS
  <2>4. d \in Calls /\ d.alloc_size = 0
    BY <2>1, <2>3, NewCallFields DEF NewCall
  <2>5. CASE EnterMalloc(t, d)
    BY <2>1, <2>2, <2>3, <2>5, EnterLeads
  <2>6. CASE ptr # NULL /\ call' = [call EXCEPT ![t] = [d EXCEPT !.blk = HdrOf(ptr)]] /\ Goto(t, "free")
    <3>1. HdrOf(ptr) \in BlockAddrs
      BY <2>1, <2>6, PointerOfBlock
    <3>2. PICK c : c = [d EXCEPT !.blk = HdrOf(ptr)]
      OBVIOUS
    <3>3. c \in Calls /\ c.alloc_size = 0
      BY <2>4, <3>1, <3>2 DEF Calls
    <3>4. "free" \in Labels /\ "free" # "init_ready"
      BY DEF Labels
    <3> QED
      BY <2>2, <2>6, <3>2, <3>3, <3>4, NewCallLeads DEF Goto
  <2>7. CASE call' = [call EXCEPT ![t] = [d EXCEPT !.ret = ptr]] /\ Goto(t, "realloc_sub")
    <3>1. PICK c : c = [d EXCEPT !.ret = ptr]
      OBVIOUS
    <3>2. c \in Calls /\ c.alloc_size = 0
      BY <2>1, <2>4, <3>1 DEF Calls
    <3>3. "realloc_sub" \in Labels /\ "realloc_sub" # "init_ready"
      BY DEF Labels
    <3> QED
      BY <2>2, <2>7, <3>1, <3>2, <3>3, NewCallLeads DEF Goto
  <2> QED
    BY <1>4, <2>3, <2>5, <2>6, <2>7 DEF p2realloc
<1> QED
  <2>1. \A args \in CallocArgs : args[1] \in SizeT /\ args[2] \in SizeT
    BY ClientAssumption
  <2> QED
    BY <1>1, <1>2, <1>3, <1>4, <2>1 DEF Call

LEMMA StepLeads ==
  ASSUME TypeOK, NEW t \in Threads, Step(t)
  PROVE  Leads(t)
<1> DEFINE c == call[t]
<1>1. \A l \in {"freelists_init", "init_spin", "init_ready", "os_alloc", "lock", "add_allocated",
                "add_totmem", "check", "pop", "carve", "write_header", "free", "free_totmem",
                "free_unmap", "free_lock", "aborted", "free_insert", "done", "zero_payload",
                "copy_payload", "realloc_add", "idle"} : l \in Labels
  BY DEF Labels
<1>2. ASSUME NEW p, Resume(t, p), init_state' = init_state PROVE Leads(t)
  <2>1. PICK l \in {"done", "zero_payload", "copy_payload"} : pc' = [pc EXCEPT ![t] = l]
    BY <1>2 DEF Resume, Goto, AfterMalloc
  <2>2. \A u \in Threads \ {t} : call'[u] = call[u]
    BY <1>2 DEF Resume, TypeOK
  <2> QED
    BY <1>1, <1>2, <2>1, <2>2, MoveLeads DEF UnsizedWay, SlabWay
<1>3. ASSUME pc[t] \in UnsizedWay, Dispatch(t), init_state' = init_state \/ pc[t] = "init_ready"
      PROVE  Leads(t)
  <2>1. PICK l \in {"os_alloc", "lock"} : pc' = [pc EXCEPT ![t] = l]
    BY <1>3 DEF Dispatch, Goto
  <2>2. call' = call \/ call' = [call EXCEPT ![t].idx = get_freelist_idx(c.size)]
    BY <1>3 DEF Dispatch
  <2>3. /\ \A u \in Threads \ {t} : call'[u] = call[u]
        /\ call'[t].alloc_size = c.alloc_size
    BY <2>2 DEF TypeOK, Calls
  <2> QED
    BY <1>1, <1>3, <2>1, <2>3, MoveLeads
<1>4. CASE CompareAndSwap(t)
  BY <1>1, <1>4, MoveLeads DEF CompareAndSwap, Goto, UnsizedWay
<1>5. CASE freelists_init(t)
  BY <1>1, <1>5, MoveLeads DEF freelists_init, Move, Goto, UnsizedWay
<1>6. CASE InitReady(t) \/ SpinEnds(t)
  BY <1>3, <1>6 DEF InitReady, SpinEnds, shared, UnsizedWay
<1>7. CASE Spin(t)
  BY <1>7 DEF Spin, vars, Leads, TypeOK
<1>8. CASE LargeAllocFails(t) \/ LargeAddTotmem(t) \/ ClaimPageFails(t) \/ WriteHeader(t)
  BY <1>2, <1>8 DEF LargeAllocFails, LargeAddTotmem, ClaimPageFails, WriteHeader, shared
<1>9. CASE LargeAlloc(t)
  <2>1. \A u \in Threads \ {t} : call'[u] = call[u]
    BY <1>9 DEF LargeAlloc, TypeOK
  <2> QED
    BY <1>1, <1>9, <2>1, MoveLeads DEF LargeAlloc, Move, Goto, UnsizedWay, SlabWay
<1>10. CASE LargeAddAllocated(t) \/ SubTotmem(t) \/ Unmap(t) \/ FreeLock(t) \/ FreeInsert(t)
            \/ ZeroPayload(t) \/ ResizeSub(t) \/ ResizeAdd(t)
  <2>1. call' = call /\ init_state' = init_state
    BY <1>10 DEF LargeAddAllocated, SubTotmem, Unmap, FreeLock, Acquire, FreeInsert, ZeroPayload,
       ResizeSub, ResizeAdd, shared
  <2>2. PICK l \in {"add_totmem", "free_unmap", "done", "free_insert", "realloc_add"} :
               pc' = [pc EXCEPT ![t] = l]
    BY <1>10 DEF LargeAddAllocated, SubTotmem, Unmap, FreeLock, Acquire, FreeInsert, ZeroPayload,
       ResizeSub, ResizeAdd, Move, Goto
  <2> QED
    BY <1>1, <2>1, <2>2, MoveLeads DEF UnsizedWay, SlabWay
<1>11. CASE SlabLock(t) \/ ListHasBlock(t) \/ CarvePage(t)
  <2>1. call' = call /\ init_state' = init_state /\ pc[t] \in UnsizedWay
    BY <1>11 DEF SlabLock, Acquire, ListHasBlock, CarvePage, Move, shared, UnsizedWay, SlabWay
  <2>2. PICK l \in {"check", "pop"} : pc' = [pc EXCEPT ![t] = l]
    BY <1>11 DEF SlabLock, Acquire, ListHasBlock, CarvePage, Move, Goto
  <2> QED
    BY <1>1, <2>1, <2>2, MoveLeads
<1>12. CASE ClaimPage(t) \/ TakeFirst(t)
  <2>1. /\ init_state' = init_state /\ pc[t] \in UnsizedWay
        /\ \E x : call' = [call EXCEPT ![t].blk = x]
    BY <1>12 DEF ClaimPage, TakeFirst, Move, UnsizedWay, SlabWay
  <2>2. PICK l \in {"carve", "write_header"} : pc' = [pc EXCEPT ![t] = l]
    BY <1>12 DEF ClaimPage, TakeFirst, Move, Goto
  <2>3. PICK x : call' = [call EXCEPT ![t].blk = x]
    BY <2>1
  <2>4. /\ \A u \in Threads \ {t} : call'[u] = call[u]
        /\ call'[t].alloc_size = c.alloc_size
    BY <2>3 DEF TypeOK, Calls
  <2> QED
    BY <1>1, <2>1, <2>2, <2>4, MoveLeads
<1>13. CASE FreeLarge(t) \/ FreeSlab(t) \/ CopyPayload(t) \/ Return(t)
  <2>1. init_state' = init_state
    BY <1>13 DEF FreeLarge, FreeSlab, CopyPayload, Return, shared
  <2>2. \A u \in Threads \ {t} : call'[u] = call[u]
    BY <1>13 DEF FreeLarge, FreeSlab, CopyPayload, Return, TypeOK
  <2>3. PICK l \in {"free_totmem", "free_lock", "aborted", "free", "idle"} : pc' = [pc EXCEPT ![t] = l]
    BY <1>13 DEF FreeLarge, FreeSlab, CopyPayload, Return, Move, Goto
  <2> QED
    BY <1>1, <2>1, <2>2, <2>3, MoveLeads DEF UnsizedWay, SlabWay
<1> QED
  BY <1>4, <1>5, <1>6, <1>7, <1>8, <1>9, <1>10, <1>11, <1>12, <1>13 DEF Step

LEMMA UnsizedAfter ==
  ASSUME Unsized, NEW t \in Threads, Leads(t)
  PROVE  Unsized'
<1> SUFFICES ASSUME NEW u \in Threads, pc'[u] \in UnsizedWay PROVE call'[u].alloc_size = 0
  BY DEF Unsized, UnsizedWay, SlabWay
<1> QED
  BY DEF Unsized, Leads

LEMMA AllLinkedAfter ==
  ASSUME NEW t \in Threads, Leads(t), pc[t] # "freelists_init", AllLinked'
  PROVE  AllLinked
  BY DEF AllLinked, Leads

\* Only five actions touch headers; two of them remove one.
LEMMA HeadersKept ==
  ASSUME NEW t \in Threads, Call(t) \/ Step(t), pc[t] \notin WritingLabels
  PROVE  /\ UNCHANGED freelists
         /\ DOMAIN hdr' \subseteq DOMAIN hdr
         /\ \A b \in DOMAIN hdr' : hdr'[b] = hdr[b]
<1>1. UNCHANGED freelists
  <2>1. ~ (freelists_init(t) \/ CarvePage(t) \/ TakeFirst(t) \/ FreeInsert(t))
    BY DEF freelists_init, CarvePage, TakeFirst, FreeInsert, Move, WritingLabels
  <2> QED
    BY <2>1, ListsKept
<1>2. hdr' = hdr \/ \E x : hdr' = WithoutHeader(x)
  <2>1. CASE Call(t)
    BY <2>1 DEF Call, p2malloc, p2calloc, p2free, p2realloc, shared
  <2>2. CASE CompareAndSwap(t) \/ InitReady(t) \/ Spin(t) \/ SpinEnds(t) \/ freelists_init(t)
    BY <2>2 DEF CompareAndSwap, InitReady, Spin, SpinEnds, freelists_init, shared, vars
  <2>3. CASE LargeAlloc(t) \/ LargeAllocFails(t) \/ LargeAddAllocated(t) \/ LargeAddTotmem(t)
    BY <2>3 DEF LargeAlloc, LargeAllocFails, LargeAddAllocated, LargeAddTotmem, shared, Move,
       WritingLabels
  <2>4. CASE \/ SlabLock(t) \/ ListHasBlock(t) \/ ClaimPage(t) \/ ClaimPageFails(t)
             \/ CarvePage(t) \/ TakeFirst(t) \/ WriteHeader(t) \/ FreeLock(t) \/ FreeInsert(t)
    BY <2>4 DEF SlabLock, FreeLock, Acquire, ListHasBlock, ClaimPage, ClaimPageFails, CarvePage,
       TakeFirst, WriteHeader, FreeInsert, shared, WritingLabels
  <2>5. CASE FreeLarge(t) \/ SubTotmem(t) \/ Unmap(t) \/ FreeSlab(t)
    BY <2>5 DEF FreeLarge, SubTotmem, Unmap, FreeSlab
  <2>6. CASE ZeroPayload(t) \/ CopyPayload(t) \/ ResizeSub(t) \/ ResizeAdd(t) \/ Return(t)
    BY <2>6 DEF ZeroPayload, CopyPayload, ResizeSub, ResizeAdd, Return, shared, Move, WritingLabels
  <2> QED
    BY <2>1, <2>2, <2>3, <2>4, <2>5, <2>6 DEF Step
<1> QED
  BY <1>1, <1>2 DEF WithoutHeader

LEMMA IntactHeader ==
  ASSUME HeadersIntact, NEW b \in DOMAIN hdr
  PROVE  At(mem, b) = Words(hdr[b].size, hdr[b].alloc_size)
  BY DEF HeadersIntact

\* A step that writes to the places W and nowhere else.
LEMMA LinkAfter ==
  ASSUME HeapInv, LinkInv, NEW t \in Threads, Leads(t), pc[t] # "freelists_init",
         array' = array, NEW W, Readable(mem'),
         \A l : l \notin W => At(mem', l) = At(mem, l),
         \A b \in DOMAIN hdr' : \/ b \in DOMAIN hdr /\ hdr'[b] = hdr[b] /\ b \notin W
                                \/ At(mem', b) = Words(hdr'[b].size, hdr'[b].alloc_size),
         \A i \in Freelists :
           \/ /\ freelists'[i] = freelists[i]
              /\ list_head(i) \notin W /\ \A x \in Range(freelists[i]) : x \notin W
           \/ Rings => Ring(mem', list_head(i), freelists'[i])
  PROVE  LinkInv'
<1>1. \A i : list_head(i)' = list_head(i)
  BY DEF list_head
<1>2. ASSUME NEW b \in DOMAIN hdr' PROVE At(mem', b) = Words(hdr'[b].size, hdr'[b].alloc_size)
  <2>1. CASE b \in DOMAIN hdr /\ hdr'[b] = hdr[b] /\ b \notin W
    <3>1. At(mem, b) = Words(hdr[b].size, hdr[b].alloc_size)
      BY <2>1, IntactHeader DEF LinkInv
    <3>2. At(mem', b) = At(mem, b)
      BY <2>1, Zenon
    <3> QED
      BY <2>1, <3>1, <3>2, Zenon
  <2> QED
    BY <2>1, Zenon
<1>3. ASSUME AllLinked', NEW i \in Freelists PROVE Ring(mem', list_head(i), freelists'[i])
  <2>1. Rings
    BY <1>3, AllLinkedAfter DEF LinkInv
  <2>2. CASE /\ freelists'[i] = freelists[i]
             /\ list_head(i) \notin W /\ \A x \in Range(freelists[i]) : x \notin W
    <3>1. Ring(mem, list_head(i), freelists[i])
      BY <2>1 DEF Rings
    <3>2. Proper(list_head(i), freelists[i])
      BY ListsProper DEF LinkInv
    <3>3. /\ At(mem', list_head(i)) = At(mem, list_head(i))
          /\ \A x \in Range(freelists[i]) : At(mem', x) = At(mem, x)
      BY <2>2, Zenon
    <3>4. Ring(mem', list_head(i), freelists[i])
      BY <3>1, <3>2, <3>3, RingElsewhere, Zenon
    <3> QED
      BY <2>2, <3>4
  <2> QED
    BY <2>1, <2>2, Zenon
<1>4. Unsized'
  BY UnsizedAfter DEF LinkInv
<1>5. HeadersIntact'
  <2>1. HeadersIntact' <=> \A b \in DOMAIN hdr' : At(mem', b) = Words(hdr'[b].size, hdr'[b].alloc_size)
    BY Zenon DEF HeadersIntact, At, Words
  <2> QED
    BY <1>2, <2>1
<1>6. AllLinked' => Rings'
  <2>1. Rings' <=> \A i \in Freelists : Ring(mem', list_head(i)', freelists'[i])
    BY Zenon DEF Rings, Ring, Stop, At
  <2> QED
    BY <1>1, <1>3, <2>1
<1>7. array' \in ArrayPlaces
  BY DEF LinkInv
<1> QED
  BY <1>4, <1>5, <1>6, <1>7 DEF LinkInv, Readable

--------------------------------------------------------------------------------
(***************************************************************************)
(* LinkInv, step by step.                                                  *)
(***************************************************************************)
LEMMA QuietLinks ==
  ASSUME HeapInv, LinkInv, NEW t \in Threads, Call(t) \/ Step(t), pc[t] \notin WritingLabels,
         mem' = mem, array' = array
  PROVE  LinkInv'
<1>1. Leads(t)
  BY CallLeads, StepLeads DEF HeapInv
<1>2. pc[t] # "freelists_init"
  BY DEF WritingLabels
<1>3. Readable(mem') /\ \A l : At(mem', l) = At(mem, l)
  BY DEF LinkInv
<1>4. /\ freelists' = freelists
      /\ \A b \in DOMAIN hdr' : b \in DOMAIN hdr /\ hdr'[b] = hdr[b]
  BY HeadersKept
<1>5. PICK W : W = {}
  OBVIOUS
<1>6. \A l : l \notin W
  BY <1>5
<1>7. \A b \in DOMAIN hdr' : \/ b \in DOMAIN hdr /\ hdr'[b] = hdr[b] /\ b \notin W
                             \/ At(mem', b) = Words(hdr'[b].size, hdr'[b].alloc_size)
  BY <1>4, <1>6
<1>8. \A i \in Freelists :
           \/ /\ freelists'[i] = freelists[i]
              /\ list_head(i) \notin W /\ \A x \in Range(freelists[i]) : x \notin W
           \/ Rings => Ring(mem', list_head(i), freelists'[i])
  BY <1>4, <1>6
<1> QED
  BY <1>1, <1>2, <1>3, <1>7, <1>8, LinkAfter

LEMMA WordsArePair ==
  ASSUME NEW size \in SizeT, NEW alloc_size \in SizeT
  PROVE  Words(size, alloc_size) \in Pairs
  BY DEF Words, Pairs, SizeT

LEMMA HeaderWordsAt ==
  ASSUME Readable(mem), NEW c \in Calls
  PROVE  /\ Readable(HeaderWords(c))
         /\ At(HeaderWords(c), c.blk) = Words(c.size, c.alloc_size)
         /\ \A l : l # c.blk => At(HeaderWords(c), l) = At(mem, l)
<1>1. PICK w, b : w = Words(c.size, c.alloc_size) /\ b = c.blk
  OBVIOUS
<1>2. w \in Pairs
  BY <1>1, WordsArePair DEF Calls
<1>3. HeaderWords(c) = Store(mem, b, w)
  BY <1>1 DEF HeaderWords
<1> QED
  BY <1>1, <1>2, <1>3, StoreAt

\* A header is written over a block in hand.
LEMMA HeaderLinks ==
  ASSUME HeapInv, LinkInv, NEW t \in Threads, Leads(t), pc[t] # "freelists_init",
         InHand(t) # 0, freelists' = freelists,
         hdr' = WithHeader(call[t].blk, [size |-> call[t].size, alloc_size |-> call[t].alloc_size]),
         mem' = HeaderWords(call[t]), array' = array
  PROVE  LinkInv'
<1>1. PICK b, W : b = call[t].blk /\ W = {b}
  OBVIOUS
<1>2. call[t] \in Calls
  BY DEF HeapInv, TypeOK
<1>3. /\ Readable(mem')
      /\ At(mem', b) = Words(call[t].size, call[t].alloc_size)
      /\ \A l : l \notin W => At(mem', l) = At(mem, l)
  BY <1>1, <1>2, HeaderWordsAt DEF LinkInv
<1>4. b \in BlockAddrs /\ \A i \in Freelists : b \notin Range(freelists[i])
  BY <1>1, InHandAlone DEF HeapInv
<1>5. ASSUME NEW x \in DOMAIN hdr'
      PROVE  \/ x \in DOMAIN hdr /\ hdr'[x] = hdr[x] /\ x \notin W
             \/ At(mem', x) = Words(hdr'[x].size, hdr'[x].alloc_size)
  <2>1. CASE x = b
    <3>1. hdr'[x] = [size |-> call[t].size, alloc_size |-> call[t].alloc_size]
      BY <1>1, <2>1 DEF WithHeader
    <3> QED
      BY <1>3, <2>1, <3>1
  <2>2. CASE x # b
    BY <1>1, <2>2 DEF WithHeader
  <2> QED
    BY <2>1, <2>2
<1>6. ASSUME NEW i \in Freelists
      PROVE  /\ freelists'[i] = freelists[i]
             /\ list_head(i) \notin W /\ \A x \in Range(freelists[i]) : x \notin W
  BY <1>1, <1>4, HeadsApart DEF LinkInv
<1> QED
  BY <1>3, <1>5, <1>6, LinkAfter

LEMMA WriteHeaderLinks ==
  ASSUME HeapInv, LinkInv, NEW t \in Threads, WriteHeader(t),
         mem' = HeaderWords(call[t]), array' = array
  PROVE  LinkInv'
<1>1. Leads(t)
  BY StepLeads DEF Step, HeapInv
<1>2. pc[t] = "write_header"
  BY DEF WriteHeader
<1>3. call[t].alloc_size = 0
  BY <1>2 DEF LinkInv, Unsized, UnsizedWay, SlabWay
<1>4. /\ freelists' = freelists
      /\ hdr' = WithHeader(call[t].blk, [size |-> call[t].size, alloc_size |-> call[t].alloc_size])
  BY <1>3 DEF WriteHeader
<1>5. InHand(t) # 0
  <2>1. call[t].idx \in Freelists
    BY <1>2 DEF HeapInv, LocalsInv, LocalsAt, SlabWay
  <2> QED
    BY <1>2, <2>1, BlockSizes, FreelistNumbers DEF InHand
<1> QED
  BY <1>1, <1>2, <1>4, <1>5, HeaderLinks

LEMMA LargeAddAllocatedLinks ==
  ASSUME HeapInv, LinkInv, NEW t \in Threads, LargeAddAllocated(t),
         mem' = HeaderWords(call[t]), array' = array
  PROVE  LinkInv'
<1>1. Leads(t)
  BY StepLeads DEF Step, HeapInv
<1>2. pc[t] = "add_allocated"
  BY DEF LargeAddAllocated, Move
<1>3. /\ freelists' = freelists
      /\ hdr' = WithHeader(call[t].blk, [size |-> call[t].size, alloc_size |-> call[t].alloc_size])
  BY DEF LargeAddAllocated
<1>4. InHand(t) # 0
  <2>1. WholePages(call[t].blk, call[t].alloc_size) /\ call[t].alloc_size \in Nat
    BY <1>2 DEF HeapInv, LocalsInv, LocalsAt, TypeOK, Calls, SizeT
  <2> QED
    BY <1>2, <2>1 DEF InHand, WholePages
<1> QED
  BY <1>1, <1>2, <1>3, <1>4, HeaderLinks

LEMMA ResizeAddLinks ==
  ASSUME HeapInv, LinkInv, NEW t \in Threads, ResizeAdd(t),
         mem' = SetNext(mem, HdrOf(call[t].ptr), call[t].size), array' = array
  PROVE  LinkInv'
<1>1. Leads(t)
  BY StepLeads DEF Step, HeapInv
<1>2. pc[t] = "realloc_add"
  BY DEF ResizeAdd, Move
<1>3. PICK b, W, size : b = HdrOf(call[t].ptr) /\ W = {b} /\ size = call[t].size
  OBVIOUS
<1>4. b \in DOMAIN hdr
  <2>1. call[t].ptr # NULL /\ call[t].ret = call[t].ptr
    BY <1>2 DEF HeapInv, LocalsInv, LocalsAt
  <2>2. b \in CallBlocks(t)
    BY <1>3, <2>1 DEF CallBlocks, NewBlock
  <2> QED
    BY <2>2 DEF HeapInv, OwnersInv
<1>5. /\ freelists' = freelists
      /\ DOMAIN hdr' = DOMAIN hdr
      /\ \A x \in DOMAIN hdr : x # b => hdr'[x] = hdr[x]
      /\ hdr'[b].size = size /\ hdr'[b].alloc_size = hdr[b].alloc_size
  <2>1. hdr' = [hdr EXCEPT ![b].size = size] /\ freelists' = freelists
    BY <1>3 DEF ResizeAdd
  <2>2. hdr[b] \in Headers
    BY <1>4 DEF HeapInv, TypeOK
  <2> QED
    BY <1>4, <2>1, <2>2 DEF Headers
<1>6. size \in Int
  BY <1>3 DEF HeapInv, TypeOK, Calls, SizeT
<1>7. NextWritten(mem, b, size, mem')
  BY <1>3, <1>6, SetNextAt DEF LinkInv
<1>8. Readable(mem') /\ \A l : l \notin W => At(mem', l) = At(mem, l)
  <2>1. ASSUME NEW l, l # b PROVE At(mem', l) = At(mem, l)
    <3>1. At(mem', l).next = At(mem, l).next /\ At(mem', l).previous = At(mem, l).previous
      BY <1>7, <2>1 DEF NextWritten
    <3>2. At(mem', l) \in Pairs /\ At(mem, l) \in Pairs
      BY <1>7, AtPair DEF NextWritten, LinkInv
    <3> QED
      BY <3>1, <3>2, SamePair, Zenon
  <2> QED
    BY <1>3, <1>7, <2>1 DEF NextWritten
<1>9. At(mem', b) = Words(hdr'[b].size, hdr'[b].alloc_size)
  <2>1. At(mem', b).next = size /\ At(mem', b).previous = At(mem, b).previous
    BY <1>7 DEF NextWritten
  <2>2. At(mem, b).previous = hdr[b].alloc_size
    BY <1>4, IntactHeader DEF LinkInv, Words
  <2>3. At(mem', b) \in Pairs
    BY <1>8, AtPair
  <2> QED
    BY <1>5, <2>1, <2>2, <2>3 DEF Words, Pairs
<1>10. ASSUME NEW x \in DOMAIN hdr'
       PROVE  \/ x \in DOMAIN hdr /\ hdr'[x] = hdr[x] /\ x \notin W
              \/ At(mem', x) = Words(hdr'[x].size, hdr'[x].alloc_size)
  BY <1>3, <1>5, <1>9
<1>11. ASSUME NEW i \in Freelists
       PROVE  /\ freelists'[i] = freelists[i]
              /\ list_head(i) \notin W /\ \A x \in Range(freelists[i]) : x \notin W
  <2>1. b \in BlockAddrs
    BY <1>4 DEF HeapInv, TypeOK
  <2> QED
    BY <1>3, <1>4, <1>5, <2>1, HeadsApart, ListsApart DEF LinkInv
<1> QED
  BY <1>1, <1>2, <1>8, <1>10, <1>11, LinkAfter

\* The lists are linked wherever a thread is past the initialisation.
LEMMA LinkedBySteps ==
  ASSUME ControlInv, LinkInv, NEW t \in Threads, pc[t] \notin EarlyLabels
  PROVE  Rings
  BY DEF ControlInv, NothingYet, LinkInv, AllLinked

\* A step that changes list i only, and with it the memory of its head, its nodes
\* and some block of the thread's own.
ListWritten(i, S) ==
  /\ hdr' = hdr
  /\ \A j \in Freelists \ {i} : freelists'[j] = freelists[j]
  /\ S \subseteq BlockAddrs
  /\ \A x \in S : /\ x \notin DOMAIN hdr
                  /\ \A j \in Freelists \ {i} : x \notin Range(freelists[j])
  /\ Readable(mem') /\ Ring(mem', list_head(i), freelists'[i])
  /\ \A l : l # list_head(i) /\ l \notin S => At(mem', l) = At(mem, l)

LEMMA ListLinks ==
  ASSUME HeapInv, LinkInv, NEW t \in Threads, Leads(t), pc[t] # "freelists_init",
         array' = array, NEW i \in Freelists, NEW S, ListWritten(i, S)
  PROVE  LinkInv'
<1> USE DEF ListWritten
<1>1. PICK h, W : h = list_head(i) /\ W = S \cup {h}
  OBVIOUS
<1>2. h \notin BlockAddrs /\ \A j \in Freelists : list_head(j) = h => j = i
  BY <1>1, HeadsApart DEF LinkInv
<1>3. \A j \in Freelists : list_head(j) \notin BlockAddrs
  BY HeadsApart DEF LinkInv
<1>4. DOMAIN hdr \subseteq BlockAddrs
  BY DEF HeapInv, TypeOK
<1>5. \A j \in Freelists : Range(freelists[j]) \subseteq BlockAddrs
  BY ListsApart
<1>6. \A l : l \notin W => At(mem', l) = At(mem, l)
  BY <1>1
<1>7. ASSUME NEW b \in DOMAIN hdr'
      PROVE  \/ b \in DOMAIN hdr /\ hdr'[b] = hdr[b] /\ b \notin W
             \/ At(mem', b) = Words(hdr'[b].size, hdr'[b].alloc_size)
  BY <1>1, <1>2, <1>4
<1>8. ASSUME NEW j \in Freelists
      PROVE  \/ /\ freelists'[j] = freelists[j]
                /\ list_head(j) \notin W /\ \A x \in Range(freelists[j]) : x \notin W
             \/ Rings => Ring(mem', list_head(j), freelists'[j])
  <2>1. CASE j = i
    BY <2>1
  <2>2. CASE j # i
    <3>1. freelists'[j] = freelists[j]
      BY <2>2
    <3>2. list_head(j) \notin W
      BY <1>1, <1>2, <1>3, <2>2
    <3>3. \A x \in Range(freelists[j]) : x \notin W
      BY <1>1, <1>2, <1>5, <2>2
    <3> QED
      BY <3>1, <3>2, <3>3
  <2> QED
    BY <2>1, <2>2
<1>9. Readable(mem')
  OBVIOUS
<1> HIDE DEF ListWritten
<1> QED
  BY <1>6, <1>7, <1>8, <1>9, LinkAfter

LEMMA CarvePageLinks ==
  ASSUME HeapInv, ControlInv, LinkInv, NEW t \in Threads, CarvePage(t),
         mem' = CarveLinks(call[t].idx, call[t].blk), array' = array
  PROVE  LinkInv'
<1> DEFINE i     == call[t].idx
           page  == call[t].blk
           bytes == pow2(i)
           list  == CarvedPage(page, PAGE_BYTES, bytes)
<1>1. Leads(t) /\ pc[t] = "carve"
  BY StepLeads DEF Step, HeapInv, CarvePage, Move
<1>2. i \in Freelists /\ page \in HeapPages /\ freelists[i] = <<>>
  BY <1>1 DEF HeapInv, LocalsInv, LocalsAt, SlabWay
<1>3. bytes \in BlockLengths /\ bytes \in Nat \ {0}
  BY <1>2, BlockSizes, FreelistNumbers DEF BlockLengths
<1>4. page \in Nat /\ page % 4096 = 0 /\ page >= 4096 /\ page + 4096 <= HeapEnd
  BY <1>2, HeapNumbers
<1>5. /\ list \in Seq(Int)
      /\ \A a \in Range(list) : /\ a \in Nat /\ (page % 32 = 0 => a % 32 = 0)
                               /\ page <= a /\ a + bytes <= page + 4096
  <2>1. BlocksOfPage(list, page, bytes)
    BY <1>3, <1>4, HeapNumbers, CarvedPageBlocks
  <2> QED
    BY <2>1 DEF BlocksOfPage
<1> DEFINE S == Range(list)
<1> HIDE DEF list, bytes
<1>6. ASSUME NEW a \in S
      PROVE  a \in BlockAddrs /\ a \in Nat /\ page <= a /\ a < page + PAGE_BYTES
  <2>1. page % 32 = 0
    BY <1>4
  <2>2. a \in Nat /\ a % 32 = 0 /\ page <= a /\ a + bytes <= page + 4096
    BY <1>5, <1>6, <2>1
  <2>3. a >= 4096 /\ a < HeapEnd /\ HeapEnd \in Nat /\ a < page + 4096
    BY <1>3, <1>4, <2>2, HeapNumbers
  <2> QED
    BY <2>2, <2>3, HeapNumbers, BlockSizes DEF BlockAddrs
<1> HIDE DEF S
<1>7. ASSUME NEW x \in S
      PROVE  x \notin DOMAIN hdr /\ \A j \in Freelists : x \notin Range(freelists[j])
  <2>1. InHand(t) = PAGE_BYTES /\ InHand(t) # 0 /\ PAGE_BYTES = 4096
    BY <1>1, HeapNumbers DEF InHand
  <2>2. page <= x /\ x < page + 4096 /\ x \in Nat
    BY <1>6, <1>7, HeapNumbers
  <2>3. ~(x < page \/ page + 4096 <= x)
    BY <1>4, <2>2
  <2> QED
    BY <2>1, <2>3, InHandApart
<1>8. PICK h \in Int : h = list_head(i) /\ h \notin BlockAddrs
  BY <1>2, HeadsApart DEF LinkInv
<1>9. Linked(mem, h, list, mem')
  <2>1. Ring(mem, h, <<>>)
    BY <1>1, <1>2, <1>8, LinkedBySteps DEF EarlyLabels, Rings
  <2>2. h \notin S
    BY <1>6, <1>8
  <2>3. Readable(mem) /\ page \in Int
    BY <1>4 DEF LinkInv
  <2> QED
    BY <1>2, <1>8, <2>1, <2>2, <2>3, CarveLinked DEF S, list, bytes
<1>10. /\ hdr' = hdr /\ freelists'[i] = list
       /\ \A j \in Freelists \ {i} : freelists'[j] = freelists[j]
  <2>1. freelists' = [freelists EXCEPT ![i] = list \o @] /\ hdr' = hdr
    BY DEF CarvePage, list, bytes
  <2>2. list \o <<>> = list
    BY <1>5
  <2> QED
    BY <1>2, <2>1, <2>2 DEF HeapInv, TypeOK
<1>11. S \subseteq BlockAddrs
  BY <1>6
<1>12. /\ Readable(mem') /\ Ring(mem', list_head(i), freelists'[i])
       /\ \A l : l # list_head(i) /\ l \notin S => At(mem', l) = At(mem, l)
  BY <1>8, <1>9, <1>10 DEF Linked, S
<1> HIDE DEF i
<1> QED
  <2>1. PICK j \in Freelists, B \in {S} : j = i /\ B = S
    BY <1>2
  <2>2. /\ B \subseteq BlockAddrs
        /\ \A x \in B : /\ x \notin DOMAIN hdr
                       /\ \A n \in Freelists \ {j} : x \notin Range(freelists[n])
    BY <2>1, <1>7, <1>11
  <2>3. /\ Readable(mem') /\ Ring(mem', list_head(j), freelists'[j])
        /\ \A l : l # list_head(j) /\ l \notin B => At(mem', l) = At(mem, l)
    BY <2>1, <1>12
  <2>4. hdr' = hdr /\ \A n \in Freelists \ {j} : freelists'[n] = freelists[n]
    BY <2>1, <1>10
  <2>5. pc[t] # "freelists_init"
    BY <1>1
  <2>6. ListWritten(j, B)
    BY <2>2, <2>3, <2>4, Zenon DEF ListWritten
  <2> QED
    BY <1>1, <2>5, <2>6, ListLinks

LEMMA TakeFirstLinks ==
  ASSUME HeapInv, ControlInv, LinkInv, NEW t \in Threads, TakeFirst(t),
         mem' = ps_list_rem(mem, ps_list_head_first(mem, list_head(call[t].idx))),
         array' = array
  PROVE  LinkInv'
<1> DEFINE i    == call[t].idx
           list == freelists[i]
           S    == Range(list)
<1>1. Leads(t) /\ pc[t] = "pop"
  BY StepLeads DEF Step, HeapInv, TakeFirst, Move
<1>2. i \in Freelists /\ list # <<>> /\ list \in Seq(Int)
  BY <1>1, ListsApart DEF HeapInv, LocalsInv, LocalsAt, SlabWay
<1>3. PICK h \in Int : h = list_head(i)
  BY <1>2, HeadsApart DEF LinkInv
<1>4. Proper(h, list) /\ Ring(mem, h, list)
  BY <1>1, <1>2, <1>3, ListsProper, LinkedBySteps DEF EarlyLabels, Rings, LinkInv
<1>5. mem' = ps_list_ll_rem(mem, Head(list))
  <2>1. /\ Len(list) \in Nat /\ 1 \in 1..Len(list) /\ Head(list) = list[1] /\ list[1] \in Int
        /\ 0 \in 0..Len(list) /\ 0 + 1 = 1 /\ 0 \notin 1..Len(list)
    BY <1>2
  <2>2. At(mem, h).next = Head(list)
    BY <1>4, <2>1, Zenon DEF Ring, Stop
  <2>3. ps_list_head_first(mem, h) = Head(list)
    BY <2>1, <2>2, NoOffset DEF ps_list_head_first
  <2>4. ps_list(Head(list)) = Head(list)
    BY <2>1, NoOffset
  <2> QED
    BY <1>3, <2>3, <2>4, Zenon DEF ps_list_rem
<1>6. /\ hdr' = hdr /\ freelists'[i] = Tail(list)
      /\ \A j \in Freelists \ {i} : freelists'[j] = freelists[j]
  BY <1>2 DEF TakeFirst, HeapInv, TypeOK
<1>7. S \subseteq BlockAddrs
  BY <1>2, ListsApart
<1>8. ASSUME NEW x \in S
      PROVE  x \notin DOMAIN hdr /\ \A j \in Freelists \ {i} : x \notin Range(freelists[j])
  BY <1>2, <1>8, ListsApart
<1>9. /\ Readable(mem') /\ Ring(mem', h, Tail(list))
      /\ \A l : l # h /\ l \notin S => At(mem', l) = At(mem, l)
  <2> HIDE DEF list
  <2>1. Readable(mem)
    BY DEF LinkInv
  <2> QED
    BY <1>2, <1>3, <1>4, <1>5, <2>1, RingAfterFirst
<1> HIDE DEF i, S, list
<1> QED
  <2>1. PICK j \in Freelists, B \in {S} : j = i /\ B = S
    BY <1>2
  <2>2. /\ B \subseteq BlockAddrs
        /\ \A x \in B : /\ x \notin DOMAIN hdr
                       /\ \A n \in Freelists \ {j} : x \notin Range(freelists[n])
    BY <2>1, <1>7, <1>8
  <2>3. /\ Readable(mem') /\ Ring(mem', list_head(j), freelists'[j])
        /\ \A l : l # list_head(j) /\ l \notin B => At(mem', l) = At(mem, l)
    BY <2>1, <1>3, <1>6, <1>9
  <2>4. hdr' = hdr /\ \A n \in Freelists \ {j} : freelists'[n] = freelists[n]
    BY <2>1, <1>6
  <2>5. pc[t] # "freelists_init"
    BY <1>1
  <2>6. ListWritten(j, B)
    BY <2>2, <2>3, <2>4, Zenon DEF ListWritten
  <2> QED
    BY <1>1, <2>5, <2>6, ListLinks

LEMMA FreeInsertLinks ==
  ASSUME HeapInv, ControlInv, LinkInv, NEW t \in Threads, FreeInsert(t),
         mem' = p2orderedinsert(call[t].blk, list_head(call[t].idx)), array' = array
  PROVE  LinkInv'
<1> DEFINE i    == call[t].idx
           b    == call[t].blk
           list == freelists[i]
           S    == Range(list) \cup {b}
<1>1. Leads(t) /\ pc[t] = "free_insert"
  BY StepLeads DEF Step, HeapInv, FreeInsert, Move
<1>2. i \in Freelists /\ b \in BlockAddrs
  BY <1>1 DEF HeapInv, LocalsInv, LocalsAt
<1>3. InHand(t) # 0
  BY <1>1, <1>2, BlockSizes, FreelistNumbers DEF InHand
<1>4. b \notin DOMAIN hdr /\ \A j \in Freelists : b \notin Range(freelists[j])
  BY <1>3, InHandAlone DEF HeapInv
<1>5. PICK h \in Int : h = list_head(i) /\ h \notin BlockAddrs
  BY <1>2, HeadsApart DEF LinkInv
<1>6. Proper(h, list) /\ Len(list) <= HeapEnd /\ Ring(mem, h, list)
  BY <1>1, <1>2, <1>5, ListsProper, LinkedBySteps DEF EarlyLabels, Rings, LinkInv
<1>7. PICK k \in 0..Len(list) :
        /\ ScanStopsAt(list, b, k)
        /\ freelists' = [freelists EXCEPT ![i] = OrderedInsert(@, b, k)]
  BY DEF FreeInsert
<1>8. /\ hdr' = hdr /\ freelists'[i] = OrderedInsert(list, b, k)
      /\ \A j \in Freelists \ {i} : freelists'[j] = freelists[j]
  BY <1>2, <1>7 DEF FreeInsert, HeapInv, TypeOK
<1>9. S \subseteq BlockAddrs
  BY <1>2, ListsApart
<1>10. ASSUME NEW x \in S
       PROVE  x \notin DOMAIN hdr /\ \A j \in Freelists \ {i} : x \notin Range(freelists[j])
  BY <1>2, <1>4, <1>10, ListsApart
<1>11. /\ Readable(mem') /\ Ring(mem', h, freelists'[i])
       /\ \A l : l # h /\ l \notin S => At(mem', l) = At(mem, l)
  <2>1. Readable(mem) /\ b \in Int /\ b # h /\ b \notin Range(list)
    BY <1>2, <1>4, <1>5, AddressRange DEF LinkInv
  <2>2. mem' = p2orderedinsert(b, h)
    BY <1>5
  <2> HIDE DEF list, b
  <2>3. /\ Readable(mem') /\ Ring(mem', h, OrderedInsert(list, b, k))
        /\ \A l : l # b /\ l # h /\ l \notin Range(list) => At(mem', l) = At(mem, l)
    BY <1>6, <1>7, <2>1, <2>2, OrderedInsertRing
  <2> QED
    BY <1>8, <2>3
<1> HIDE DEF i, S
<1> QED
  <2>1. PICK j \in Freelists, B \in {S} : j = i /\ B = S
    BY <1>2
  <2>2. /\ B \subseteq BlockAddrs
        /\ \A x \in B : /\ x \notin DOMAIN hdr
                       /\ \A n \in Freelists \ {j} : x \notin Range(freelists[n])
    BY <2>1, <1>9, <1>10
  <2>3. /\ Readable(mem') /\ Ring(mem', list_head(j), freelists'[j])
        /\ \A l : l # list_head(j) /\ l \notin B => At(mem', l) = At(mem, l)
    BY <2>1, <1>5, <1>8, <1>11
  <2>4. hdr' = hdr /\ \A n \in Freelists \ {j} : freelists'[n] = freelists[n]
    BY <2>1, <1>8
  <2>5. pc[t] # "freelists_init"
    BY <1>1
  <2>6. ListWritten(j, B)
    BY <2>2, <2>3, <2>4, Zenon DEF ListWritten
  <2> QED
    BY <1>1, <2>5, <2>6, ListLinks

\* The words of an unmapped page are gone, and nobody needed them.
LEMMA UnmapLinks ==
  ASSUME HeapInv, LinkInv, NEW t \in Threads, Unmap(t),
         mem' = Without(PagesOf(call[t].blk, call[t].alloc_size)), array' = array
  PROVE  LinkInv'
<1>1. Leads(t) /\ pc[t] = "free_unmap" /\ hdr' = hdr /\ freelists' = freelists
  BY StepLeads DEF Step, HeapInv, Unmap, Move
<1>2. PICK blk, n, pages : blk = call[t].blk /\ n = call[t].alloc_size /\ pages = PagesOf(blk, n)
  OBVIOUS
<1>3. /\ blk \in Nat /\ blk % 4096 = 0 /\ n \in Nat /\ n % 4096 = 0 /\ n > 0
      /\ InHand(t) = n /\ InHand(t) # 0
  <2>1. blk \in HeapPages /\ WholePages(blk, n)
    BY <1>1, <1>2 DEF HeapInv, LocalsInv, LocalsAt
  <2>2. n \in Nat
    BY <1>2 DEF HeapInv, TypeOK, Calls, SizeT
  <2>3. InHand(t) = n
    BY <1>1, <1>2 DEF InHand
  <2> QED
    BY <2>1, <2>2, <2>3, HeapNumbers DEF WholePages
<1>4. ASSUME NEW page \in pages
      PROVE  /\ page \in Nat /\ page >= 4096 /\ page + 4096 <= HeapEnd
             /\ blk <= page /\ page + 4096 <= blk + n
  <2>1. page \in HeapPages /\ blk <= page /\ page < blk + n
    BY <1>2, <1>4 DEF PagesOf
  <2>2. page \in Nat /\ page % 4096 = 0 /\ page >= 4096 /\ page + 4096 <= HeapEnd
    BY <2>1, HeapNumbers
  <2>3. page + 4096 <= blk + n
    BY <1>3, <2>1, <2>2
  <2> QED
    BY <2>1, <2>2, <2>3
<1>5. PICK W : W = UNION {page..(page + PAGE_BYTES - 1) : page \in pages}
  OBVIOUS
<1>6. ASSUME NEW a \in W
      PROVE  a \in Int /\ 4096 <= a /\ a < HeapEnd /\ blk <= a /\ a < blk + n
  <2>1. PICK page \in pages : a \in page..(page + PAGE_BYTES - 1)
    BY <1>5, <1>6
  <2> QED
    BY <1>3, <1>4, <2>1, HeapNumbers
<1>7. mem' = [a \in {b \in DOMAIN mem : b \notin W} |-> mem[a]]
  <2>2. \A b : b \notin W <=> \A page \in pages : b \notin page..(page + PAGE_BYTES - 1)
    BY <1>5
  <2>3. {b \in DOMAIN mem : b \notin W}
          = {b \in DOMAIN mem : \A page \in pages : b \notin page..(page + PAGE_BYTES - 1)}
    BY <2>2, Zenon
  <2> QED
    BY <1>2, <2>3, Zenon DEF Without
<1>8. Readable(mem') /\ \A l : l \notin W => At(mem', l) = At(mem, l)
  BY <1>7 DEF LinkInv, Readable, At
<1>9. ASSUME NEW x, x \in DOMAIN hdr \/ \E i \in Freelists : x \in Range(freelists[i])
      PROVE  x \notin W
  <2>1. x < blk \/ blk + n <= x
    <3>1. x < call[t].blk \/ call[t].blk + InHand(t) <= x
      BY <1>3, <1>9, InHandApart
    <3> QED
      BY <1>2, <1>3, <3>1
  <2>2. x \in Nat
    BY <1>9, ListsApart, AddressRange DEF HeapInv, TypeOK
  <2> QED
    BY <1>3, <1>6, <2>1, <2>2
<1>10. ASSUME NEW i \in Freelists PROVE list_head(i) \notin W
  <2>1. list_head(i) \in Int /\ (list_head(i) < 4096 \/ HeapEnd <= list_head(i))
    BY HeadsApart DEF LinkInv
  <2> QED
    BY <1>6, <2>1, HeapNumbers
<1>11. \A b \in DOMAIN hdr' : \/ b \in DOMAIN hdr /\ hdr'[b] = hdr[b] /\ b \notin W
                              \/ At(mem', b) = Words(hdr'[b].size, hdr'[b].alloc_size)
  BY <1>1, <1>9
<1>12. \A i \in Freelists :
         \/ /\ freelists'[i] = freelists[i]
            /\ list_head(i) \notin W /\ \A x \in Range(freelists[i]) : x \notin W
         \/ Rings => Ring(mem', list_head(i), freelists'[i])
  BY <1>1, <1>9, <1>10
<1>13. pc[t] # "freelists_init"
  BY <1>1
<1> QED
  BY <1>1, <1>8, <1>11, <1>12, <1>13, LinkAfter

LEMMA EmptyRing ==
  ASSUME NEW m, NEW h, SelfLinked(m, h)
  PROVE  Ring(m, h, <<>>)
<1>1. Len(<<>>) = 0 /\ 0..Len(<<>>) = {0} /\ 0 + 1 = 1
  OBVIOUS
<1>2. Stop(h, <<>>, 0) = h /\ Stop(h, <<>>, 1) = h
  BY DEF Stop
<1> QED
  BY <1>1, <1>2 DEF Ring, SelfLinked

\* The initialisation links each head to itself, before there is a block.
LEMMA freelists_initLinks ==
  ASSUME HeapInv, ControlInv, LinkInv, NEW t \in Threads, freelists_init(t),
         mem' = InitHeads, array' = array
  PROVE  LinkInv'
<1>1. /\ Leads(t) /\ hdr' = hdr /\ freelists' = [i \in Freelists |-> <<>>]
      /\ pc[t] = "freelists_init"
  BY StepLeads DEF Step, HeapInv, freelists_init, Move
<1>2. hdr = <<>>
  BY <1>1 DEF ControlInv, OneInits, Initing, NothingYet
<1>3. PICK heads : heads = {list_head(i) : i \in Freelists}
  OBVIOUS
<1>4. mem' = [a \in DOMAIN mem \cup heads |-> IF a \in heads THEN Words(a, a) ELSE mem[a]]
  BY <1>3 DEF InitHeads
<1>5. \A a \in heads : a \in Int
  BY <1>3, HeadsApart DEF LinkInv
<1>6. Readable(mem')
  BY <1>4, <1>5 DEF LinkInv, Readable, Words, Pairs
<1>7. ASSUME NEW i \in Freelists PROVE Ring(mem', list_head(i), <<>>)
  <2>1. list_head(i) \in heads
    BY <1>3
  <2>2. SelfLinked(mem', list_head(i))
    BY <1>4, <2>1 DEF SelfLinked, At, Words
  <2> QED
    BY <2>2, EmptyRing
<1>8. Rings'
  <2>1. Rings' <=> \A i \in Freelists : Ring(mem', list_head(i)', freelists'[i])
    BY Zenon DEF Rings, Ring, Stop, At
  <2>2. \A i \in Freelists : list_head(i)' = list_head(i) /\ freelists'[i] = <<>>
    BY <1>1 DEF list_head
  <2> QED
    BY <1>7, <2>1, <2>2, Zenon
<1>9. HeadersIntact'
  BY <1>1, <1>2 DEF HeadersIntact
<1>10. Unsized'
  BY <1>1, UnsizedAfter DEF LinkInv
<1>11. array' \in ArrayPlaces
  BY DEF LinkInv
<1> QED
  BY <1>6, <1>8, <1>9, <1>10, <1>11 DEF LinkInv, Readable

--------------------------------------------------------------------------------
LEMMA LinkInit == LinksInit => LinkInv
<1> SUFFICES ASSUME LinksInit PROVE LinkInv
  OBVIOUS
<1>1. Readable(mem) /\ array \in ArrayPlaces
  BY DEF LinksInit, Readable
<1>2. Unsized
  BY DEF LinksInit, Init, Unsized, UnsizedWay, SlabWay
<1>3. HeadersIntact
  BY DEF LinksInit, Init, HeadersIntact
<1>4. ~AllLinked
  BY DEF LinksInit, Init, AllLinked
<1> QED
  BY <1>1, <1>2, <1>3, <1>4 DEF LinkInv

LEMMA LinkStutter ==
  ASSUME LinkInv, UNCHANGED linkVars
  PROVE  LinkInv'
<1> USE DEF linkVars, vars
<1>1. Rings' <=> Rings
  <2>1. Rings' <=> \A i \in Freelists : Ring(mem', list_head(i)', freelists'[i])
    BY Zenon DEF Rings, Ring, Stop, At
  <2>2. mem' = mem /\ freelists' = freelists /\ \A i : list_head(i)' = list_head(i)
    BY DEF list_head
  <2> QED
    BY <2>1, <2>2, Zenon DEF Rings
<1>2. HeadersIntact' <=> HeadersIntact
  BY Zenon DEF HeadersIntact, At, Words
<1>3. Unsized' /\ (AllLinked' <=> AllLinked)
  BY DEF LinkInv, Unsized, UnsizedWay, SlabWay, AllLinked
<1>4. Readable(mem') /\ array' \in ArrayPlaces
  BY DEF LinkInv, Readable
<1> QED
  BY <1>1, <1>2, <1>3, <1>4 DEF LinkInv, Readable

LEMMA LinkStepTaken ==
  ASSUME HeapInv, ControlInv, LinkInv, NEW t \in Threads, LinkStep(t), array' = array
  PROVE  LinkInv'
<1>1. CASE freelists_init(t) /\ mem' = InitHeads
  BY <1>1, freelists_initLinks
<1>2. CASE CarvePage(t) /\ mem' = CarveLinks(call[t].idx, call[t].blk)
  BY <1>2, CarvePageLinks
<1>3. CASE TakeFirst(t) /\ mem' = ps_list_rem(mem,
                                        ps_list_head_first(mem, list_head(call[t].idx)))
  BY <1>3, TakeFirstLinks
<1>4. CASE WriteHeader(t) /\ mem' = HeaderWords(call[t])
  BY <1>4, WriteHeaderLinks
<1>5. CASE LargeAddAllocated(t) /\ mem' = HeaderWords(call[t])
  BY <1>5, LargeAddAllocatedLinks
<1>6. CASE ResizeAdd(t) /\ mem' = SetNext(mem, HdrOf(call[t].ptr), call[t].size)
  BY <1>6, ResizeAddLinks
<1>7. CASE FreeInsert(t) /\ mem' = p2orderedinsert(call[t].blk, list_head(call[t].idx))
  BY <1>7, FreeInsertLinks
<1>8. CASE Unmap(t) /\ mem' = Without(PagesOf(call[t].blk, call[t].alloc_size))
  BY <1>8, UnmapLinks
<1> QED
  BY <1>1, <1>2, <1>3, <1>4, <1>5, <1>6, <1>7, <1>8, Zenon DEF LinkStep

LEMMA LinkStepIsStep ==
  ASSUME NEW t \in Threads, LinkStep(t)
  PROVE  Step(t)
  BY DEF LinkStep, Step

LEMMA LinksKept ==
  ASSUME ControlInv, HeapInv, LinkInv, LinksNext
  PROVE  ControlInv' /\ HeapInv' /\ LinkInv'
<1>1. array' = array
  BY DEF LinksNext
<1>2. PICK t \in Threads : \/ LinkStep(t)
                           \/ (Call(t) \/ Step(t)) /\ pc[t] \notin WritingLabels /\ UNCHANGED mem
  BY DEF LinksNext
<1>3. CASE LinkStep(t)
  BY <1>1, <1>3, LinkStepTaken, LinkStepIsStep, HeapStep, ControlStep
<1>4. CASE (Call(t) \/ Step(t)) /\ pc[t] \notin WritingLabels /\ UNCHANGED mem
  BY <1>1, <1>4, QuietLinks, HeapCall, HeapStep, ControlCall, ControlStep
<1> QED
  BY <1>2, <1>3, <1>4

\* The memory holds what the lists and the headers of P2Malloc say, from the
\* initialisation on, while the lists and headers keep their own invariants
\* (p2malloc.c:200-310, ps_list.h:32-64).
THEOREM LinksTheorem == LinksSpec => [](ControlInv /\ HeapInv /\ LinkInv)
<1>1. LinksInit => ControlInv /\ HeapInv /\ LinkInv
  BY ControlInit, HeapInit, LinkInit DEF LinksInit
<1>2. ControlInv /\ HeapInv /\ LinkInv /\ [LinksNext]_linkVars
        => ControlInv' /\ HeapInv' /\ LinkInv'
  <2>1. UNCHANGED linkVars => UNCHANGED vars
    BY DEF linkVars
  <2> QED
    BY <2>1, LinksKept, LinkStutter, HeapStutter, ControlStutter
<1> QED
  BY <1>1, <1>2, PTL DEF LinksSpec

\* Each list that no thread is changing is the ring of its nodes, in their order,
\* wherever the array of heads lies (p2malloc.c:169-194, 224-237).
THEOREM RingsAreFreelistsTheorem == LinksSpec => []RingsAreFreelists
<1>1. HeapInv /\ LinkInv => RingsAreFreelists
  <2> SUFFICES ASSUME HeapInv, LinkInv, init_state = 2, NEW i \in Freelists
               PROVE  IsRing(mem, list_head(i), freelists[i])
    BY DEF RingsAreFreelists
  <2>1. Proper(list_head(i), freelists[i])
    BY ListsProper DEF LinkInv
  <2>2. Ring(mem, list_head(i), freelists[i])
    BY DEF LinkInv, AllLinked, Rings
  <2> QED
    BY <2>1, <2>2, RingIsRing, Zenon
<1> QED
  BY <1>1, LinksTheorem, PTL

\* No list operation writes into a block in use: its first two words stay its
\* header until it is freed (p2malloc.c:115-120, 213-214, 240-242, 251-263).
THEOREM HeadersIntactTheorem == LinksSpec => []HeadersIntact
<1>1. LinkInv => HeadersIntact
  BY DEF LinkInv
<1> QED
  BY <1>1, LinksTheorem, PTL
================================================================================
