----------------------------- MODULE PsListProofs ------------------------------
(***************************************************************************)
(* ps_list.h keeps its promises for every set of objects and list heads:    *)
(* whatever the series of calls, a list is the ring its callers expect, and *)
(* a ps_list_foreach_del loop visits all of it.                             *)
(***************************************************************************)
EXTENDS PsListUse, FreelistProofs

Addr  == Heads \cup {ps_list(o) : o \in Objects}
Words == [next : Int, previous : Int]

\* The k-th stop on the way around a list: its head, its objects, its head.
Stop(head, seq, k) == IF k \in 1..Len(seq) THEN ps_list(seq[k]) ELSE head

\* What the lists in ord hold is listed once: no object is on two of them, or
\* twice on one.
ListedOnce(ord) ==
  /\ ord \in [Heads -> Seq(Objects)]
  /\ \A h \in Heads : IsInjective(ord[h])
  /\ \A g, h \in Heads : g # h => Range(ord[g]) \cap Range(ord[h]) = {}

SelfLinked(m, l) == m[l].next = l /\ m[l].previous = l

\* Memory m links the lists in ord, and every other object to itself.
Links(m, ord) ==
  /\ m \in [Addr -> Words]
  /\ \A h \in Heads : IsRing(m, h, ord[h])
  /\ \A o \in Objects : (\A h \in Heads : o \notin Range(ord[h])) => SelfLinked(m, ps_list(o))

\* A loop has the end of its list still to come; iter is the first object
\* there, and tmp, read before the body ran, is the one after it.
IsEnd(seq, todo) ==
  /\ Len(todo) <= Len(seq)
  /\ \A j \in 1..Len(todo) : todo[j] = seq[(Len(seq) - Len(todo)) + j]

LoopAt(ord, l) ==
  /\ l \in [head : Heads, iter : Int, tmp : Int, todo : Seq(Objects)]
  /\ IsEnd(ord[l.head], l.todo)
  /\ l.iter = IF l.todo = <<>> THEN ps_container(l.head) ELSE l.todo[1]
  /\ l.todo # <<>> =>
       l.tmp = IF Len(l.todo) = 1 THEN ps_container(l.head) ELSE l.todo[2]

UseInv ==
  /\ ListedOnce(order)
  /\ Links(mem, order)
  /\ loop # NoLoop => LoopAt(order, loop)

--------------------------------------------------------------------------------
(***************************************************************************)
(* Memory: what the operations write, word by word.                        *)
(***************************************************************************)

LEMMA SameWords ==
  ASSUME NEW v \in Words, NEW w \in Words, v.next = w.next, v.previous = w.previous
  PROVE  v = w
BY DEF Words

NextWritten(A, m, a, to, new) ==
  /\ new \in [A -> Words]
  /\ \A l \in A : /\ new[l].next = IF l = a THEN to ELSE m[l].next
                  /\ new[l].previous = m[l].previous

PreviousWritten(A, m, a, to, new) ==
  /\ new \in [A -> Words]
  /\ \A l \in A : /\ new[l].previous = IF l = a THEN to ELSE m[l].previous
                  /\ new[l].next = m[l].next

LEMMA SetNextWords ==
  ASSUME NEW A, NEW m \in [A -> Words], NEW a \in A, NEW to \in Int
  PROVE  NextWritten(A, m, a, to, SetNext(m, a, to))
<1>1. m[a] \in Words /\ At(m, a) = m[a]
  BY DEF At
<1>2. DOMAIN m \cup {a} = A
  OBVIOUS
<1>3. PICK w : w = [m[a] EXCEPT !.next = to]
  OBVIOUS
<1>4. w \in Words /\ w.next = to /\ w.previous = m[a].previous
  BY <1>1, <1>3 DEF Words
<1>5. SetNext(m, a, to) = [l \in A |-> IF l = a THEN w ELSE m[l]]
  BY <1>1, <1>2, <1>3 DEF SetNext, Store
<1> QED
  BY <1>4, <1>5 DEF NextWritten

LEMMA SetPreviousWords ==
  ASSUME NEW A, NEW m \in [A -> Words], NEW a \in A, NEW to \in Int
  PROVE  PreviousWritten(A, m, a, to, SetPrevious(m, a, to))
<1>1. m[a] \in Words /\ At(m, a) = m[a]
  BY DEF At
<1>2. DOMAIN m \cup {a} = A
  OBVIOUS
<1>3. PICK w : w = [m[a] EXCEPT !.previous = to]
  OBVIOUS
<1>4. w \in Words /\ w.previous = to /\ w.next = m[a].next
  BY <1>1, <1>3 DEF Words
<1>5. SetPrevious(m, a, to) = [l \in A |-> IF l = a THEN w ELSE m[l]]
  BY <1>1, <1>2, <1>3 DEF SetPrevious, Store
<1> QED
  BY <1>4, <1>5 DEF PreviousWritten

NodeAdded(A, m, a, n, new) ==
  /\ new \in [A -> Words]
  /\ \A l \in A :
       /\ new[l].next = IF l = n THEN m[a].next ELSE IF l = a THEN n ELSE m[l].next
       /\ new[l].previous = IF l = n THEN a ELSE IF l = m[a].next THEN n ELSE m[l].previous

NodeRemoved(A, m, a, new) ==
  /\ new \in [A -> Words]
  /\ \A l \in A :
       /\ new[l].next = IF l = a THEN a ELSE IF l = m[a].previous THEN m[a].next ELSE m[l].next
       /\ new[l].previous = IF l = a THEN a
                            ELSE IF l = m[a].next THEN m[a].previous ELSE m[l].previous

\* Adding a node behind another one touches the two and the one that followed.
LEMMA AddWords ==
  ASSUME NEW A, A \subseteq Int, NEW m \in [A -> Words], NEW a \in A, NEW n \in A, n # a,
         m[a].next \in A, m[a].next # n
  PROVE  NodeAdded(A, m, a, n, ps_list_ll_add(m, a, n))
<1>1. PICK x : x = m[a].next
  OBVIOUS
<1>2. PICK m1 : m1 = SetNext(m, n, x)
  OBVIOUS
<1>3. PICK m2 : m2 = SetPrevious(m1, n, a)
  OBVIOUS
<1>4. PICK m3 : m3 = SetNext(m2, a, n)
  OBVIOUS
<1>5. PICK m4 : m4 = SetPrevious(m3, x, n)
  OBVIOUS
<1>6. x \in A /\ x \in Int /\ a \in Int /\ n \in Int
  BY <1>1
<1>7. NextWritten(A, m, n, x, m1)
  BY <1>2, <1>6, SetNextWords, Zenon
<1>8. PreviousWritten(A, m1, n, a, m2)
  <2>1. m1 \in [A -> Words]
    BY <1>7 DEF NextWritten
  <2> QED
    BY <1>3, <1>6, <2>1, SetPreviousWords, Zenon
<1>9. NextWritten(A, m2, a, n, m3)
  <2>1. m2 \in [A -> Words]
    BY <1>8 DEF PreviousWritten
  <2> QED
    BY <1>4, <1>6, <2>1, SetNextWords, Zenon
<1>10. PreviousWritten(A, m3, x, n, m4)
  <2>1. m3 \in [A -> Words]
    BY <1>9 DEF NextWritten
  <2> QED
    BY <1>5, <1>6, <2>1, SetPreviousWords, Zenon
<1>11. m3[n].next = x
  BY <1>7, <1>8, <1>9 DEF NextWritten, PreviousWritten
<1>12. ps_list_ll_add(m, a, n) = m4
  <2>1. At(m, a).next = x
    BY <1>1 DEF At
  <2>2. At(m3, n).next = x
    BY <1>9, <1>11 DEF At, NextWritten, PreviousWritten
  <2> QED
    BY <1>2, <1>3, <1>4, <1>5, <2>1, <2>2, Zenon DEF ps_list_ll_add
<1>13. ASSUME NEW l \in A
       PROVE  /\ m4[l].next = IF l = n THEN x ELSE IF l = a THEN n ELSE m[l].next
              /\ m4[l].previous = IF l = n THEN a ELSE IF l = x THEN n ELSE m[l].previous
  BY <1>1, <1>7, <1>8, <1>9, <1>10 DEF NextWritten, PreviousWritten
<1> QED
  BY <1>1, <1>10, <1>12, <1>13 DEF NodeAdded, NextWritten, PreviousWritten

\* Removing a node joins its neighbours and leaves it alone in a list.
LEMMA RemWords ==
  ASSUME NEW A, A \subseteq Int, NEW m \in [A -> Words], NEW a \in A,
         m[a].next \in A, m[a].previous \in A, m[a].next # a, m[a].previous # a
  PROVE  NodeRemoved(A, m, a, ps_list_ll_rem(m, a))
<1>1. PICK x, y : x = m[a].next /\ y = m[a].previous
  OBVIOUS
<1>2. PICK m1 : m1 = SetPrevious(m, x, y)
  OBVIOUS
<1>3. PICK m2 : m2 = SetNext(m1, y, x)
  OBVIOUS
<1>4. PICK m3 : m3 = SetPrevious(m2, a, a)
  OBVIOUS
<1>5. PICK m4 : m4 = SetNext(m3, a, a)
  OBVIOUS
<1>6. x \in A /\ y \in A /\ x \in Int /\ y \in Int /\ a \in Int
  BY <1>1
<1>7. PreviousWritten(A, m, x, y, m1)
  BY <1>2, <1>6, SetPreviousWords, Zenon
<1>8. NextWritten(A, m1, y, x, m2)
  <2>1. m1 \in [A -> Words]
    BY <1>7 DEF PreviousWritten
  <2> QED
    BY <1>3, <1>6, <2>1, SetNextWords, Zenon
<1>9. PreviousWritten(A, m2, a, a, m3)
  <2>1. m2 \in [A -> Words]
    BY <1>8 DEF NextWritten
  <2> QED
    BY <1>4, <1>6, <2>1, SetPreviousWords, Zenon
<1>10. NextWritten(A, m3, a, a, m4)
  <2>1. m3 \in [A -> Words]
    BY <1>9 DEF PreviousWritten
  <2> QED
    BY <1>5, <1>6, <2>1, SetNextWords, Zenon
<1>11. m1[a].next = x /\ m1[a].previous = y
  BY <1>1, <1>7 DEF NextWritten, PreviousWritten
<1>12. ps_list_ll_rem(m, a) = m4
  <2>1. At(m, a).next = x /\ At(m, a).previous = y
    BY <1>1 DEF At
  <2>2. At(m1, a).next = x /\ At(m1, a).previous = y
    BY <1>7, <1>11 DEF At, NextWritten, PreviousWritten
  <2>3. ps_list_ll_rem(m, a) = ps_list_ll_init(m2, a)
    BY <1>2, <1>3, <2>1, <2>2, Zenon DEF ps_list_ll_rem
  <2> QED
    BY <1>4, <1>5, <2>3, Zenon DEF ps_list_ll_init
<1>13. ASSUME NEW l \in A
       PROVE  /\ m4[l].next = IF l = a THEN a ELSE IF l = y THEN x ELSE m[l].next
              /\ m4[l].previous = IF l = a THEN a ELSE IF l = x THEN y ELSE m[l].previous
  BY <1>1, <1>7, <1>8, <1>9, <1>10 DEF NextWritten, PreviousWritten
<1> QED
  BY <1>1, <1>10, <1>12, <1>13 DEF NodeRemoved, NextWritten, PreviousWritten

--------------------------------------------------------------------------------
(***************************************************************************)
(* Rings: the stops on the way around, and what an insertion and a removal *)
(* make of them.                                                           *)
(***************************************************************************)

Ring(m, head, seq) ==
  \A k \in 0..Len(seq) : /\ m[Stop(head, seq, k)].next = Stop(head, seq, k + 1)
                         /\ m[Stop(head, seq, k + 1)].previous = Stop(head, seq, k)

\* Objects and heads share no address, and no two objects do.
LEMMA AddressesApart ==
  /\ Addr \subseteq Int
  /\ Heads \subseteq Addr
  /\ \A o \in Objects : /\ ps_list(o) \in Addr
                        /\ ps_list(o) \notin Heads
                        /\ o \in Int
                        /\ ps_container(ps_list(o)) = o
                        /\ \A q \in Objects : ps_list(q) = ps_list(o) => q = o
  /\ \A l \in Int : ps_list(ps_container(l)) = l /\ ps_container(l) \in Int
<1>1. lname \in Nat /\ lname \in Int /\ Objects \subseteq Int /\ Heads \subseteq Int
  BY UseAssumption, OffsetAssumption
<1>2. ASSUME NEW o \in Objects
      PROVE  /\ ps_list(o) \in Addr
             /\ ps_list(o) \notin Heads
  BY UseAssumption DEF Addr
<1>3. ASSUME NEW o \in Objects
      PROVE  /\ o \in Int
             /\ ps_container(ps_list(o)) = o
             /\ ps_list(o) \in Int
             /\ \A q \in Objects : ps_list(q) = ps_list(o) => q = o
  BY <1>1 DEF ps_list, ps_container
<1>4. Addr \subseteq Int
  BY <1>1, <1>3 DEF Addr
<1>5. \A l \in Int : ps_list(ps_container(l)) = l /\ ps_container(l) \in Int
  BY <1>1 DEF ps_list, ps_container
<1> QED
  BY <1>2, <1>3, <1>4, <1>5 DEF Addr

\* The stops of a list are its own: the head and, each once, its objects.
LEMMA Stops ==
  ASSUME NEW seq \in Seq(Objects), IsInjective(seq), NEW h \in Heads
  PROVE  /\ \A k \in 0..(Len(seq) + 1) : Stop(h, seq, k) \in Addr /\ Stop(h, seq, k) \in Int
         /\ \A j, k \in 0..Len(seq) : Stop(h, seq, j) = Stop(h, seq, k) => j = k
         /\ \A j, k \in 1..(Len(seq) + 1) : Stop(h, seq, j) = Stop(h, seq, k) => j = k
         /\ Stop(h, seq, 0) = h /\ Stop(h, seq, Len(seq) + 1) = h
         /\ \A k \in 1..Len(seq) : Stop(h, seq, k) = ps_list(seq[k]) /\ seq[k] \in Objects
<1>1. /\ Len(seq) \in Nat /\ DOMAIN seq = 1..Len(seq)
      /\ \A k \in 1..Len(seq) : seq[k] \in Objects
  OBVIOUS
<1>2. \A k \in 1..Len(seq) : Stop(h, seq, k) = ps_list(seq[k])
  BY DEF Stop
<1>3. Stop(h, seq, 0) = h /\ Stop(h, seq, Len(seq) + 1) = h
  BY <1>1 DEF Stop
<1>4. ASSUME NEW k \in 0..(Len(seq) + 1)
      PROVE  Stop(h, seq, k) \in Addr /\ Stop(h, seq, k) \in Int
  <2>1. CASE k \in 1..Len(seq)
    <3>1. seq[k] \in Objects /\ Stop(h, seq, k) = ps_list(seq[k])
      BY <1>1, <1>2, <2>1
    <3>2. ps_list(seq[k]) \in Addr
      BY <3>1, AddressesApart, Zenon
    <3>3. Addr \subseteq Int
      BY AddressesApart, Zenon
    <3> QED
      BY <3>1, <3>2, <3>3
  <2>2. CASE k \notin 1..Len(seq)
    BY <2>2, AddressesApart DEF Stop
  <2> QED
    BY <2>1, <2>2
<1>5. ASSUME NEW j \in 1..Len(seq), NEW k \in 1..Len(seq), Stop(h, seq, j) = Stop(h, seq, k)
      PROVE  j = k
  <2>1. seq[j] = seq[k]
    BY <1>1, <1>2, <1>5, AddressesApart
  <2> QED
    BY <1>1, <2>1 DEF IsInjective
<1>6. ASSUME NEW k \in 1..Len(seq) PROVE Stop(h, seq, k) # h
  BY <1>1, <1>2, AddressesApart
<1>7. ASSUME NEW j \in 0..Len(seq), NEW k \in 0..Len(seq), Stop(h, seq, j) = Stop(h, seq, k)
      PROVE  j = k
  <2>1. CASE j \in 1..Len(seq) /\ k \in 1..Len(seq)
    BY <1>5, <1>7, <2>1
  <2>2. CASE j = 0
    BY <1>1, <1>3, <1>6, <1>7, <2>2
  <2>3. CASE k = 0
    BY <1>1, <1>3, <1>6, <1>7, <2>3
  <2> QED
    BY <1>1, <2>1, <2>2, <2>3
<1>8. ASSUME NEW j \in 1..(Len(seq) + 1), NEW k \in 1..(Len(seq) + 1),
             Stop(h, seq, j) = Stop(h, seq, k)
      PROVE  j = k
  <2>1. CASE j \in 1..Len(seq) /\ k \in 1..Len(seq)
    BY <1>5, <1>8, <2>1
  <2>2. CASE j = Len(seq) + 1
    BY <1>1, <1>3, <1>6, <1>8, <2>2
  <2>3. CASE k = Len(seq) + 1
    BY <1>1, <1>3, <1>6, <1>8, <2>3
  <2> QED
    BY <1>1, <2>1, <2>2, <2>3
<1> QED
  BY <1>1, <1>2, <1>3, <1>4, <1>7, <1>8

LEMMA RingIsRing ==
  ASSUME NEW m \in [Addr -> Words], NEW seq \in Seq(Objects), IsInjective(seq), NEW h \in Heads
  PROVE  IsRing(m, h, seq) <=> Ring(m, h, seq)
<1> DEFINE n == Len(seq)
           stop == [k \in 0..(n + 1) |-> IF k \in 1..n THEN ps_list(seq[k]) ELSE h]
<1>1. n \in Nat
  OBVIOUS
<1>2. \A k \in 0..(n + 1) : stop[k] = Stop(h, seq, k) /\ At(m, stop[k]) = m[Stop(h, seq, k)]
  BY Stops DEF Stop, At
<1>3. IsRing(m, h, seq) <=> \A k \in 0..n : /\ At(m, stop[k]).next = stop[k + 1]
                                            /\ At(m, stop[k + 1]).previous = stop[k]
  BY Zenon DEF IsRing
<1>4. \A k \in 0..n : k \in 0..(n + 1) /\ k + 1 \in 0..(n + 1)
  BY <1>1
<1> HIDE DEF stop
<1> QED
  BY <1>2, <1>3, <1>4, Zenon DEF Ring

\* A change of memory that leaves the stops of a list alone leaves its ring.
LEMMA RingElsewhere ==
  ASSUME NEW m \in [Addr -> Words], NEW new \in [Addr -> Words],
         NEW seq \in Seq(Objects), IsInjective(seq), NEW h \in Heads, Ring(m, h, seq),
         \A k \in 0..(Len(seq) + 1) : new[Stop(h, seq, k)] = m[Stop(h, seq, k)]
  PROVE  Ring(new, h, seq)
<1>1. \A k \in 0..Len(seq) : k \in 0..(Len(seq) + 1) /\ k + 1 \in 0..(Len(seq) + 1)
  OBVIOUS
<1> QED
  BY <1>1, Zenon DEF Ring

--------------------------------------------------------------------------------
\* The lists after the one at h became new.
Relisted(ord, h, new) == [ord EXCEPT ![h] = new]

\* new is seq with o behind its first k elements.
Inserted(seq, k, o, new) ==
  /\ new \in Seq(Objects)
  /\ Len(new) = Len(seq) + 1
  /\ \A j \in 1..Len(new) : new[j] = IF j <= k THEN seq[j] ELSE IF j = k + 1 THEN o ELSE seq[j - 1]

\* new is seq without its k-th element.
Removed(seq, k, new) ==
  /\ new \in Seq(Objects)
  /\ Len(new) = Len(seq) - 1
  /\ \A j \in 1..Len(new) : new[j] = IF j < k THEN seq[j] ELSE seq[j + 1]

\* The node linked in behind the k-th stop becomes the next stop.
LEMMA RingAfterAdd ==
  ASSUME NEW m \in [Addr -> Words], NEW seq \in Seq(Objects), IsInjective(seq),
         NEW h \in Heads, Ring(m, h, seq),
         NEW k \in 0..Len(seq), NEW o \in Objects, o \notin Range(seq),
         NEW new, Inserted(seq, k, o, new),
         NEW mem2, mem2 = ps_list_ll_add(m, Stop(h, seq, k), ps_list(o))
  PROVE  /\ mem2 \in [Addr -> Words]
         /\ Ring(mem2, h, new)
         /\ \A l \in Addr :
              l # ps_list(o) /\ l # Stop(h, seq, k) /\ l # Stop(h, seq, k + 1) => mem2[l] = m[l]
<1> DEFINE n == Len(seq)
           a == ps_list(o)
<1>1. n \in Nat /\ k \in Nat /\ k <= n
  OBVIOUS
<1>2. /\ \A j \in 0..(n + 1) : Stop(h, seq, j) \in Addr
      /\ \A i, j \in 0..n : Stop(h, seq, i) = Stop(h, seq, j) => i = j
      /\ \A i, j \in 1..(n + 1) : Stop(h, seq, i) = Stop(h, seq, j) => i = j
      /\ Stop(h, seq, 0) = h /\ Stop(h, seq, n + 1) = h
      /\ \A j \in 1..n : Stop(h, seq, j) = ps_list(seq[j]) /\ seq[j] \in Objects
  BY Stops, Zenon
<1>3. a \in Addr /\ Addr \subseteq Int
  BY AddressesApart
<1>4. ASSUME NEW j \in 0..(n + 1) PROVE Stop(h, seq, j) # a
  <2>1. CASE j \in 1..n
    <3>1. seq[j] # o /\ seq[j] \in Objects /\ Stop(h, seq, j) = ps_list(seq[j])
      BY <2>1 DEF Range, Stop
    <3> QED
      BY <3>1, AddressesApart, Zenon
  <2>2. CASE j = 0 \/ j = n + 1
    BY <1>2, <2>2, AddressesApart
  <2> QED
    BY <1>1, <2>1, <2>2
<1>5. m[Stop(h, seq, k)].next = Stop(h, seq, k + 1)
  BY DEF Ring
<1>6. k \in 0..(n + 1) /\ k + 1 \in 0..(n + 1) /\ k + 1 \in 1..(n + 1) /\ k \in 0..n
  BY <1>1
<1>7. /\ mem2 \in [Addr -> Words]
      /\ \A l \in Addr :
           /\ mem2[l].next = IF l = a THEN Stop(h, seq, k + 1)
                             ELSE IF l = Stop(h, seq, k) THEN a ELSE m[l].next
           /\ mem2[l].previous = IF l = a THEN Stop(h, seq, k)
                                 ELSE IF l = Stop(h, seq, k + 1) THEN a ELSE m[l].previous
  <2>1. NodeAdded(Addr, m, Stop(h, seq, k), a, mem2)
    BY <1>2, <1>3, <1>4, <1>5, <1>6, AddWords
  <2> QED
    BY <1>5, <2>1, Zenon DEF NodeAdded
<1>8. \A j \in 0..(n + 2) :
        Stop(h, new, j) = IF j <= k THEN Stop(h, seq, j)
                          ELSE IF j = k + 1 THEN a ELSE Stop(h, seq, j - 1)
  <2> SUFFICES ASSUME NEW j \in 0..(n + 2)
               PROVE  Stop(h, new, j) = IF j <= k THEN Stop(h, seq, j)
                                        ELSE IF j = k + 1 THEN a ELSE Stop(h, seq, j - 1)
    OBVIOUS
  <2>1. CASE j = 0
    BY <1>1, <2>1 DEF Stop, Inserted
  <2>2. CASE j = n + 2
    BY <1>1, <2>2 DEF Stop, Inserted
  <2>3. CASE j \in 1..(n + 1) /\ j <= k
    BY <1>1, <2>3 DEF Stop, Inserted
  <2>4. CASE j \in 1..(n + 1) /\ j = k + 1
    BY <1>1, <2>4 DEF Stop, Inserted
  <2>5. CASE j \in 1..(n + 1) /\ j > k + 1
    BY <1>1, <2>5 DEF Stop, Inserted
  <2> QED
    BY <1>1, <2>1, <2>2, <2>3, <2>4, <2>5
<1>9. Len(new) = n + 1
  BY DEF Inserted
<1>10. ASSUME NEW j \in 0..(n + 1)
       PROVE  /\ mem2[Stop(h, new, j)].next = Stop(h, new, j + 1)
              /\ mem2[Stop(h, new, j + 1)].previous = Stop(h, new, j)
  <2>1. j \in Nat /\ j <= n + 1 /\ j \in 0..(n + 2) /\ j + 1 \in 0..(n + 2)
    BY <1>1
  <2>2. CASE j < k
    <3>1. Stop(h, new, j) = Stop(h, seq, j) /\ Stop(h, new, j + 1) = Stop(h, seq, j + 1)
      BY <1>1, <1>8, <2>1, <2>2
    <3>2. /\ j \in 0..n /\ j # k /\ j \in 0..(n + 1) /\ j + 1 \in 0..(n + 1)
          /\ j + 1 \in 1..(n + 1) /\ j + 1 # k + 1
      BY <1>1, <2>1, <2>2
    <3>3. /\ m[Stop(h, seq, j)].next = Stop(h, seq, j + 1)
          /\ m[Stop(h, seq, j + 1)].previous = Stop(h, seq, j)
      BY <3>2 DEF Ring
    <3>4. Stop(h, seq, j) # Stop(h, seq, k) /\ Stop(h, seq, j + 1) # Stop(h, seq, k + 1)
      BY <1>2, <1>6, <3>2, Zenon
    <3> QED
      BY <1>2, <1>4, <1>7, <3>1, <3>2, <3>3, <3>4
  <2>3. CASE j = k
    <3>1. Stop(h, new, j) = Stop(h, seq, k) /\ Stop(h, new, j + 1) = a
      BY <1>1, <1>8, <2>1, <2>3
    <3> QED
      BY <1>2, <1>3, <1>4, <1>6, <1>7, <3>1
  <2>4. CASE j = k + 1
    <3>1. Stop(h, new, j) = a /\ Stop(h, new, j + 1) = Stop(h, seq, k + 1)
      BY <1>1, <1>8, <2>1, <2>4
    <3> QED
      BY <1>2, <1>3, <1>4, <1>6, <1>7, <3>1
  <2>5. CASE j > k + 1
    <3>1. Stop(h, new, j) = Stop(h, seq, j - 1) /\ Stop(h, new, j + 1) = Stop(h, seq, j)
      BY <1>1, <1>8, <2>1, <2>5
    <3>2. /\ j - 1 \in 0..n /\ j - 1 # k /\ j - 1 \in 0..(n + 1) /\ j \in 0..(n + 1)
          /\ j \in 1..(n + 1) /\ j # k + 1 /\ (j - 1) + 1 = j
      BY <1>1, <2>1, <2>5
    <3>3. /\ m[Stop(h, seq, j - 1)].next = Stop(h, seq, j)
          /\ m[Stop(h, seq, j)].previous = Stop(h, seq, j - 1)
      BY <3>2, Zenon DEF Ring
    <3>4. Stop(h, seq, j - 1) # Stop(h, seq, k) /\ Stop(h, seq, j) # Stop(h, seq, k + 1)
      BY <1>2, <1>6, <3>2, Zenon
    <3> QED
      BY <1>2, <1>4, <1>7, <3>1, <3>2, <3>3, <3>4
  <2> QED
    BY <1>1, <2>1, <2>2, <2>3, <2>4, <2>5
<1>11. Ring(mem2, h, new)
  BY <1>9, <1>10, Zenon DEF Ring
<1>12. ASSUME NEW l \in Addr, l # a, l # Stop(h, seq, k), l # Stop(h, seq, k + 1)
       PROVE  mem2[l] = m[l]
  <2>1. mem2[l].next = m[l].next /\ mem2[l].previous = m[l].previous
    BY <1>7, <1>12, Zenon
  <2>2. mem2[l] \in Words /\ m[l] \in Words
    BY <1>7
  <2> QED
    BY <2>1, <2>2, SameWords, Zenon
<1> QED
  BY <1>7, <1>11, <1>12

\* The neighbours of the k-th stop become neighbours when its node goes.
LEMMA RingAfterRem ==
  ASSUME NEW m \in [Addr -> Words], NEW seq \in Seq(Objects), IsInjective(seq),
         NEW h \in Heads, Ring(m, h, seq),
         NEW k \in 1..Len(seq), NEW new, Removed(seq, k, new),
         NEW mem2, mem2 = ps_list_ll_rem(m, ps_list(seq[k]))
  PROVE  /\ mem2 \in [Addr -> Words]
         /\ Ring(mem2, h, new)
         /\ SelfLinked(mem2, ps_list(seq[k]))
         /\ \A l \in Addr :
              /\ l # ps_list(seq[k])
              /\ l # Stop(h, seq, k - 1)
              /\ l # Stop(h, seq, k + 1)
              => mem2[l] = m[l]
<1> DEFINE n == Len(seq)
           a == ps_list(seq[k])
<1>1. n \in Nat /\ k \in Nat /\ k >= 1 /\ k <= n
  OBVIOUS
<1>2. /\ \A j \in 0..(n + 1) : Stop(h, seq, j) \in Addr
      /\ \A i, j \in 0..n : Stop(h, seq, i) = Stop(h, seq, j) => i = j
      /\ \A i, j \in 1..(n + 1) : Stop(h, seq, i) = Stop(h, seq, j) => i = j
      /\ Stop(h, seq, k) = a
  <2>1. Stop(h, seq, k) = a
    BY DEF Stop
  <2> QED
    BY <2>1, Stops, Zenon
<1>3. Addr \subseteq Int
  BY AddressesApart
<1>4. /\ k - 1 \in 0..(n + 1) /\ k + 1 \in 0..(n + 1) /\ k \in 0..(n + 1)
      /\ k - 1 \in 0..n /\ k \in 0..n /\ k + 1 \in 1..(n + 1) /\ k \in 1..(n + 1)
      /\ k - 1 # k /\ k + 1 # k /\ (k - 1) + 1 = k
  BY <1>1
<1>5. m[a].next = Stop(h, seq, k + 1) /\ m[a].previous = Stop(h, seq, k - 1)
  BY <1>2, <1>4, Zenon DEF Ring
<1>6. /\ a \in Addr /\ Stop(h, seq, k - 1) \in Addr /\ Stop(h, seq, k + 1) \in Addr
      /\ Stop(h, seq, k - 1) # a /\ Stop(h, seq, k + 1) # a
  BY <1>2, <1>4, Zenon
<1>7. /\ mem2 \in [Addr -> Words]
      /\ \A l \in Addr :
           /\ mem2[l].next = IF l = a THEN a
                             ELSE IF l = Stop(h, seq, k - 1) THEN Stop(h, seq, k + 1)
                             ELSE m[l].next
           /\ mem2[l].previous = IF l = a THEN a
                                 ELSE IF l = Stop(h, seq, k + 1) THEN Stop(h, seq, k - 1)
                                 ELSE m[l].previous
  <2>1. NodeRemoved(Addr, m, a, mem2)
    BY <1>3, <1>5, <1>6, RemWords
  <2> QED
    BY <1>5, <2>1, Zenon DEF NodeRemoved
<1>8. \A j \in 0..n :
        Stop(h, new, j) = IF j < k THEN Stop(h, seq, j) ELSE Stop(h, seq, j + 1)
  <2> SUFFICES ASSUME NEW j \in 0..n
               PROVE  Stop(h, new, j) = IF j < k THEN Stop(h, seq, j) ELSE Stop(h, seq, j + 1)
    OBVIOUS
  <2>1. CASE j = 0
    BY <1>1, <2>1 DEF Stop, Removed
  <2>2. CASE j = n
    BY <1>1, <2>2 DEF Stop, Removed
  <2>3. CASE j \in 1..(n - 1) /\ j < k
    BY <1>1, <2>3 DEF Stop, Removed
  <2>4. CASE j \in 1..(n - 1) /\ j >= k
    BY <1>1, <2>4 DEF Stop, Removed
  <2> QED
    BY <1>1, <2>1, <2>2, <2>3, <2>4
<1>9. Len(new) = n - 1
  BY DEF Removed
<1>10. ASSUME NEW j \in 0..(n - 1)
       PROVE  /\ mem2[Stop(h, new, j)].next = Stop(h, new, j + 1)
              /\ mem2[Stop(h, new, j + 1)].previous = Stop(h, new, j)
  <2>1. j \in Nat /\ j <= n - 1 /\ j \in 0..n /\ j + 1 \in 0..n
    BY <1>1
  <2>2. CASE j < k - 1
    <3>1. Stop(h, new, j) = Stop(h, seq, j) /\ Stop(h, new, j + 1) = Stop(h, seq, j + 1)
      BY <1>1, <1>8, <2>1, <2>2
    <3>2. /\ j # k - 1 /\ j # k /\ j \in 0..(n + 1) /\ j + 1 \in 0..(n + 1)
          /\ j + 1 \in 1..(n + 1) /\ j + 1 # k + 1 /\ j + 1 # k
      BY <1>1, <2>1, <2>2
    <3>3. /\ m[Stop(h, seq, j)].next = Stop(h, seq, j + 1)
          /\ m[Stop(h, seq, j + 1)].previous = Stop(h, seq, j)
      BY <2>1, Zenon DEF Ring
    <3>4. /\ Stop(h, seq, j) # Stop(h, seq, k - 1) /\ Stop(h, seq, j) # a
          /\ Stop(h, seq, j + 1) # Stop(h, seq, k + 1) /\ Stop(h, seq, j + 1) # a
      BY <1>2, <1>4, <2>1, <3>2, Zenon
    <3> QED
      BY <1>2, <1>7, <3>1, <3>2, <3>3, <3>4
  <2>3. CASE j = k - 1
    <3>1. Stop(h, new, j) = Stop(h, seq, k - 1) /\ Stop(h, new, j + 1) = Stop(h, seq, k + 1)
      BY <1>1, <1>8, <2>1, <2>3
    <3> QED
      BY <1>6, <1>7, <3>1
  <2>4. CASE j >= k
    <3>1. Stop(h, new, j) = Stop(h, seq, j + 1) /\ Stop(h, new, j + 1) = Stop(h, seq, j + 2)
      BY <1>1, <1>8, <2>1, <2>4
    <3>2. /\ j + 1 # k - 1 /\ j + 1 # k /\ j + 1 \in 0..(n + 1) /\ j + 2 \in 0..(n + 1)
          /\ j + 2 \in 1..(n + 1) /\ j + 2 # k + 1 /\ j + 2 # k /\ (j + 1) + 1 = j + 2
      BY <1>1, <2>1, <2>4
    <3>3. /\ m[Stop(h, seq, j + 1)].next = Stop(h, seq, j + 2)
          /\ m[Stop(h, seq, j + 2)].previous = Stop(h, seq, j + 1)
      BY <2>1, <3>2, Zenon DEF Ring
    <3>4. /\ Stop(h, seq, j + 1) # Stop(h, seq, k - 1) /\ Stop(h, seq, j + 1) # a
          /\ Stop(h, seq, j + 2) # Stop(h, seq, k + 1) /\ Stop(h, seq, j + 2) # a
      BY <1>2, <1>4, <2>1, <3>2, Zenon
    <3> QED
      BY <1>2, <1>7, <3>1, <3>2, <3>3, <3>4
  <2> QED
    BY <1>1, <2>1, <2>2, <2>3, <2>4
<1>11. Ring(mem2, h, new)
  BY <1>9, <1>10, Zenon DEF Ring
<1>12. ASSUME NEW l \in Addr, l # a, l # Stop(h, seq, k - 1), l # Stop(h, seq, k + 1)
       PROVE  mem2[l] = m[l]
  <2>1. mem2[l].next = m[l].next /\ mem2[l].previous = m[l].previous
    BY <1>7, <1>12, Zenon
  <2>2. mem2[l] \in Words /\ m[l] \in Words
    BY <1>7
  <2> QED
    BY <2>1, <2>2, SameWords, Zenon
<1> QED
  BY <1>6, <1>7, <1>11, <1>12 DEF SelfLinked

--------------------------------------------------------------------------------
(***************************************************************************)
(* Every object stays on at most one list.                                 *)
(***************************************************************************)

LEMMA InsertedOnce ==
  ASSUME NEW ord, ListedOnce(ord), NEW h \in Heads, NEW k \in 0..Len(ord[h]), NEW o \in Objects,
         \A g \in Heads : o \notin Range(ord[g]),
         NEW new, Inserted(ord[h], k, o, new)
  PROVE  /\ ListedOnce(Relisted(ord, h, new))
         /\ Range(new) = Range(ord[h]) \cup {o}
<1>1. PICK seq : seq = ord[h]
  OBVIOUS
<1> DEFINE ord2 == Relisted(ord, h, new)
<1>2. /\ seq \in Seq(Objects) /\ Len(seq) \in Nat /\ DOMAIN seq = 1..Len(seq)
      /\ new \in Seq(Objects) /\ DOMAIN new = 1..Len(new) /\ Len(new) = Len(seq) + 1
      /\ k \in Nat /\ k <= Len(seq)
  BY <1>1 DEF ListedOnce, Inserted
<1>3. \A j \in 1..Len(new) :
        new[j] = IF j <= k THEN seq[j] ELSE IF j = k + 1 THEN o ELSE seq[j - 1]
  BY <1>1 DEF Inserted
<1>4. ASSUME NEW x \in Range(new) PROVE x \in Range(seq) \cup {o}
  <2>1. PICK j \in 1..Len(new) : new[j] = x
    BY <1>2 DEF Range
  <2>2. \/ j \in 1..Len(seq) /\ x = seq[j]
        \/ x = o
        \/ j - 1 \in 1..Len(seq) /\ x = seq[j - 1]
    BY <1>2, <1>3, <2>1
  <2> QED
    BY <1>2, <2>2 DEF Range
<1>5. ASSUME NEW x \in Range(seq) PROVE x \in Range(new)
  <2>1. PICK j \in 1..Len(seq) : seq[j] = x
    BY <1>2 DEF Range
  <2>2. \/ j \in 1..Len(new) /\ new[j] = x
        \/ j + 1 \in 1..Len(new) /\ new[j + 1] = x
    BY <1>2, <1>3, <2>1
  <2> QED
    BY <1>2, <2>2 DEF Range
<1>6. o \in Range(new)
  <2>1. k + 1 \in 1..Len(new) /\ new[k + 1] = o
    BY <1>2, <1>3
  <2> QED
    BY <1>2, <2>1 DEF Range
<1>7. IsInjective(new)
  <2> SUFFICES ASSUME NEW i \in 1..Len(new), NEW j \in 1..Len(new), new[i] = new[j]
               PROVE  i = j
    BY <1>2 DEF IsInjective
  <2>1. \A q \in 1..Len(seq) : seq[q] # o
    BY <1>1, <1>2 DEF Range
  <2>2. \A p, q \in 1..Len(seq) : seq[p] = seq[q] => p = q
    BY <1>1, <1>2 DEF ListedOnce, IsInjective
  <2>3. \A p \in 1..Len(new) :
          IF p = k + 1 THEN new[p] = o
          ELSE \E q \in 1..Len(seq) : new[p] = seq[q] /\ q = IF p <= k THEN p ELSE p - 1
    <3> SUFFICES ASSUME NEW p \in 1..Len(new), p # k + 1
                 PROVE  \E q \in 1..Len(seq) : new[p] = seq[q] /\ q = IF p <= k THEN p ELSE p - 1
      BY <1>2, <1>3
    <3>1. CASE p <= k
      BY <1>2, <1>3, <3>1
    <3>2. CASE ~(p <= k)
      <4>1. p - 1 \in 1..Len(seq) /\ new[p] = seq[p - 1]
        BY <1>2, <1>3, <3>2
      <4> QED
        BY <3>2, <4>1
    <3> QED
      BY <3>1, <3>2
  <2>4. CASE i = k + 1 \/ j = k + 1
    BY <2>1, <2>3, <2>4, Zenon
  <2>5. CASE i # k + 1 /\ j # k + 1
    <3>1. PICK q \in 1..Len(seq) : new[i] = seq[q] /\ q = IF i <= k THEN i ELSE i - 1
      BY <2>3, <2>5, Zenon
    <3>2. PICK r \in 1..Len(seq) : new[j] = seq[r] /\ r = IF j <= k THEN j ELSE j - 1
      BY <2>3, <2>5, Zenon
    <3>3. q = r
      BY <2>2, <3>1, <3>2, Zenon
    <3>4. i \in Nat /\ j \in Nat /\ k \in Nat
      BY <1>2
    <3>5. IF i <= k THEN q = i ELSE q = i - 1
      BY <3>1, Zenon
    <3>6. IF j <= k THEN r = j ELSE r = j - 1
      BY <3>2, Zenon
    <3> QED
      BY <2>5, <3>3, <3>4, <3>5, <3>6
  <2> QED
    BY <2>4, <2>5
<1>8. Range(new) = Range(seq) \cup {o}
  BY <1>4, <1>5, <1>6
<1>9. \A g \in Heads : ord2[g] = IF g = h THEN new ELSE ord[g]
  BY DEF ListedOnce, Relisted
<1>10. ord2 \in [Heads -> Seq(Objects)]
  BY <1>2 DEF ListedOnce, Relisted
<1> HIDE DEF ord2
<1>11. ASSUME NEW f \in Heads, NEW g \in Heads, f # g
       PROVE  Range(ord2[f]) \cap Range(ord2[g]) = {}
  <2>1. Range(ord[f]) \cap Range(ord[g]) = {} /\ o \notin Range(ord[f]) /\ o \notin Range(ord[g])
    BY <1>11 DEF ListedOnce
  <2> QED
    BY <1>1, <1>8, <1>9, <1>11, <2>1
<1>12. \A g \in Heads : IsInjective(ord2[g])
  BY <1>7, <1>9 DEF ListedOnce
<1> QED
  BY <1>1, <1>8, <1>10, <1>11, <1>12, Zenon DEF ListedOnce, ord2

LEMMA RemovedOnce ==
  ASSUME NEW ord, ListedOnce(ord), NEW h \in Heads, NEW k \in 1..Len(ord[h]),
         NEW new, Removed(ord[h], k, new)
  PROVE  /\ ListedOnce(Relisted(ord, h, new))
         /\ Range(new) = Range(ord[h]) \ {ord[h][k]}
<1>1. PICK seq : seq = ord[h]
  OBVIOUS
<1> DEFINE ord2 == Relisted(ord, h, new)
<1>2. /\ seq \in Seq(Objects) /\ Len(seq) \in Nat /\ DOMAIN seq = 1..Len(seq)
      /\ new \in Seq(Objects) /\ DOMAIN new = 1..Len(new) /\ Len(new) = Len(seq) - 1
      /\ k \in Nat /\ k >= 1 /\ k <= Len(seq)
  BY <1>1 DEF ListedOnce, Removed
<1>3. \A j \in 1..Len(new) : new[j] = IF j < k THEN seq[j] ELSE seq[j + 1]
  BY <1>1 DEF Removed
<1>4. \A p, q \in 1..Len(seq) : seq[p] = seq[q] => p = q
  BY <1>1, <1>2 DEF ListedOnce, IsInjective
<1>5. ASSUME NEW x \in Range(new) PROVE x \in Range(seq) \ {seq[k]}
  <2>1. PICK j \in 1..Len(new) : new[j] = x
    BY <1>2 DEF Range
  <2>2. PICK i \in 1..Len(seq) : i # k /\ seq[i] = x
    <3>1. CASE j < k
      BY <1>2, <1>3, <2>1, <3>1
    <3>2. CASE j >= k
      <4>1. j + 1 \in 1..Len(seq) /\ j + 1 # k /\ seq[j + 1] = x
        BY <1>2, <1>3, <2>1, <3>2
      <4> QED
        BY <4>1
    <3> QED
      BY <1>2, <3>1, <3>2
  <2> QED
    BY <1>2, <1>4, <2>2 DEF Range
<1>6. ASSUME NEW x \in Range(seq), x # seq[k] PROVE x \in Range(new)
  <2>1. PICK j \in 1..Len(seq) : seq[j] = x /\ j # k
    BY <1>2, <1>6 DEF Range
  <2>2. \/ j \in 1..Len(new) /\ new[j] = x
        \/ j - 1 \in 1..Len(new) /\ new[j - 1] = x
    BY <1>2, <1>3, <2>1
  <2> QED
    BY <1>2, <2>2 DEF Range
<1>7. IsInjective(new)
  <2> SUFFICES ASSUME NEW i \in 1..Len(new), NEW j \in 1..Len(new), new[i] = new[j]
               PROVE  i = j
    BY <1>2 DEF IsInjective
  <2>1. /\ i \in 1..Len(seq) /\ i + 1 \in 1..Len(seq)
        /\ j \in 1..Len(seq) /\ j + 1 \in 1..Len(seq)
    BY <1>2
  <2> QED
    BY <1>2, <1>3, <1>4, <2>1
<1>8. Range(new) = Range(seq) \ {seq[k]}
  BY <1>5, <1>6
<1>9. \A g \in Heads : ord2[g] = IF g = h THEN new ELSE ord[g]
  BY DEF ListedOnce, Relisted
<1>10. ord2 \in [Heads -> Seq(Objects)]
  BY <1>2 DEF ListedOnce, Relisted
<1> HIDE DEF ord2
<1>11. ASSUME NEW f \in Heads, NEW g \in Heads, f # g
       PROVE  Range(ord2[f]) \cap Range(ord2[g]) = {}
  <2>1. Range(ord[f]) \cap Range(ord[g]) = {}
    BY <1>11 DEF ListedOnce
  <2> QED
    BY <1>1, <1>8, <1>9, <1>11, <2>1
<1>12. \A g \in Heads : IsInjective(ord2[g])
  BY <1>7, <1>9 DEF ListedOnce
<1> QED
  BY <1>1, <1>8, <1>10, <1>11, <1>12, Zenon DEF ListedOnce, ord2

\* The stops of two lists, and the objects on neither, are apart.
LEMMA StopsApart ==
  ASSUME NEW ord, ListedOnce(ord), NEW g \in Heads, NEW i \in 0..(Len(ord[g]) + 1)
  PROVE  /\ \A h \in Heads : g # h => \A j \in 0..(Len(ord[h]) + 1) :
              Stop(g, ord[g], i) # Stop(h, ord[h], j)
         /\ \A o \in Objects : o \notin Range(ord[g]) => Stop(g, ord[g], i) # ps_list(o)
<1>1. \A h \in Heads : /\ ord[h] \in Seq(Objects) /\ DOMAIN ord[h] = 1..Len(ord[h])
                       /\ \A j \in 1..Len(ord[h]) : ord[h][j] \in Objects /\ ord[h][j] \in Range(ord[h])
  BY DEF ListedOnce, Range
<1>2. CASE i \in 1..Len(ord[g])
  <2>1. Stop(g, ord[g], i) = ps_list(ord[g][i]) /\ ord[g][i] \in Objects
    BY <1>1, <1>2 DEF Stop
  <2>2. ASSUME NEW h \in Heads, g # h, NEW j \in 0..(Len(ord[h]) + 1)
        PROVE  Stop(g, ord[g], i) # Stop(h, ord[h], j)
    <3>1. CASE j \in 1..Len(ord[h])
      <4>1. Stop(h, ord[h], j) = ps_list(ord[h][j])
        BY <3>1 DEF Stop
      <4>2. ord[g][i] # ord[h][j]
        BY <1>1, <1>2, <2>2, <3>1 DEF ListedOnce
      <4>3. ord[g][i] \in Objects /\ ord[h][j] \in Objects
        BY <1>1, <1>2, <3>1, Zenon
      <4> QED
        BY <2>1, <4>1, <4>2, <4>3, AddressesApart, Zenon
    <3>2. CASE j \notin 1..Len(ord[h])
      <4>1. Stop(h, ord[h], j) = h
        BY <3>2 DEF Stop
      <4>2. ps_list(ord[g][i]) \notin Heads
        BY <2>1, AddressesApart, Zenon
      <4> QED
        BY <2>1, <4>1, <4>2
    <3> QED
      BY <3>1, <3>2
  <2>3. ASSUME NEW o \in Objects, o \notin Range(ord[g]) PROVE Stop(g, ord[g], i) # ps_list(o)
    <3>1. ord[g][i] # o
      BY <1>1, <1>2, <2>3
    <3> QED
      BY <1>1, <1>2, <2>1, <3>1, AddressesApart
  <2> QED
    BY <2>2, <2>3
<1>3. CASE i \notin 1..Len(ord[g])
  <2>1. Stop(g, ord[g], i) = g
    BY <1>3 DEF Stop
  <2>2. ASSUME NEW h \in Heads, g # h, NEW j \in 0..(Len(ord[h]) + 1)
        PROVE  Stop(h, ord[h], j) # g
    <3>1. CASE j \in 1..Len(ord[h])
      <4>1. Stop(h, ord[h], j) = ps_list(ord[h][j])
        BY <3>1 DEF Stop
      <4> QED
        BY <1>1, <3>1, <4>1, AddressesApart
    <3>2. CASE j \notin 1..Len(ord[h])
      BY <2>2, <3>2 DEF Stop
    <3> QED
      BY <3>1, <3>2
  <2> QED
    BY <2>1, <2>2, AddressesApart
<1> QED
  BY <1>2, <1>3

\* Linking a free object in behind the k-th stop of a list keeps the links.
LEMMA AddKeepsLinks ==
  ASSUME NEW m, NEW ord, ListedOnce(ord), Links(m, ord),
         NEW h \in Heads, NEW k \in 0..Len(ord[h]), NEW o \in Objects,
         \A g \in Heads : o \notin Range(ord[g]),
         NEW new, Inserted(ord[h], k, o, new), NEW ord2, ord2 = Relisted(ord, h, new),
         NEW mem2, mem2 = ps_list_ll_add(m, Stop(h, ord[h], k), ps_list(o))
  PROVE  ListedOnce(ord2) /\ Links(mem2, ord2)
<1>1. ListedOnce(ord2) /\ Range(new) = Range(ord[h]) \cup {o}
  <2>1. ListedOnce(Relisted(ord, h, new)) /\ Range(new) = Range(ord[h]) \cup {o}
    BY InsertedOnce
  <2> QED
    BY <2>1, Zenon
<1>2. /\ m \in [Addr -> Words]
      /\ \A g \in Heads : ord[g] \in Seq(Objects) /\ IsInjective(ord[g]) /\ Ring(m, g, ord[g])
  BY RingIsRing DEF ListedOnce, Links
<1>3. /\ mem2 \in [Addr -> Words]
      /\ Ring(mem2, h, new)
      /\ \A l \in Addr : /\ l # ps_list(o)
                         /\ l # Stop(h, ord[h], k)
                         /\ l # Stop(h, ord[h], k + 1)
                         => mem2[l] = m[l]
  BY <1>2, RingAfterAdd
<1>4. \A g \in Heads : ord2[g] = IF g = h THEN new ELSE ord[g]
  BY DEF ListedOnce, Relisted
<1>5. \A g \in Heads : ord2[g] \in Seq(Objects) /\ IsInjective(ord2[g])
  BY <1>1 DEF ListedOnce
<1>6. k \in 0..(Len(ord[h]) + 1) /\ k + 1 \in 0..(Len(ord[h]) + 1)
  BY <1>2
<1>7. ASSUME NEW g \in Heads, g # h PROVE Ring(mem2, g, ord[g])
  <2>1. ASSUME NEW i \in 0..(Len(ord[g]) + 1)
        PROVE  mem2[Stop(g, ord[g], i)] = m[Stop(g, ord[g], i)]
    <3>1. /\ Stop(g, ord[g], i) # ps_list(o)
          /\ Stop(g, ord[g], i) # Stop(h, ord[h], k)
          /\ Stop(g, ord[g], i) # Stop(h, ord[h], k + 1)
      BY <1>6, <1>7, StopsApart
    <3>2. Stop(g, ord[g], i) \in Addr
      BY <1>2, Stops
    <3> QED
      BY <1>3, <3>1, <3>2
  <2> QED
    BY <1>2, <1>3, <2>1, RingElsewhere
<1>8. ASSUME NEW g \in Heads PROVE IsRing(mem2, g, ord2[g])
  <2>1. Ring(mem2, g, ord2[g])
    BY <1>3, <1>4, <1>7
  <2> QED
    BY <1>3, <1>5, <2>1, RingIsRing
<1>9. ASSUME NEW q \in Objects, \A g \in Heads : q \notin Range(ord2[g])
      PROVE  SelfLinked(mem2, ps_list(q))
  <2>1. q # o /\ \A g \in Heads : q \notin Range(ord[g])
    BY <1>1, <1>4, <1>9
  <2>2. /\ ps_list(q) # ps_list(o)
        /\ Stop(h, ord[h], k) # ps_list(q)
        /\ Stop(h, ord[h], k + 1) # ps_list(q)
        /\ ps_list(q) \in Addr
    <3>1. Stop(h, ord[h], k) # ps_list(q) /\ Stop(h, ord[h], k + 1) # ps_list(q)
      BY <1>6, <2>1, StopsApart, Zenon
    <3> QED
      BY <2>1, <3>1, AddressesApart, Zenon
  <2>3. SelfLinked(m, ps_list(q))
    BY <2>1 DEF Links
  <2> QED
    BY <1>3, <2>2, <2>3 DEF SelfLinked
<1> QED
  BY <1>1, <1>3, <1>8, <1>9 DEF Links

\* Taking the k-th object off a list keeps the links.
LEMMA RemKeepsLinks ==
  ASSUME NEW m, NEW ord, ListedOnce(ord), Links(m, ord),
         NEW h \in Heads, NEW k \in 1..Len(ord[h]),
         NEW new, Removed(ord[h], k, new), NEW ord2, ord2 = Relisted(ord, h, new),
         NEW mem2, mem2 = ps_list_ll_rem(m, ps_list(ord[h][k]))
  PROVE  ListedOnce(ord2) /\ Links(mem2, ord2)
<1> DEFINE o == ord[h][k]
<1>1. ListedOnce(ord2) /\ Range(new) = Range(ord[h]) \ {o}
  <2>1. ListedOnce(Relisted(ord, h, new)) /\ Range(new) = Range(ord[h]) \ {ord[h][k]}
    BY RemovedOnce
  <2> QED
    BY <2>1, Zenon
<1>2. /\ m \in [Addr -> Words]
      /\ \A g \in Heads : ord[g] \in Seq(Objects) /\ IsInjective(ord[g]) /\ Ring(m, g, ord[g])
  BY RingIsRing DEF ListedOnce, Links
<1>3. /\ mem2 \in [Addr -> Words]
      /\ Ring(mem2, h, new)
      /\ SelfLinked(mem2, ps_list(o))
      /\ \A l \in Addr : /\ l # ps_list(o)
                         /\ l # Stop(h, ord[h], k - 1)
                         /\ l # Stop(h, ord[h], k + 1)
                         => mem2[l] = m[l]
  BY <1>2, RingAfterRem
<1>4. \A g \in Heads : ord2[g] = IF g = h THEN new ELSE ord[g]
  BY DEF ListedOnce, Relisted
<1>5. \A g \in Heads : ord2[g] \in Seq(Objects) /\ IsInjective(ord2[g])
  BY <1>1 DEF ListedOnce
<1>6. /\ k - 1 \in 0..(Len(ord[h]) + 1) /\ k + 1 \in 0..(Len(ord[h]) + 1)
      /\ o \in Objects /\ o \in Range(ord[h])
  BY <1>2 DEF Range
<1>7. ASSUME NEW g \in Heads, g # h PROVE Ring(mem2, g, ord[g])
  <2>1. o \notin Range(ord[g])
    BY <1>6, <1>7 DEF ListedOnce
  <2>2. ASSUME NEW i \in 0..(Len(ord[g]) + 1)
        PROVE  mem2[Stop(g, ord[g], i)] = m[Stop(g, ord[g], i)]
    <3>1. /\ Stop(g, ord[g], i) # ps_list(o)
          /\ Stop(g, ord[g], i) # Stop(h, ord[h], k - 1)
          /\ Stop(g, ord[g], i) # Stop(h, ord[h], k + 1)
      BY <1>6, <1>7, <2>1, StopsApart
    <3>2. Stop(g, ord[g], i) \in Addr
      BY <1>2, Stops
    <3> QED
      BY <1>3, <3>1, <3>2
  <2> QED
    BY <1>2, <1>3, <2>2, RingElsewhere
<1>8. ASSUME NEW g \in Heads PROVE IsRing(mem2, g, ord2[g])
  <2>1. Ring(mem2, g, ord2[g])
    BY <1>3, <1>4, <1>7
  <2> QED
    BY <1>3, <1>5, <2>1, RingIsRing
<1>9. ASSUME NEW q \in Objects, q # o, \A g \in Heads : q \notin Range(ord2[g])
      PROVE  SelfLinked(mem2, ps_list(q))
  <2>1. \A g \in Heads : q \notin Range(ord[g])
    BY <1>1, <1>4, <1>9
  <2>2. /\ ps_list(q) # ps_list(o)
        /\ Stop(h, ord[h], k - 1) # ps_list(q)
        /\ Stop(h, ord[h], k + 1) # ps_list(q)
        /\ ps_list(q) \in Addr
    <3>1. Stop(h, ord[h], k - 1) # ps_list(q) /\ Stop(h, ord[h], k + 1) # ps_list(q)
      BY <1>6, <2>1, StopsApart, Zenon
    <3> QED
      BY <1>6, <1>9, <3>1, AddressesApart, Zenon
  <2>3. SelfLinked(m, ps_list(q))
    BY <2>1 DEF Links
  <2> QED
    BY <1>3, <2>2, <2>3 DEF SelfLinked
<1> QED
  BY <1>1, <1>3, <1>8, <1>9 DEF Links

--------------------------------------------------------------------------------
(***************************************************************************)
(* The sequences the calls are expected to leave.                          *)
(***************************************************************************)

LEMMA Insertions ==
  ASSUME NEW seq \in Seq(Objects), NEW o \in Objects
  PROVE  /\ \A k \in 0..Len(seq) : Inserted(seq, k, o, InsertAt(seq, k + 1, o))
         /\ Inserted(seq, 0, o, <<o>> \o seq)
         /\ Inserted(seq, Len(seq), o, Append(seq, o))
<1>1. Len(seq) \in Nat
  OBVIOUS
<1>2. ASSUME NEW k \in 0..Len(seq) PROVE Inserted(seq, k, o, InsertAt(seq, k + 1, o))
  <2>1. PICK new : new = OrderedInsert(seq, o, k)
    OBVIOUS
  <2>2. /\ new \in Seq(Objects)
        /\ Len(new) = Len(seq) + 1
        /\ \A j \in 1..Len(new) :
             new[j] = IF j <= k THEN seq[j] ELSE IF j = k + 1 THEN o ELSE seq[j - 1]
    BY <2>1, InsertPositions
  <2> QED
    BY <2>1, <2>2, Zenon DEF Inserted, OrderedInsert
<1>3. Inserted(seq, 0, o, <<o>> \o seq)
  BY <1>1 DEF Inserted
<1>4. Inserted(seq, Len(seq), o, Append(seq, o))
  BY <1>1 DEF Inserted
<1> QED
  BY <1>2, <1>3, <1>4

LEMMA Removals ==
  ASSUME NEW seq \in Seq(Objects), NEW k \in 1..Len(seq)
  PROVE  /\ Removed(seq, k, RemoveAt(seq, k))
         /\ IsInjective(seq) => RemoveFirst(seq, seq[k]) = RemoveAt(seq, k)
<1>1. Len(seq) \in Nat /\ k \in Nat /\ k >= 1 /\ k <= Len(seq) /\ DOMAIN seq = 1..Len(seq)
  OBVIOUS
<1>2. Removed(seq, k, RemoveAt(seq, k))
  <2> DEFINE front == SubSeq(seq, 1, k - 1)
             back  == SubSeq(seq, k + 1, Len(seq))
  <2>1. /\ front \in Seq(Objects) /\ Len(front) = k - 1
        /\ \A j \in 1..(k - 1) : front[j] = seq[j]
    BY <1>1
  <2>2. /\ back \in Seq(Objects) /\ Len(back) = Len(seq) - k
        /\ \A j \in 1..(Len(seq) - k) : back[j] = seq[k + j]
    <3>1. Len(seq) \in Nat /\ k \in Nat /\ k <= Len(seq)
      OBVIOUS
    <3> QED
      BY <3>1
  <2>3. RemoveAt(seq, k) = front \o back
    BY DEF RemoveAt
  <2> HIDE DEF front, back
  <2>4. /\ front \o back \in Seq(Objects) /\ Len(front \o back) = Len(seq) - 1
        /\ \A j \in 1..(Len(seq) - 1) :
             (front \o back)[j] = IF j <= k - 1 THEN front[j] ELSE back[j - (k - 1)]
    <3>1. front \in Seq(Objects) /\ back \in Seq(Objects)
      BY <2>1, <2>2
    <3>2. front \o back \in Seq(Objects) /\ Len(front \o back) = Len(front) + Len(back)
      BY <3>1
    <3>3. Len(front) + Len(back) = Len(seq) - 1
      BY <1>1, <2>1, <2>2
    <3>4. \A j \in 1..(Len(front) + Len(back)) :
            (front \o back)[j] = IF j <= Len(front) THEN front[j] ELSE back[j - Len(front)]
      BY <3>1
    <3> QED
      BY <2>1, <3>2, <3>3, <3>4, Zenon
  <2>5. ASSUME NEW j \in 1..(Len(seq) - 1)
        PROVE  (front \o back)[j] = IF j < k THEN seq[j] ELSE seq[j + 1]
    <3>1. CASE j < k
      BY <1>1, <2>1, <2>4, <3>1
    <3>2. CASE j >= k
      <4>1. j - (k - 1) \in 1..(Len(seq) - k) /\ k + (j - (k - 1)) = j + 1
        BY <1>1, <3>2
      <4>2. (front \o back)[j] = back[j - (k - 1)]
        BY <1>1, <2>4, <3>2
      <4>3. back[j - (k - 1)] = seq[j + 1] /\ ~(j < k)
        BY <1>1, <2>2, <3>2, <4>1
      <4> QED
        BY <4>2, <4>3, Zenon
    <3>3. j < k \/ j >= k
      BY <1>1
    <3> QED
      BY <3>1, <3>2, <3>3, Zenon
  <2> QED
    BY <2>3, <2>4, <2>5, Zenon DEF Removed
<1>3. ASSUME IsInjective(seq) PROVE RemoveFirst(seq, seq[k]) = RemoveAt(seq, k)
  <2>1. {i \in 1..Len(seq) : seq[i] = seq[k]} = {k}
    BY <1>1, <1>3 DEF IsInjective
  <2>2. Min({k}) = k
    BY <1>1 DEF Min
  <2>3. RemoveFirst(seq, seq[k]) = RemoveAt(seq, Min({i \in 1..Len(seq) : seq[i] = seq[k]}))
    BY <2>1 DEF RemoveFirst, SelectInSeq
  <2> QED
    BY <2>1, <2>2, <2>3
<1> QED
  BY <1>2, <1>3

--------------------------------------------------------------------------------
(***************************************************************************)
(* The calls, and the loop.                                                *)
(***************************************************************************)

\* What the pointers at a stop lead to.
LEMMA Neighbours ==
  ASSUME NEW m, NEW ord, ListedOnce(ord), Links(m, ord), NEW h \in Heads
  PROVE  /\ ord[h] \in Seq(Objects) /\ IsInjective(ord[h])
         /\ Stop(h, ord[h], 0) = h
         /\ \A k \in 1..Len(ord[h]) : Stop(h, ord[h], k) = ps_list(ord[h][k])
         /\ \A k \in 0..Len(ord[h]) :
              /\ At(m, Stop(h, ord[h], k)).next = Stop(h, ord[h], k + 1)
              /\ At(m, Stop(h, ord[h], k + 1)).previous = Stop(h, ord[h], k)
              /\ ps_list(ps_container(Stop(h, ord[h], k))) = Stop(h, ord[h], k)
              /\ ps_container(Stop(h, ord[h], k + 1)) =
                   IF k = Len(ord[h]) THEN ps_container(h) ELSE ord[h][k + 1]
<1>1. PICK seq : seq = ord[h]
  OBVIOUS
<1>2. /\ seq \in Seq(Objects) /\ IsInjective(seq) /\ Len(seq) \in Nat /\ m \in [Addr -> Words]
      /\ Ring(m, h, seq)
  BY <1>1, RingIsRing DEF ListedOnce, Links
<1>3. /\ \A k \in 0..(Len(seq) + 1) : Stop(h, seq, k) \in Addr /\ Stop(h, seq, k) \in Int
      /\ Stop(h, seq, 0) = h /\ Stop(h, seq, Len(seq) + 1) = h
      /\ \A k \in 1..Len(seq) : Stop(h, seq, k) = ps_list(seq[k]) /\ seq[k] \in Objects
  BY <1>2, Stops
<1>4. ASSUME NEW k \in 0..Len(seq)
      PROVE  /\ At(m, Stop(h, seq, k)).next = Stop(h, seq, k + 1)
             /\ At(m, Stop(h, seq, k + 1)).previous = Stop(h, seq, k)
             /\ ps_list(ps_container(Stop(h, seq, k))) = Stop(h, seq, k)
             /\ ps_container(Stop(h, seq, k + 1)) =
                  IF k = Len(seq) THEN ps_container(h) ELSE seq[k + 1]
  <2>1. k \in 0..(Len(seq) + 1) /\ k + 1 \in 0..(Len(seq) + 1)
    BY <1>2
  <2>2. /\ At(m, Stop(h, seq, k)).next = Stop(h, seq, k + 1)
        /\ At(m, Stop(h, seq, k + 1)).previous = Stop(h, seq, k)
    BY <1>2, <1>3, <2>1 DEF At, Ring
  <2>3. ps_list(ps_container(Stop(h, seq, k))) = Stop(h, seq, k)
    BY <1>3, <2>1, AddressesApart
  <2>4. CASE k = Len(seq)
    BY <1>3, <2>2, <2>3, <2>4
  <2>5. CASE k # Len(seq)
    <3>1. k + 1 \in 1..Len(seq)
      BY <1>2, <2>5
    <3> QED
      BY <1>3, <2>2, <2>3, <2>5, <3>1, AddressesApart
  <2> QED
    BY <2>4, <2>5
<1> QED
  BY <1>1, <1>2, <1>3, <1>4

\* todo is seq from its k-th element on.
EndFrom(seq, todo, k) ==
  /\ k \in 1..Len(seq)
  /\ todo[1] = seq[k]
  /\ k = Len(seq) <=> Len(todo) = 1
  /\ Len(todo) # 1 => todo[2] = seq[k + 1]
  /\ Tail(todo) \in Seq(Objects)
  /\ Len(Tail(todo)) = Len(todo) - 1
  /\ Tail(todo) = <<>> <=> Len(todo) = 1
  /\ Len(todo) # 1 => Tail(todo)[1] = todo[2]
  /\ \A j \in 1..Len(Tail(todo)) : Tail(todo)[j] = seq[k + j]

\* What is left of a list: its first object, and what follows that.
LEMMA EndOfList ==
  ASSUME NEW seq \in Seq(Objects), NEW todo \in Seq(Objects), IsEnd(seq, todo), todo # <<>>,
         NEW k, k = Len(seq) - Len(todo) + 1
  PROVE  EndFrom(seq, todo, k)
<1>1. PICK n, t : n = Len(seq) /\ t = Len(todo)
  OBVIOUS
<1>2. n \in Nat /\ t \in Nat /\ t >= 1 /\ t <= n
  BY <1>1 DEF IsEnd
<1>3. k = n - t + 1
  BY <1>1
<1>4. k \in 1..n /\ (k = n <=> t = 1) /\ 1 \in 1..t /\ (n - t) + 1 = k
  BY <1>2, <1>3
<1>5. \A j \in 1..t : todo[j] = seq[(n - t) + j]
  BY <1>1 DEF IsEnd
<1>6. todo[1] = seq[k]
  BY <1>4, <1>5
<1>7. ASSUME t # 1 PROVE todo[2] = seq[k + 1]
  <2>1. 2 \in 1..t /\ (n - t) + 2 = k + 1
    BY <1>2, <1>3, <1>7
  <2> QED
    BY <1>5, <2>1
<1>8. /\ Tail(todo) \in Seq(Objects)
      /\ Len(Tail(todo)) = t - 1
      /\ \A j \in 1..(t - 1) : Tail(todo)[j] = todo[j + 1]
  BY <1>1
<1>9. Tail(todo) = <<>> <=> t = 1
  <2>1. \A s \in Seq(Objects) : s = <<>> <=> Len(s) = 0
    OBVIOUS
  <2>2. t - 1 = 0 <=> t = 1
    BY <1>2
  <2> QED
    BY <1>8, <2>1, <2>2
<1>10. ASSUME t # 1 PROVE Tail(todo)[1] = todo[2]
  <2>1. 1 \in 1..(t - 1) /\ 1 + 1 = 2
    BY <1>2, <1>10
  <2> QED
    BY <1>8, <2>1
<1>11. ASSUME NEW j \in 1..(t - 1) PROVE Tail(todo)[j] = seq[k + j]
  <2>1. j + 1 \in 1..t /\ (n - t) + (j + 1) = k + j
    BY <1>2, <1>3
  <2> QED
    BY <1>5, <1>8, <2>1
<1> QED
  BY <1>1, <1>4, <1>6, <1>7, <1>8, <1>9, <1>10, <1>11 DEF EndFrom

\* A loop that comes to the front of what is left of its list.
LEMMA LoopComesTo ==
  ASSUME NEW m, NEW ord, ListedOnce(ord), Links(m, ord),
         NEW l \in [head : Heads, iter : Int, tmp : Int, todo : Seq(Objects)],
         IsEnd(ord[l.head], l.todo),
         l.iter = IF l.todo = <<>> THEN ps_container(l.head) ELSE l.todo[1],
         l.tmp = ps_list_next(m, l.iter)
  PROVE  LoopAt(ord, l)
<1>1. PICK seq, todo, h : seq = ord[l.head] /\ todo = l.todo /\ h = l.head
  OBVIOUS
<1>2. seq \in Seq(Objects) /\ todo \in Seq(Objects) /\ h \in Heads /\ IsEnd(seq, todo)
  BY <1>1 DEF ListedOnce
<1>3. ASSUME todo # <<>>
      PROVE  l.tmp = IF Len(todo) = 1 THEN ps_container(h) ELSE todo[2]
  <2>1. PICK k : k = Len(seq) - Len(todo) + 1
    OBVIOUS
  <2>2. /\ k \in 1..Len(seq)
        /\ todo[1] = seq[k]
        /\ k = Len(seq) <=> Len(todo) = 1
        /\ Len(todo) # 1 => todo[2] = seq[k + 1]
    <3>1. EndFrom(seq, todo, k)
      BY <1>2, <1>3, <2>1, EndOfList
    <3> QED
      BY <3>1 DEF EndFrom
  <2>3. l.iter = seq[k]
    BY <1>1, <1>3, <2>2, Zenon
  <2>4. l.tmp = ps_container(At(m, Stop(h, seq, k)).next)
    BY <2>2, <2>3, Zenon DEF ps_list_next, Stop
  <2>5. k \in 0..Len(seq)
    BY <2>2
  <2>6. l.tmp = IF k = Len(seq) THEN ps_container(h) ELSE seq[k + 1]
    BY <1>1, <1>2, <2>4, <2>5, Neighbours
  <2> QED
    BY <2>2, <2>6, Zenon
<1> QED
  BY <1>1, <1>3 DEF LoopAt

\* The loop's iter is the k-th object of its list, its tmp what follows.
StandsOn(seq, l, k) ==
  /\ k \in 1..Len(seq)
  /\ l.iter = seq[k]
  /\ Tail(l.todo) \in Seq(Objects)
  /\ Len(Tail(l.todo)) = Len(l.todo) - 1
  /\ \A j \in 1..Len(Tail(l.todo)) : Tail(l.todo)[j] = seq[k + j]
  /\ l.tmp = IF Tail(l.todo) = <<>> THEN ps_container(l.head) ELSE Tail(l.todo)[1]

\* A loop that has not come back to its head stands on an object of its list,
\* and its tmp on the one after that.
LEMMA LoopStandsOn ==
  ASSUME NEW ord, ListedOnce(ord), NEW l, LoopAt(ord, l), ~ps_list_is_head(l.head, l.iter),
         NEW k, k = Len(ord[l.head]) - Len(l.todo) + 1
  PROVE  StandsOn(ord[l.head], l, k)
<1>1. PICK seq, todo : seq = ord[l.head] /\ todo = l.todo
  OBVIOUS
<1>2. seq \in Seq(Objects) /\ todo \in Seq(Objects) /\ IsEnd(seq, todo)
  BY <1>1 DEF LoopAt, ListedOnce
<1>3. todo # <<>>
  BY <1>1 DEF LoopAt, ps_list_is_head
<1>4. k = Len(seq) - Len(todo) + 1
  BY <1>1
<1>5. /\ k \in 1..Len(seq)
      /\ todo[1] = seq[k]
      /\ Tail(todo) \in Seq(Objects)
      /\ Len(Tail(todo)) = Len(todo) - 1
      /\ Tail(todo) = <<>> <=> Len(todo) = 1
      /\ Len(todo) # 1 => Tail(todo)[1] = todo[2]
      /\ \A j \in 1..Len(Tail(todo)) : Tail(todo)[j] = seq[k + j]
  <2>1. EndFrom(seq, todo, k)
    BY <1>2, <1>3, <1>4, EndOfList
  <2> QED
    BY <2>1 DEF EndFrom
<1>6. /\ l.iter = todo[1]
      /\ l.tmp = IF Len(todo) = 1 THEN ps_container(l.head) ELSE todo[2]
  BY <1>1, <1>3 DEF LoopAt
<1> QED
  BY <1>1, <1>5, <1>6, Zenon DEF StandsOn

LEMMA FreeObjects ==
  ASSUME NEW o
  PROVE  o \in Free <=> o \in Objects /\ \A h \in Heads : o \notin Range(order[h])
BY DEF Free, Listed

\* Every way of putting a free object on a list links it in behind a stop.
LEMMA AddedBehind ==
  ASSUME UseInv, NEW h \in Heads, NEW k \in 0..Len(order[h]), NEW o \in Free,
         NEW new, Inserted(order[h], k, o, new),
         mem' = ps_list_ll_add(mem, Stop(h, order[h], k), ps_list(o)),
         order' = [order EXCEPT ![h] = new]
  PROVE  ListedOnce(order') /\ Links(mem', order')
<1>1. o \in Objects /\ \A g \in Heads : o \notin Range(order[g])
  BY FreeObjects
<1>2. order' = Relisted(order, h, new)
  BY DEF Relisted
<1>3. PICK mem2, ord2 : mem2 = mem' /\ ord2 = order'
  OBVIOUS
<1>4. ListedOnce(ord2) /\ Links(mem2, ord2)
  BY <1>1, <1>2, <1>3, AddKeepsLinks DEF UseInv
<1> QED
  BY <1>3, <1>4

LEMMA HeadAddKeeps ==
  ASSUME UseInv, NEW h \in Heads, NEW o \in Objects, HeadAdd(h, o)
  PROVE  ListedOnce(order') /\ Links(mem', order')
<1>1. order[h] \in Seq(Objects) /\ o \in Free /\ o \in Objects
  BY DEF UseInv, ListedOnce, HeadAdd
<1>2. Inserted(order[h], 0, o, <<o>> \o order[h]) /\ 0 \in 0..Len(order[h])
  BY <1>1, Insertions
<1>3. mem' = ps_list_ll_add(mem, Stop(h, order[h], 0), ps_list(o))
  BY DEF HeadAdd, ps_list_head_add, Stop
<1>4. order' = [order EXCEPT ![h] = <<o>> \o order[h]]
  BY DEF HeadAdd
<1> QED
  BY <1>1, <1>2, <1>3, <1>4, AddedBehind

LEMMA HeadAppendKeeps ==
  ASSUME UseInv, NEW h \in Heads, NEW o \in Objects, HeadAppend(h, o)
  PROVE  ListedOnce(order') /\ Links(mem', order')
<1> DEFINE k == Len(order[h])
<1>1. order[h] \in Seq(Objects) /\ o \in Free /\ o \in Objects
  BY DEF UseInv, ListedOnce, HeadAppend
<1>2. Inserted(order[h], k, o, Append(order[h], o)) /\ k \in 0..Len(order[h])
  <2>1. Inserted(order[h], k, o, Append(order[h], o))
    BY <1>1, Insertions, Zenon
  <2>2. k \in 0..Len(order[h])
    BY <1>1
  <2> QED
    BY <2>1, <2>2
<1>3. mem' = ps_list_ll_add(mem, Stop(h, order[h], k), ps_list(o))
  <2>1. Stop(h, order[h], k + 1) = h
    BY <1>1 DEF Stop
  <2>2. At(mem, h).previous = Stop(h, order[h], k)
    BY <1>2, <2>1, Neighbours DEF UseInv
  <2> QED
    BY <2>2 DEF HeadAppend, ps_list_head_append
<1>4. order' = [order EXCEPT ![h] = Append(order[h], o)]
  BY DEF HeadAppend
<1> QED
  BY <1>1, <1>2, <1>3, <1>4, AddedBehind

LEMMA AddAfterKeeps ==
  ASSUME UseInv, NEW h \in Heads, NEW k \in DOMAIN order[h], NEW o \in Objects, AddAfter(h, k, o)
  PROVE  ListedOnce(order') /\ Links(mem', order')
<1>1. order[h] \in Seq(Objects) /\ o \in Free /\ o \in Objects
  BY DEF UseInv, ListedOnce, AddAfter
<1>2. k \in 1..Len(order[h]) /\ k \in 0..Len(order[h])
  BY <1>1
<1>3. Inserted(order[h], k, o, InsertAt(order[h], k + 1, o))
  BY <1>1, <1>2, Insertions
<1>4. mem' = ps_list_ll_add(mem, Stop(h, order[h], k), ps_list(o))
  BY <1>2, Zenon DEF AddAfter, ps_list_add, Stop
<1>5. order' = [order EXCEPT ![h] = InsertAt(order[h], k + 1, o)]
  BY DEF AddAfter
<1> QED
  BY <1>1, <1>2, <1>3, <1>4, <1>5, AddedBehind

LEMMA AppendBeforeKeeps ==
  ASSUME UseInv, NEW h \in Heads, NEW k \in DOMAIN order[h], NEW o \in Objects,
         AppendBefore(h, k, o)
  PROVE  ListedOnce(order') /\ Links(mem', order')
<1>1. order[h] \in Seq(Objects) /\ o \in Free /\ o \in Objects
  BY DEF UseInv, ListedOnce, AppendBefore
<1>2. PICK j : j = k - 1
  OBVIOUS
<1>3. k \in 1..Len(order[h]) /\ j \in 0..Len(order[h]) /\ j + 1 = k
  BY <1>1, <1>2
<1>4. Inserted(order[h], j, o, InsertAt(order[h], k, o))
  BY <1>1, <1>3, Insertions
<1>5. mem' = ps_list_ll_add(mem, Stop(h, order[h], j), ps_list(o))
  <2>1. Stop(h, order[h], k) = ps_list(order[h][k])
    BY <1>3 DEF Stop
  <2>2. At(mem, ps_list(order[h][k])).previous = Stop(h, order[h], j)
    BY <1>3, <2>1, Neighbours DEF UseInv
  <2>3. ps_list(ps_list_prev(mem, order[h][k])) = Stop(h, order[h], j)
    BY <1>3, <2>2, Neighbours DEF UseInv, ps_list_prev
  <2> QED
    BY <2>3 DEF AppendBefore, ps_list_append, ps_list_add
<1>6. order' = [order EXCEPT ![h] = InsertAt(order[h], k, o)]
  BY DEF AppendBefore
<1> QED
  BY <1>1, <1>3, <1>4, <1>5, <1>6, AddedBehind

\* Taking the k-th object off, by a call or by the body of a loop.
LEMMA TakenOff ==
  ASSUME UseInv, NEW h \in Heads, NEW k \in 1..Len(order[h]),
         mem' = ps_list_rem(mem, order[h][k]),
         order' = [order EXCEPT ![h] = RemoveAt(order[h], k)]
  PROVE  ListedOnce(order') /\ Links(mem', order') /\ Removed(order[h], k, order'[h])
<1>1. order \in [Heads -> Seq(Objects)] /\ order[h] \in Seq(Objects)
  BY DEF UseInv, ListedOnce
<1>2. PICK new : new = RemoveAt(order[h], k)
  OBVIOUS
<1>3. Removed(order[h], k, new)
  BY <1>1, <1>2, Removals
<1>4. order' = Relisted(order, h, new) /\ order'[h] = new
  BY <1>1, <1>2 DEF Relisted
<1>5. mem' = ps_list_ll_rem(mem, ps_list(order[h][k]))
  BY DEF ps_list_rem
<1>6. PICK mem2, ord2 : mem2 = mem' /\ ord2 = order'
  OBVIOUS
<1>7. ListedOnce(ord2) /\ Links(mem2, ord2)
  BY <1>3, <1>4, <1>5, <1>6, RemKeepsLinks DEF UseInv
<1> QED
  BY <1>3, <1>4, <1>6, <1>7

LEMMA EditKeeps == UseInv /\ Edit => UseInv'
<1> SUFFICES ASSUME UseInv, Edit PROVE UseInv'
  OBVIOUS
<1>1. PICK h \in Heads :
        \/ \E o \in Objects : HeadAdd(h, o) \/ HeadAppend(h, o)
        \/ \E k \in DOMAIN order[h], o \in Objects : AddAfter(h, k, o) \/ AppendBefore(h, k, o)
        \/ \E k \in DOMAIN order[h] : TakeOff(h, k)
  BY DEF Edit
<1>2. ListedOnce(order') /\ Links(mem', order')
  <2>1. CASE \E o \in Objects : HeadAdd(h, o) \/ HeadAppend(h, o)
    BY <2>1, HeadAddKeeps, HeadAppendKeeps, Zenon
  <2>2. CASE \E k \in DOMAIN order[h], o \in Objects : AddAfter(h, k, o) \/ AppendBefore(h, k, o)
    BY <2>2, AddAfterKeeps, AppendBeforeKeeps, Zenon
  <2>3. CASE \E k \in DOMAIN order[h] : TakeOff(h, k)
    <3>1. PICK k \in DOMAIN order[h] : TakeOff(h, k)
      BY <2>3
    <3>2. k \in 1..Len(order[h])
      BY DEF UseInv, ListedOnce
    <3>3. /\ mem' = ps_list_rem(mem, order[h][k])
          /\ order' = [order EXCEPT ![h] = RemoveAt(order[h], k)]
      BY <3>1 DEF TakeOff
    <3> QED
      BY <3>2, <3>3, TakenOff
  <2> QED
    BY <1>1, <2>1, <2>2, <2>3, Zenon
<1>3. loop' = NoLoop
  BY DEF Edit
<1> QED
  BY <1>2, <1>3 DEF UseInv

LEMMA WordsAreNumbers ==
  ASSUME NEW m \in [Addr -> Words], NEW i \in Int
  PROVE  ps_list_next(m, i) \in Int
<1>1. At(m, ps_list(i)).next \in Int
  <2>1. CASE ps_list(i) \in Addr
    BY <2>1 DEF At, Words
  <2>2. CASE ps_list(i) \notin Addr
    BY <2>2 DEF At
  <2> QED
    BY <2>1, <2>2
<1> QED
  BY <1>1, AddressesApart DEF ps_list_next

LEMMA StartLoopKeeps == UseInv /\ StartLoop => UseInv'
<1> SUFFICES ASSUME UseInv, StartLoop PROVE UseInv'
  OBVIOUS
<1>0. PICK h \in Heads :
        loop' = [head |-> h, iter |-> ps_list_head_first(mem, h),
                 tmp |-> ps_list_next(mem, ps_list_head_first(mem, h)), todo |-> order[h]]
  BY DEF StartLoop
<1>1. PICK first :
        /\ first = ps_list_head_first(mem, h)
        /\ loop' = [head |-> h, iter |-> first, tmp |-> ps_list_next(mem, first),
                    todo |-> order[h]]
  BY <1>0
<1>2. mem' = mem /\ order' = order
  BY DEF StartLoop
<1>3. ListedOnce(order) /\ Links(mem, order) /\ mem \in [Addr -> Words]
  BY DEF UseInv, Links
<1>4. order[h] \in Seq(Objects) /\ Len(order[h]) \in Nat
  BY <1>3 DEF ListedOnce
<1>5. first = IF order[h] = <<>> THEN ps_container(h) ELSE order[h][1]
  <2>1. first = ps_container(Stop(h, order[h], 1))
    <3>1. At(mem, Stop(h, order[h], 0)).next = Stop(h, order[h], 0 + 1) /\ Stop(h, order[h], 0) = h
      BY <1>3, <1>4, Neighbours
    <3> QED
      BY <1>1, <3>1 DEF ps_list_head_first
  <2>2. ps_container(Stop(h, order[h], 1)) =
          IF 0 = Len(order[h]) THEN ps_container(h) ELSE order[h][1]
    <3>1. ps_container(Stop(h, order[h], 0 + 1)) =
            IF 0 = Len(order[h]) THEN ps_container(h) ELSE order[h][0 + 1]
      BY <1>3, <1>4, Neighbours
    <3> QED
      BY <3>1
  <2>3. order[h] = <<>> <=> Len(order[h]) = 0
    BY <1>4
  <2> QED
    BY <2>1, <2>2, <2>3
<1>6. first \in Int
  <2>1. order[h] # <<>> => order[h][1] \in Objects
    BY <1>4
  <2> QED
    BY <1>5, <2>1, AddressesApart
<1>7. PICK l : l = loop'
  OBVIOUS
<1>8. /\ l \in [head : Heads, iter : Int, tmp : Int, todo : Seq(Objects)]
      /\ l.head = h /\ l.iter = first /\ l.tmp = ps_list_next(mem, first) /\ l.todo = order[h]
  BY <1>1, <1>3, <1>4, <1>6, <1>7, WordsAreNumbers
<1>9. IsEnd(order[h], order[h])
  BY <1>4 DEF IsEnd
<1>10. LoopAt(order, l)
  BY <1>3, <1>5, <1>8, <1>9, LoopComesTo
<1> QED
  BY <1>2, <1>3, <1>7, <1>10 DEF UseInv

\* The third expression of the loop, after a body that left memory m and what
\* it should of the list: the object behind iter is next, or the head is.
LEMMA AdvanceKeeps ==
  ASSUME UseInv, InLoop, NEW m, NEW ord, ListedOnce(ord), Links(m, ord),
         ord[loop.head] = order[loop.head]
           \/ Removed(order[loop.head], Len(order[loop.head]) - Len(loop.todo) + 1, ord[loop.head]),
         NEW l, l = Advance(m)
  PROVE  LoopAt(ord, l)
<1>1. PICK k, seq, new, todo :
        /\ k = Len(order[loop.head]) - Len(loop.todo) + 1
        /\ seq = order[loop.head]
        /\ new = ord[loop.head]
        /\ todo = Tail(loop.todo)
  OBVIOUS
<1>2. LoopAt(order, loop) /\ ListedOnce(order) /\ ~ps_list_is_head(loop.head, loop.iter)
  BY DEF UseInv, InLoop
<1>3. /\ loop \in [head : Heads, iter : Int, tmp : Int, todo : Seq(Objects)]
      /\ m \in [Addr -> Words]
  BY <1>2 DEF LoopAt, Links
<1>4. /\ k \in 1..Len(seq)
      /\ todo \in Seq(Objects)
      /\ Len(todo) = Len(loop.todo) - 1
      /\ \A j \in 1..Len(todo) : todo[j] = seq[k + j]
      /\ loop.tmp = IF todo = <<>> THEN ps_container(loop.head) ELSE todo[1]
  <2>1. StandsOn(order[loop.head], loop, k)
    BY <1>1, <1>2, LoopStandsOn
  <2> QED
    BY <1>1, <2>1, Zenon DEF StandsOn
<1>5. /\ l \in [head : Heads, iter : Int, tmp : Int, todo : Seq(Objects)]
      /\ l.head = loop.head /\ l.iter = loop.tmp /\ l.tmp = ps_list_next(m, loop.tmp)
      /\ l.todo = todo
  <2>1. loop.tmp \in Int /\ ps_list_next(m, loop.tmp) \in Int
    BY <1>3, WordsAreNumbers
  <2> QED
    BY <1>1, <1>3, <1>4, <2>1 DEF Advance
<1>6. IsEnd(new, todo)
  <2>1. PICK n, t, r : n = Len(seq) /\ t = Len(loop.todo) /\ r = Len(new)
    OBVIOUS
  <2>2. /\ n \in Nat /\ t \in Nat /\ r \in Nat /\ k = n - t + 1 /\ k \in 1..n
        /\ Len(todo) = t - 1 /\ t - 1 \in Nat
    <3>1. seq \in Seq(Objects) /\ new \in Seq(Objects)
      BY <1>1, <1>3 DEF UseInv, ListedOnce
    <3> QED
      BY <1>1, <1>3, <1>4, <2>1, <3>1
  <2>3. CASE new = seq
    <3>1. r = n
      BY <2>1, <2>3
    <3>2. t - 1 <= r /\ r - (t - 1) = k
      BY <2>2, <3>1
    <3> QED
      BY <1>4, <2>1, <2>2, <2>3, <3>2 DEF IsEnd
  <2>4. CASE Removed(seq, k, new)
    <3>1. r = n - 1 /\ \A j \in 1..r : new[j] = IF j < k THEN seq[j] ELSE seq[j + 1]
      BY <2>1, <2>4 DEF Removed
    <3>2. t - 1 <= r /\ r - (t - 1) = k - 1
      BY <2>2, <3>1
    <3>3. ASSUME NEW j \in 1..(t - 1) PROVE todo[j] = new[(k - 1) + j]
      <4>1. /\ (k - 1) + j \in 1..r /\ ~((k - 1) + j < k) /\ ((k - 1) + j) + 1 = k + j
        BY <2>2, <3>1
      <4>2. new[(k - 1) + j] = seq[k + j]
        BY <3>1, <4>1
      <4> QED
        BY <1>4, <2>2, <4>2
    <3> QED
      BY <2>1, <2>2, <3>2, <3>3 DEF IsEnd
  <2> QED
    BY <1>1, <2>3, <2>4
<1>7. /\ IsEnd(ord[l.head], l.todo)
      /\ l.iter = IF l.todo = <<>> THEN ps_container(l.head) ELSE l.todo[1]
      /\ l.tmp = ps_list_next(m, l.iter)
  BY <1>1, <1>4, <1>5, <1>6, Zenon
<1> QED
  BY <1>5, <1>7, LoopComesTo

LEMMA PassOverKeeps == UseInv /\ PassOver => UseInv'
<1> SUFFICES ASSUME UseInv, PassOver PROVE UseInv'
  OBVIOUS
<1>1. InLoop /\ loop' = Advance(mem) /\ mem' = mem /\ order' = order
  BY DEF PassOver
<1>2. PICK l : l = Advance(mem)
  OBVIOUS
<1>3. LoopAt(order, l)
  BY <1>1, <1>2, AdvanceKeeps DEF UseInv
<1> QED
  BY <1>1, <1>2, <1>3 DEF UseInv

LEMMA RemoveIterKeeps == UseInv /\ RemoveIter => UseInv'
<1> SUFFICES ASSUME UseInv, RemoveIter PROVE UseInv'
  OBVIOUS
<1>1. /\ InLoop
      /\ mem' = ps_list_rem(mem, loop.iter)
      /\ order' = [order EXCEPT ![loop.head] = RemoveFirst(order[loop.head], loop.iter)]
      /\ loop' = Advance(mem')
  BY DEF RemoveIter
<1>2. LoopAt(order, loop) /\ ListedOnce(order) /\ ~ps_list_is_head(loop.head, loop.iter)
  BY <1>1 DEF UseInv, InLoop
<1>3. PICK h, k : h = loop.head /\ k = Len(order[loop.head]) - Len(loop.todo) + 1
  OBVIOUS
<1>4. h \in Heads /\ order[h] \in Seq(Objects) /\ IsInjective(order[h])
  BY <1>2, <1>3 DEF LoopAt, ListedOnce
<1>5. k \in 1..Len(order[h]) /\ loop.iter = order[h][k]
  <2>1. StandsOn(order[loop.head], loop, k)
    BY <1>2, <1>3, LoopStandsOn
  <2> QED
    BY <1>3, <2>1, Zenon DEF StandsOn
<1>6. order' = [order EXCEPT ![h] = RemoveAt(order[h], k)]
  BY <1>1, <1>3, <1>4, <1>5, Removals
<1>7. ListedOnce(order') /\ Links(mem', order') /\ Removed(order[h], k, order'[h])
  BY <1>1, <1>4, <1>5, <1>6, TakenOff
<1>8. PICK mem2, ord2, l : mem2 = mem' /\ ord2 = order' /\ l = loop'
  OBVIOUS
<1>9. l = Advance(mem2)
  BY <1>1, <1>8 DEF Advance
<1>10. LoopAt(ord2, l)
  BY <1>1, <1>3, <1>7, <1>8, <1>9, AdvanceKeeps
<1> QED
  BY <1>7, <1>8, <1>10 DEF UseInv

--------------------------------------------------------------------------------
LEMMA UseInitHolds == UseInit => UseInv
<1> SUFFICES ASSUME UseInit PROVE UseInv
  OBVIOUS
<1>1. /\ mem = [l \in Addr |-> [next |-> l, previous |-> l]]
      /\ order = [h \in Heads |-> <<>>]
      /\ loop = NoLoop
  BY DEF UseInit, Addr
<1>2. ListedOnce(order)
  BY <1>1 DEF ListedOnce, IsInjective, Range
<1>3. mem \in [Addr -> Words] /\ \A l \in Addr : SelfLinked(mem, l)
  BY <1>1, AddressesApart DEF Words, SelfLinked
<1>4. ASSUME NEW h \in Heads PROVE IsRing(mem, h, order[h])
  <2>1. order[h] = <<>> /\ <<>> \in Seq(Objects) /\ Len(<<>>) = 0
    BY <1>1
  <2>2. Ring(mem, h, order[h])
    <3>1. Stop(h, order[h], 0) = h /\ Stop(h, order[h], 0 + 1) = h
      BY <2>1 DEF Stop
    <3>2. SelfLinked(mem, h)
      BY <1>3, AddressesApart
    <3>3. \A k \in 0..Len(order[h]) : k = 0
      BY <2>1
    <3> QED
      BY <3>1, <3>2, <3>3 DEF Ring, SelfLinked
  <2>3. IsInjective(order[h])
    BY <1>2 DEF ListedOnce
  <2> QED
    BY <1>3, <2>1, <2>2, <2>3, RingIsRing
<1>5. \A o \in Objects : SelfLinked(mem, ps_list(o))
  BY <1>3, AddressesApart
<1> QED
  BY <1>1, <1>2, <1>3, <1>4, <1>5 DEF UseInv, Links

\* The invariant of any use of the lists: objects listed once, memory that
\* links exactly the expected lists, and a loop that stands on the first object
\* it has yet to visit and knows the one after it (ps_list.h:32-134).
THEOREM UseTheorem == UseSpec => []UseInv
<1>1. UseInv /\ [UseNext]_useVars => UseInv'
  <2> SUFFICES ASSUME UseInv, [UseNext]_useVars PROVE UseInv'
    OBVIOUS
  <2>1. CASE Edit
    BY <2>1, EditKeeps
  <2>2. CASE StartLoop
    BY <2>2, StartLoopKeeps
  <2>3. CASE PassOver
    BY <2>3, PassOverKeeps
  <2>4. CASE RemoveIter
    BY <2>4, RemoveIterKeeps
  <2>5. CASE EndLoop
    BY <2>5 DEF EndLoop, UseInv
  <2>6. CASE UNCHANGED useVars
    BY <2>6 DEF useVars, UseInv
  <2> QED
    BY <2>1, <2>2, <2>3, <2>4, <2>5, <2>6 DEF UseNext
<1> QED
  BY UseInitHolds, <1>1, PTL DEF UseSpec

\* For any objects, any number of lists and any series of calls, each list is
\* the ring its callers expect, the empty test says when it is empty, and the
\* singleton test when an object is on no list (ps_list.h:44-106).
THEOREM RingsAreListsTheorem == UseSpec => []RingsAreLists
<1>1. UseInv => RingsAreLists
  <2> SUFFICES ASSUME UseInv PROVE RingsAreLists
    OBVIOUS
  <2>1. ASSUME NEW h \in Heads
        PROVE  /\ IsRing(mem, h, order[h])
               /\ ps_list_head_empty(mem, h) <=> order[h] = <<>>
    <3>1. PICK seq : seq = order[h]
      OBVIOUS
    <3>2. seq \in Seq(Objects) /\ IsInjective(seq) /\ Len(seq) \in Nat /\ 0 \in 0..Len(seq)
      BY <3>1 DEF UseInv, ListedOnce
    <3>3. At(mem, h).next = Stop(h, seq, 1)
      <4>1. At(mem, Stop(h, seq, 0)).next = Stop(h, seq, 0 + 1) /\ Stop(h, seq, 0) = h
        BY <3>1, <3>2, Neighbours DEF UseInv
      <4> QED
        BY <4>1
    <3>4. Stop(h, seq, 1) = h <=> Len(seq) = 0
      <4>1. CASE Len(seq) = 0
        BY <4>1 DEF Stop
      <4>2. CASE Len(seq) # 0
        <5>1. 1 \in 1..Len(seq)
          BY <3>2, <4>2
        <5>2. Stop(h, seq, 1) = ps_list(seq[1]) /\ seq[1] \in Objects
          BY <3>2, <5>1 DEF Stop
        <5> QED
          BY <4>2, <5>2, AddressesApart
      <4> QED
        BY <4>1, <4>2
    <3>5. seq = <<>> <=> Len(seq) = 0
      BY <3>2
    <3>6. IsRing(mem, h, order[h])
      BY DEF UseInv, Links
    <3> QED
      BY <3>1, <3>3, <3>4, <3>5, <3>6 DEF ps_list_head_empty, ps_list_ll_empty
  <2>2. ASSUME NEW o \in Objects
        PROVE  ps_list_singleton(mem, o) <=> o \in Free
    <3>1. ps_list_singleton(mem, o) <=> At(mem, ps_list(o)).next = ps_list(o)
      BY DEF ps_list_singleton, ps_list_ll_empty
    <3>2. CASE \A h \in Heads : o \notin Range(order[h])
      <4>1. SelfLinked(mem, ps_list(o)) /\ ps_list(o) \in DOMAIN mem
        BY <3>2, AddressesApart DEF UseInv, Links
      <4> QED
        BY <3>1, <3>2, <4>1, FreeObjects DEF SelfLinked, At
    <3>3. ASSUME NEW h \in Heads, o \in Range(order[h])
          PROVE  At(mem, ps_list(o)).next # ps_list(o)
      <4>1. PICK seq : seq = order[h]
        OBVIOUS
      <4>2. seq \in Seq(Objects) /\ IsInjective(seq) /\ Len(seq) \in Nat
        BY <4>1 DEF UseInv, ListedOnce
      <4>3. PICK k \in 1..Len(seq) : seq[k] = o
        BY <3>3, <4>1, <4>2 DEF Range
      <4>4. Stop(h, seq, k) = ps_list(o)
        BY <4>3 DEF Stop
      <4>5. k \in 0..Len(seq) /\ k \in 1..(Len(seq) + 1) /\ k + 1 \in 1..(Len(seq) + 1) /\ k + 1 # k
        BY <4>2
      <4>6. At(mem, ps_list(o)).next = Stop(h, seq, k + 1)
        BY <4>1, <4>4, <4>5, Neighbours DEF UseInv
      <4>7. Stop(h, seq, k + 1) # Stop(h, seq, k)
        <5>1. \A i, j \in 1..(Len(seq) + 1) : Stop(h, seq, i) = Stop(h, seq, j) => i = j
          BY <4>2, Stops, Zenon
        <5> QED
          BY <4>5, <5>1, Zenon
      <4> QED
        BY <4>4, <4>6, <4>7
    <3> QED
      BY <3>1, <3>2, <3>3, FreeObjects
  <2>3. \A h \in Heads : /\ ps_list_head_empty(mem, h) \in BOOLEAN
                         /\ (order[h] = <<>>) \in BOOLEAN
    BY DEF ps_list_head_empty, ps_list_ll_empty
  <2>4. \A o \in Objects : ps_list_singleton(mem, o) \in BOOLEAN /\ (o \in Free) \in BOOLEAN
    BY DEF ps_list_singleton, ps_list_ll_empty
  <2> QED
    BY <2>1, <2>2, <2>3, <2>4 DEF RingsAreLists
<1> QED
  BY UseTheorem, <1>1, PTL

\* A ps_list_foreach_del loop over a list of any length visits every object that
\* was on it, in order, whatever its body removes, and then stops
\* (ps_list.h:130-134).
THEOREM LoopVisitsAllTheorem == UseSpec => []LoopVisitsAll
<1>1. UseInv => LoopVisitsAll
  <2> SUFFICES ASSUME UseInv, loop # NoLoop
               PROVE  IF loop.todo = <<>> THEN ps_list_is_head(loop.head, loop.iter)
                      ELSE loop.iter = Head(loop.todo)
    BY DEF LoopVisitsAll
  <2>1. loop.todo \in Seq(Objects)
    BY DEF UseInv, LoopAt
  <2>2. loop.iter = IF loop.todo = <<>> THEN ps_container(loop.head) ELSE loop.todo[1]
    BY DEF UseInv, LoopAt
  <2>3. loop.todo # <<>> => Head(loop.todo) = loop.todo[1]
    BY <2>1
  <2> QED
    BY <2>2, <2>3 DEF ps_list_is_head
<1> QED
  BY UseTheorem, <1>1, PTL
================================================================================
