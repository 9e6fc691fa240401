---------------------------- MODULE FreelistProofs -----------------------------
(***************************************************************************)
(* What the operations on a free list do to the set of its nodes.          *)
(***************************************************************************)
EXTENDS Freelist, TLAPS

\* Taking the first node takes that node and no other.
LEMMA TailNodes ==
  ASSUME NEW S, NEW list \in Seq(S), list # <<>>, IsInjective(list)
  PROVE  /\ Tail(list) \in Seq(S)
         /\ Head(list) \in Range(list)
         /\ Range(Tail(list)) = Range(list) \ {Head(list)}
         /\ IsInjective(Tail(list))
<1>1. Len(list) \in Nat /\ Len(list) >= 1
  OBVIOUS
<1>2. /\ Tail(list) \in Seq(S)
      /\ Len(Tail(list)) = Len(list) - 1
      /\ \A k \in 1..(Len(list) - 1) : Tail(list)[k] = list[k + 1]
      /\ Head(list) = list[1]
  OBVIOUS
<1>3. /\ DOMAIN list = 1..Len(list)
      /\ DOMAIN Tail(list) = 1..(Len(list) - 1)
  BY <1>2
<1>4. Head(list) \in Range(list)
  BY <1>1, <1>2, <1>3 DEF Range
<1>5. ASSUME NEW x \in Range(list), x # Head(list)
      PROVE  x \in Range(Tail(list))
  <2>1. PICK k \in 1..Len(list) : list[k] = x
    BY <1>3 DEF Range
  <2>2. k - 1 \in 1..(Len(list) - 1) /\ Tail(list)[k - 1] = x
    BY <1>1, <1>2, <1>5, <2>1
  <2> QED
    BY <1>3, <2>2 DEF Range
<1>6. ASSUME NEW x \in Range(Tail(list))
      PROVE  x \in Range(list) /\ x # Head(list)
  <2>1. PICK k \in 1..(Len(list) - 1) : Tail(list)[k] = x
    BY <1>3 DEF Range
  <2>2. k + 1 \in 1..Len(list) /\ 1 \in 1..Len(list) /\ list[k + 1] = x /\ k + 1 # 1
    BY <1>1, <1>2, <2>1
  <2> QED
    BY <1>2, <1>3, <2>2 DEF Range, IsInjective
<1>7. IsInjective(Tail(list))
  <2> SUFFICES ASSUME NEW j \in 1..(Len(list) - 1), NEW k \in 1..(Len(list) - 1),
                      Tail(list)[j] = Tail(list)[k]
               PROVE  j = k
    BY <1>3 DEF IsInjective
  <2>1. j + 1 \in 1..Len(list) /\ k + 1 \in 1..Len(list) /\ list[j + 1] = list[k + 1]
    BY <1>1, <1>2
  <2>2. j + 1 = k + 1
    BY <1>3, <2>1 DEF IsInjective
  <2> QED
    BY <2>2
<1> QED
  BY <1>2, <1>4, <1>5, <1>6, <1>7

\* The list after p2orderedinsert, position by position.
LEMMA InsertPositions ==
  ASSUME NEW S, NEW list \in Seq(S), NEW node \in S, NEW k \in 0..Len(list)
  PROVE  LET new == OrderedInsert(list, node, k)
         IN  /\ new \in Seq(S)
             /\ Len(new) = Len(list) + 1
             /\ \A j \in 1..Len(new) :
                  new[j] = IF j <= k THEN list[j]
                           ELSE IF j = k + 1 THEN node ELSE list[j - 1]
<1> DEFINE front == SubSeq(list, 1, k)
           back  == SubSeq(list, k + 1, Len(list))
           new   == (front \o <<node>>) \o back
<1>1. Len(list) \in Nat /\ k \in Nat /\ k <= Len(list)
  OBVIOUS
<1>2. /\ front \in Seq(S) /\ Len(front) = k
      /\ \A j \in 1..k : front[j] = list[j]
  BY <1>1
<1>3. /\ back \in Seq(S) /\ Len(back) = Len(list) - k
      /\ \A j \in 1..(Len(list) - k) : back[j] = list[k + j]
  BY <1>1
<1>4. OrderedInsert(list, node, k) = new
  <2>1. (k + 1) - 1 = k
    BY <1>1
  <2> QED
    BY <2>1, Zenon DEF OrderedInsert, InsertAt
<1> HIDE DEF front, back
<1>5. /\ front \o <<node>> \in Seq(S) /\ Len(front \o <<node>>) = k + 1
      /\ \A j \in 1..(k + 1) : (front \o <<node>>)[j] = IF j <= k THEN list[j] ELSE node
  BY <1>1, <1>2
<1>6. /\ new \in Seq(S) /\ Len(new) = Len(list) + 1
  BY <1>1, <1>3, <1>5
<1>7. ASSUME NEW j \in 1..Len(new)
      PROVE  new[j] = IF j <= k THEN list[j]
                      ELSE IF j = k + 1 THEN node ELSE list[j - 1]
  <2>1. CASE j <= k + 1
    BY <1>1, <1>3, <1>5, <2>1
  <2>2. CASE j > k + 1
    <3>1. new[j] = back[j - (k + 1)]
      BY <1>1, <1>3, <1>5, <1>6, <1>7, <2>2
    <3>2. j - (k + 1) \in 1..(Len(list) - k) /\ k + (j - (k + 1)) = j - 1
      BY <1>1, <1>6, <1>7, <2>2
    <3>3. back[j - (k + 1)] = list[j - 1]
      BY <1>3, <3>2
    <3>4. ~(j <= k) /\ j # k + 1
      BY <1>1, <1>6, <2>2
    <3> QED
      BY <3>1, <3>3, <3>4, Zenon
  <2> QED
    BY <1>1, <1>6, <1>7, <2>1, <2>2
<1> HIDE DEF new
<1> QED
  BY <1>4, <1>6, <1>7

\* Insertion adds the node and nothing else, wherever the scan stops.
LEMMA InsertNodes ==
  ASSUME NEW S, NEW list \in Seq(S), NEW node \in S, NEW k \in 0..Len(list),
         IsInjective(list), node \notin Range(list)
  PROVE  /\ OrderedInsert(list, node, k) \in Seq(S)
         /\ Range(OrderedInsert(list, node, k)) = Range(list) \cup {node}
         /\ IsInjective(OrderedInsert(list, node, k))
<1> DEFINE new == OrderedInsert(list, node, k)
<1>1. /\ new \in Seq(S) /\ Len(new) = Len(list) + 1 /\ Len(list) \in Nat
      /\ DOMAIN new = 1..Len(new) /\ DOMAIN list = 1..Len(list)
      /\ k \in Nat /\ k <= Len(list)
  BY InsertPositions
<1>2. \A j \in 1..Len(new) :
        new[j] = IF j <= k THEN list[j] ELSE IF j = k + 1 THEN node ELSE list[j - 1]
  BY InsertPositions
<1> HIDE DEF new
<1>3. ASSUME NEW x \in Range(new) PROVE x \in Range(list) \cup {node}
  <2>1. PICK j \in 1..Len(new) : new[j] = x
    BY <1>1 DEF Range
  <2>2. \/ j \in 1..Len(list) /\ x = list[j]
        \/ x = node
        \/ j - 1 \in 1..Len(list) /\ x = list[j - 1]
    BY <1>1, <1>2, <2>1
  <2> QED
    BY <1>1, <2>2 DEF Range
<1>4. ASSUME NEW x \in Range(list) PROVE x \in Range(new)
  <2>1. PICK j \in 1..Len(list) : list[j] = x
    BY <1>1 DEF Range
  <2>2. CASE j <= k
    <3>1. j \in 1..Len(new) /\ new[j] = x
      BY <1>1, <1>2, <2>1, <2>2
    <3> QED
      BY <1>1, <3>1 DEF Range
  <2>3. CASE j > k
    <3>1. j + 1 \in 1..Len(new) /\ new[j + 1] = x
      BY <1>1, <1>2, <2>1, <2>3
    <3> QED
      BY <1>1, <3>1 DEF Range
  <2> QED
    BY <1>1, <2>2, <2>3
<1>5. node \in Range(new)
  <2>1. k + 1 \in 1..Len(new) /\ new[k + 1] = node
    BY <1>1, <1>2
  <2> QED
    BY <1>1, <2>1 DEF Range
<1>6. IsInjective(new)
  <2> SUFFICES ASSUME NEW i \in 1..Len(new), NEW j \in 1..Len(new), new[i] = new[j]
               PROVE  i = j
    BY <1>1 DEF IsInjective
  <2>1. \A m \in 1..Len(list) : list[m] # node
    BY <1>1 DEF Range
  <2>2. \A m, n \in 1..Len(list) : list[m] = list[n] => m = n
    BY <1>1 DEF IsInjective
  <2>3. i \in Nat /\ j \in Nat /\ i >= 1 /\ j >= 1 /\ i <= Len(list) + 1 /\ j <= Len(list) + 1
    BY <1>1
  <2>4. CASE i = k + 1
    BY <1>1, <1>2, <2>1, <2>3, <2>4
  <2>5. CASE j = k + 1
    BY <1>1, <1>2, <2>1, <2>3, <2>5
  <2>6. CASE i # k + 1 /\ j # k + 1
    <3> DEFINE m == IF i <= k THEN i ELSE i - 1
               n == IF j <= k THEN j ELSE j - 1
    <3>1. m \in 1..Len(list) /\ n \in 1..Len(list)
      BY <1>1, <2>3, <2>6
    <3>2. list[m] = list[n]
      BY <1>1, <1>2, <2>3, <2>6
    <3>3. m = n
      BY <2>2, <3>1, <3>2
    <3> QED
      BY <1>1, <2>3, <2>6, <3>3
  <2> QED
    BY <2>4, <2>5, <2>6
<1> QED
  BY <1>1, <1>3, <1>4, <1>5, <1>6 DEF new

\* The blocks of a carved page lie in the page, aligned and apart.
BlocksOfPage(list, page, bytes) ==
  /\ list \in Seq(Int)
  /\ list # <<>>
  /\ IsInjective(list)
  /\ \A a \in Range(list) : /\ a \in Nat /\ (page % 32 = 0 => a % 32 = 0)
                            /\ page <= a /\ a + bytes <= page + 4096
  /\ \A a, b \in Range(list) : a = b \/ a + bytes <= b \/ b + bytes <= a

LEMMA CarvedBlocks ==
  ASSUME NEW page \in Nat, NEW bytes \in {32, 64, 128, 256, 512, 1024, 2048, 4096},
         NEW n, n = 4096 \div bytes,
         NEW list, list = CarvedPage(page, 4096, bytes)
  PROVE  BlocksOfPage(list, page, bytes)
<1>1. n \in Nat /\ n >= 1 /\ n * bytes = 4096 /\ bytes \in Nat /\ bytes >= 32
  OBVIOUS
<1>2. list = [k \in 1..n |-> page + 4096 - k * bytes]
  BY DEF CarvedPage
<1>3. list \in Seq(Int) /\ DOMAIN list = 1..n
  BY <1>1, <1>2
<1>4. list # <<>>
  BY <1>1, <1>3
<1>5. IsInjective(list)
  <2> SUFFICES ASSUME NEW j \in 1..n, NEW k \in 1..n, list[j] = list[k]
               PROVE  j = k
    BY <1>3 DEF IsInjective
  <2>1. page + 4096 - j * bytes = page + 4096 - k * bytes
    BY <1>2
  <2>2. j \in Nat /\ k \in Nat
    BY <1>1
  <2> QED
    BY <2>1, <2>2
<1>6. ASSUME NEW k \in 1..n
      PROVE  n - k \in 0..(n - 1) /\ list[k] = page + (n - k) * bytes
  BY <1>1, <1>2
<1>7. \A b \in Range(list) : \E m \in 0..(n - 1) : b = page + m * bytes
  <2> SUFFICES ASSUME NEW b \in Range(list)
               PROVE  \E m \in 0..(n - 1) : b = page + m * bytes
    OBVIOUS
  <2>1. PICK k \in 1..n : b = list[k]
    BY <1>3 DEF Range
  <2> DEFINE m == n - k
  <2>2. m \in 0..(n - 1) /\ list[k] = page + m * bytes
    BY ONLY <1>6, k \in 1..n
  <2> HIDE DEF m
  <2> QED
    BY <2>1, <2>2
<1>8. ASSUME NEW m \in 0..(n - 1)
      PROVE  m * bytes \in Nat /\ (m * bytes) % 32 = 0 /\ m * bytes + bytes <= 4096
  OBVIOUS
<1>9. ASSUME NEW m \in Nat, NEW k \in Nat, m < k
      PROVE  m * bytes + bytes <= k * bytes
  <2>1. m + 1 <= k
    BY <1>9
  <2> QED
    BY <2>1
<1>10. ASSUME NEW a \in Range(list)
       PROVE  /\ a \in Nat /\ (page % 32 = 0 => a % 32 = 0)
              /\ page <= a /\ a + bytes <= page + 4096
  <2>1. PICK m \in 0..(n - 1) : a = page + m * bytes
    BY <1>7
  <2> DEFINE x == m * bytes
  <2>2. x \in Nat /\ x % 32 = 0 /\ x + bytes <= 4096 /\ a = page + x
    BY <1>8, <2>1
  <2> HIDE DEF x
  <2> QED
    BY <1>1, <2>2
<1>11. ASSUME NEW a \in Range(list), NEW b \in Range(list)
       PROVE  a = b \/ a + bytes <= b \/ b + bytes <= a
  <2>1. PICK m \in 0..(n - 1) : a = page + m * bytes
    BY <1>7
  <2>2. PICK k \in 0..(n - 1) : b = page + k * bytes
    BY <1>7
  <2>3. m \in Nat /\ k \in Nat
    BY <1>1
  <2>4. m < k => a + bytes <= b
    BY <1>9, <2>1, <2>2, <2>3
  <2>5. k < m => b + bytes <= a
    BY <1>9, <2>1, <2>2, <2>3
  <2>6. m = k => a = b
    BY <2>1, <2>2
  <2> QED
    BY <2>3, <2>4, <2>5, <2>6
<1> QED
  BY <1>3, <1>4, <1>5, <1>10, <1>11 DEF BlocksOfPage

\* The lengths of the blocks of the eight lists.
BlockLengths == {32, 64, 128, 256, 512, 1024, 2048, 4096}

LEMMA CarvedPageBlocks ==
  ASSUME NEW page \in Nat, NEW bytes \in BlockLengths
  PROVE  BlocksOfPage(CarvedPage(page, 4096, bytes), page, bytes)
<1>1. bytes \in {32, 64, 128, 256, 512, 1024, 2048, 4096}
  BY DEF BlockLengths
<1> DEFINE n    == 4096 \div bytes
           list == CarvedPage(page, 4096, bytes)
<1>2. n = 4096 \div bytes /\ list = CarvedPage(page, 4096, bytes)
  OBVIOUS
<1> HIDE DEF n, list
<1>3. BlocksOfPage(list, page, bytes)
  BY <1>1, <1>2, CarvedBlocks
<1> QED
  BY <1>3 DEF list

--------------------------------------------------------------------------------
(***************************************************************************)
(* Descents stay the rests of carved pages.                                *)
(***************************************************************************)

\* The product of a count and a block length, without multiplication.
LEMMA Multiples ==
  ASSUME NEW bytes \in Nat \ {0}, NEW m \in Int, NEW n \in Int
  PROVE  /\ m * bytes \in Int
         /\ (m - n) * bytes = m * bytes - n * bytes
         /\ m < n => m * bytes + bytes <= n * bytes
         /\ m * bytes < n * bytes => m < n
<1>1. m * bytes \in Int /\ n * bytes \in Int /\ (m - n) * bytes = m * bytes - n * bytes
  OBVIOUS
<1>2. ASSUME NEW x \in Int, NEW y \in Int, x < y PROVE x * bytes + bytes <= y * bytes
  <2>1. (y - x - 1) * bytes >= 0
    BY <1>2
  <2>2. (y - x - 1) * bytes = y * bytes - x * bytes - bytes
    OBVIOUS
  <2>3. x * bytes \in Int /\ y * bytes \in Int
    OBVIOUS
  <2> QED
    BY <2>1, <2>2, <2>3
<1>3. m < n => m * bytes + bytes <= n * bytes
  BY <1>2
<1>4. ASSUME m * bytes < n * bytes PROVE m < n
  <2>1. n < m => n * bytes + bytes <= m * bytes
    BY <1>2
  <2> QED
    BY <1>1, <1>4, <2>1
<1> QED
  BY <1>1, <1>3, <1>4

\* A carved page is one run.
LEMMA CarvedIsRun ==
  ASSUME NEW page \in Nat, NEW page_bytes \in Nat, NEW bytes \in Nat \ {0}
  PROVE  DescentsAreRuns(CarvedPage(page, page_bytes, bytes), bytes)
<1> DEFINE list == CarvedPage(page, page_bytes, bytes)
<1>1. page_bytes \div bytes \in Nat
  OBVIOUS
<1>2. DOMAIN list = 1..(page_bytes \div bytes)
  BY DEF CarvedPage
<1>3. \A k \in DOMAIN list : k \in Int /\ list[k] = page + page_bytes - k * bytes
  BY <1>1, <1>2 DEF CarvedPage
<1>4. \A i, j \in DOMAIN list : \A k \in i..j : k \in DOMAIN list
  BY <1>1, <1>2
<1> HIDE DEF list
<1> SUFFICES ASSUME NEW i \in DOMAIN list, NEW j \in DOMAIN list, NEW k \in i..j
             PROVE  list[k] = list[i] - (k - i) * bytes
  BY DEF DescentsAreRuns, list
<1>5. /\ list[k] = page + page_bytes - k * bytes
      /\ list[i] = page + page_bytes - i * bytes
      /\ k \in Int /\ i \in Int
  BY <1>3, <1>4
<1>6. (k - i) * bytes = k * bytes - i * bytes /\ k * bytes \in Int /\ i * bytes \in Int
  BY <1>5, Multiples
<1> QED
  BY <1>5, <1>6

\* What is left of a list when its first node is taken.
LEMMA TailKeepsRuns ==
  ASSUME NEW S, NEW list \in Seq(S), list # <<>>, NEW bytes, DescentsAreRuns(list, bytes)
  PROVE  DescentsAreRuns(Tail(list), bytes)
<1>1. Len(list) \in Nat /\ Len(list) >= 1 /\ DOMAIN list = 1..Len(list)
  OBVIOUS
<1>2. /\ DOMAIN Tail(list) = 1..(Len(list) - 1)
      /\ \A k \in 1..(Len(list) - 1) : Tail(list)[k] = list[k + 1]
  BY <1>1
<1> SUFFICES ASSUME NEW i \in 1..(Len(list) - 1), NEW j \in 1..(Len(list) - 1),
                    i < j, Tail(list)[i] > Tail(list)[j], NEW k \in i..j
             PROVE  Tail(list)[k] = Tail(list)[i] - (k - i) * bytes
  BY <1>2 DEF DescentsAreRuns
<1>3. /\ i + 1 \in DOMAIN list /\ j + 1 \in DOMAIN list /\ i + 1 < j + 1
      /\ k + 1 \in (i + 1)..(j + 1) /\ k \in 1..(Len(list) - 1)
      /\ (k + 1) - (i + 1) = k - i
  BY <1>1
<1>4. list[i + 1] > list[j + 1]
  BY <1>2
<1>5. list[k + 1] = list[i + 1] - ((k + 1) - (i + 1)) * bytes
  BY <1>3, <1>4 DEF DescentsAreRuns
<1> QED
  BY <1>2, <1>3, <1>5

\* The quotient of a division, without the division.
LEMMA Quotient ==
  ASSUME NEW bytes \in Nat \ {0}, NEW d \in Nat
  PROVE  /\ d \div bytes \in Nat /\ (d \div bytes) * bytes \in Int
         /\ (d \div bytes) * bytes <= d
         /\ d < (d \div bytes) * bytes + bytes
<1>1. d \div bytes \in Nat /\ d % bytes \in Nat /\ d % bytes < bytes
  OBVIOUS
<1>2. d = ((d \div bytes) * bytes) + (d % bytes)
  OBVIOUS
<1>3. (d \div bytes) * bytes \in Int
  BY <1>1, Multiples
<1> QED
  BY <1>1, <1>2, <1>3

\* One node between the two of a descent.
LEMMA RunAt ==
  ASSUME NEW list, NEW bytes, DescentsAreRuns(list, bytes),
         NEW i \in DOMAIN list, NEW j \in DOMAIN list, i < j, list[i] > list[j],
         NEW k \in i..j
  PROVE  list[k] = list[i] - (k - i) * bytes
BY Zenon DEF DescentsAreRuns

\* A node that overlaps no node of a list lies between no two blocks of a run.
LEMMA NothingInARun ==
  ASSUME NEW list \in Seq(Int), NEW bytes \in Nat \ {0}, NEW node \in Int,
         DescentsAreRuns(list, bytes),
         \A x \in Range(list) : node + bytes <= x \/ x + bytes <= node,
         NEW i \in DOMAIN list, NEW k \in DOMAIN list, i < k,
         list[i] > node, node > list[k]
  PROVE  FALSE
<1> DEFINE q == (list[i] - node) \div bytes
           x == q * bytes
           m == i + q
<1>1. DOMAIN list = 1..Len(list) /\ Len(list) \in Nat /\ i \in Nat /\ k \in Nat /\ i >= 1
  OBVIOUS
<1>2. list[i] \in Int /\ list[k] \in Int
  BY <1>1
<1>3. list[i] > list[k] /\ list[i] - node \in Nat
  BY <1>2
<1>4. q \in Nat /\ x \in Int /\ x <= list[i] - node /\ list[i] - node < x + bytes
  BY <1>3, Quotient, Zenon
<1> HIDE DEF q
<1>5. q < k - i
  <2> DEFINE y == (k - i) * bytes
  <2>1. k \in i..k /\ k - i \in Int /\ q \in Int
    BY <1>1, <1>4
  <2>2. list[k] = list[i] - y
    BY <1>3, <2>1, RunAt, Zenon
  <2>3. y \in Int /\ (x < y => q < k - i)
    BY <2>1, Multiples, Zenon
  <2> HIDE DEF y, x
  <2>4. x < y
    BY <1>2, <1>4, <2>2, <2>3
  <2> QED
    BY <2>3, <2>4
<1> HIDE DEF x
<1>6. m \in i..k /\ m \in DOMAIN list /\ m - i = q
  <2>1. m \in Int /\ i <= m /\ m <= k /\ m - i = q /\ m >= 1
    BY <1>1, <1>4, <1>5
  <2>2. k <= Len(list)
    BY <1>1
  <2> QED
    BY <1>1, <2>1, <2>2
<1> HIDE DEF m
<1>7. list[m] = list[i] - x
  BY <1>3, <1>6, RunAt, Zenon DEF x
<1>8. list[m] \in Range(list) /\ list[m] \in Int
  BY <1>1, <1>6 DEF Range
<1>9. node <= list[m] /\ list[m] < node + bytes
  BY <1>2, <1>4, <1>7
<1>10. node + bytes <= list[m] \/ list[m] + bytes <= node
  BY <1>8
<1> QED
  BY <1>8, <1>9, <1>10

\* The scan of p2orderedinsert never stops within a run, so the rest of a carved
\* page stays together.
LEMMA InsertKeepsRuns ==
  ASSUME NEW list \in Seq(Int), NEW bytes \in Nat \ {0}, NEW node \in Int, NEW k,
         ScanStopsAt(list, node, k), DescentsAreRuns(list, bytes),
         \A x \in Range(list) : node + bytes <= x \/ x + bytes <= node
  PROVE  DescentsAreRuns(OrderedInsert(list, node, k), bytes)
<1> DEFINE new == OrderedInsert(list, node, k)
           n   == Len(list)
<1>1. n \in Nat /\ DOMAIN list = 1..n /\ \A j \in 1..n : list[j] \in Int
  OBVIOUS
<1>2. k \in 0..n
  BY DEF ScanStopsAt
<1>3. k \in Nat /\ k <= n
  BY <1>1, <1>2
<1>4. \A j \in 1..n : j > k => list[j] > node
  <2> SUFFICES ASSUME NEW j \in 1..n, j > k PROVE list[j] > node
    OBVIOUS
  <2>1. j \in (k + 1)..n
    BY <1>1, <1>3
  <2> QED
    BY <2>1 DEF ScanStopsAt
<1>5. k > 0 => list[k] <= node
  BY DEF ScanStopsAt
<1>6. /\ DOMAIN new = 1..(n + 1)
      /\ \A j \in 1..(n + 1) :
           new[j] = IF j <= k THEN list[j] ELSE IF j = k + 1 THEN node ELSE list[j - 1]
  <2> DEFINE S == Int
  <2>1. k \in 0..Len(list) /\ list \in Seq(S) /\ node \in S
    BY DEF ScanStopsAt
  <2> HIDE DEF S, n
  <2>2. new \in Seq(S) /\ Len(new) = Len(list) + 1
    BY <2>1, InsertPositions
  <2>3. \A j \in 1..Len(new) :
          new[j] = IF j <= k THEN list[j] ELSE IF j = k + 1 THEN node ELSE list[j - 1]
    BY <2>1, InsertPositions
  <2> HIDE DEF new
  <2> QED
    BY <2>2, <2>3 DEF n
<1> HIDE DEF new, n
<1>7. ASSUME NEW j \in 1..(n + 1), j <= k PROVE j \in 1..n /\ new[j] = list[j]
  BY <1>1, <1>3, <1>6, <1>7
<1>8. new[k + 1] = node
  <2>1. k + 1 \in 1..(n + 1) /\ ~(k + 1 <= k)
    BY <1>1, <1>3
  <2> QED
    BY <1>6, <2>1
<1>9. ASSUME NEW j \in 1..(n + 1), j > k + 1
      PROVE  j - 1 \in 1..n /\ j - 1 > k /\ new[j] = list[j - 1]
  <2>1. j \in Nat /\ ~(j <= k) /\ j # k + 1
    BY <1>1, <1>3, <1>9
  <2> QED
    BY <1>1, <1>3, <1>6, <1>9, <2>1
<1>10. SUFFICES ASSUME NEW i \in 1..(n + 1), NEW j \in 1..(n + 1), i < j, new[i] > new[j],
                       NEW m \in i..j
                PROVE  new[m] = new[i] - (m - i) * bytes
  BY <1>6, Zenon DEF DescentsAreRuns, new
<1>11. /\ i \in Nat /\ j \in Nat /\ m \in Nat /\ i <= m /\ m <= j
       /\ m \in 1..(n + 1)
  BY <1>1
<1>12. CASE j <= k
  <2>1. /\ i \in 1..n /\ j \in 1..n
        /\ new[i] = list[i] /\ new[j] = list[j] /\ new[m] = list[m]
    BY <1>3, <1>7, <1>11, <1>12
  <2>2. list[i] > list[j]
    BY <1>10, <2>1
  <2>3. list[m] = list[i] - (m - i) * bytes
    <3>1. i \in DOMAIN list /\ j \in DOMAIN list
      BY <1>1, <2>1, Zenon
    <3> QED
      BY <1>10, <2>2, <3>1, RunAt, Zenon
  <2> QED
    BY <2>1, <2>3, Zenon
<1>13. CASE j = k + 1
  <2>1. i <= k /\ k > 0 /\ k \in 1..n
    BY <1>1, <1>3, <1>11, <1>13, <1>10
  <2>2. i \in 1..n /\ new[i] = list[i] /\ new[j] = node
    BY <1>7, <1>8, <1>13, <2>1
  <2>3. list[i] > node /\ list[k] <= node /\ list[k] \in Int /\ list[i] \in Int
    BY <1>1, <1>5, <1>10, <2>1, <2>2
  <2>4. list[k] # node
    <3>1. list[k] \in Range(list)
      BY <1>1, <2>1 DEF Range
    <3> QED
      BY <3>1
  <2>5. node > list[k] /\ i # k
    BY <2>3, <2>4
  <2>6. i < k
    BY <1>3, <1>11, <2>1, <2>5
  <2> QED
    BY <1>1, <2>1, <2>2, <2>3, <2>5, <2>6, NothingInARun
<1>14. CASE i = k + 1
  <2>1. j > k + 1
    BY <1>10, <1>14
  <2>2. j - 1 \in 1..n /\ j - 1 > k /\ new[j] = list[j - 1] /\ new[i] = node
    BY <1>8, <1>9, <1>14, <2>1
  <2>3. list[j - 1] > node /\ list[j - 1] \in Int
    BY <1>1, <1>4, <2>2
  <2> QED
    BY <1>10, <2>2, <2>3
<1>15. CASE i <= k /\ j > k + 1
  <2> DEFINE x == (k - i) * bytes
             y == ((k + 1) - i) * bytes
  <2>1. /\ i \in 1..n /\ new[i] = list[i]
        /\ j - 1 \in 1..n /\ new[j] = list[j - 1]
    BY <1>7, <1>9, <1>15
  <2>2. /\ i < j - 1 /\ k > 0
        /\ k \in i..(j - 1) /\ k + 1 \in i..(j - 1)
        /\ k \in 1..n /\ k + 1 \in 1..n
    BY <1>1, <1>3, <1>11, <1>15, <2>1
  <2>3. list[i] > list[j - 1]
    BY <1>10, <2>1
  <2>4. list[k] = list[i] - x /\ list[k + 1] = list[i] - y
    <3>1. i \in DOMAIN list /\ j - 1 \in DOMAIN list
      BY <1>1, <2>1, Zenon
    <3> QED
      BY <2>2, <2>3, <3>1, RunAt, Zenon
  <2>5. k - i \in Int /\ (k + 1) - i \in Int /\ k - i < (k + 1) - i
    BY <1>3, <1>11
  <2>6. x \in Int /\ y \in Int /\ x + bytes <= y
    BY <2>5, Multiples
  <2> HIDE DEF x, y
  <2>7. list[i] \in Int
    BY <1>1, <2>1
  <2>8. list[k + 1] < list[k] /\ list[k] \in Int /\ list[k + 1] \in Int
    BY <2>4, <2>6, <2>7
  <2>9. list[k + 1] > node /\ list[k] <= node
    BY <1>3, <1>4, <1>5, <2>2
  <2> QED
    BY <2>8, <2>9
<1>16. CASE i > k + 1
  <2>1. m > k + 1 /\ j > k + 1
    BY <1>3, <1>11, <1>16
  <2>2. /\ i - 1 \in 1..n /\ new[i] = list[i - 1]
        /\ j - 1 \in 1..n /\ new[j] = list[j - 1]
        /\ new[m] = list[m - 1]
    BY <1>9, <1>11, <1>16, <2>1
  <2>3. i - 1 < j - 1 /\ m - 1 \in (i - 1)..(j - 1) /\ (m - 1) - (i - 1) = m - i
    BY <1>10, <1>11
  <2>4. list[i - 1] > list[j - 1]
    BY <1>10, <2>2
  <2>5. list[m - 1] = list[i - 1] - ((m - 1) - (i - 1)) * bytes
    <3>1. i - 1 \in DOMAIN list /\ j - 1 \in DOMAIN list
      BY <1>1, <2>2, Zenon
    <3> QED
      BY <2>3, <2>4, <3>1, RunAt, Zenon
  <2> QED
    BY <2>2, <2>3, <2>5, Zenon
<1> QED
  BY <1>3, <1>11, <1>12, <1>13, <1>14, <1>15, <1>16
================================================================================
