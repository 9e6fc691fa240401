------------------------------- MODULE Freelist --------------------------------
(***************************************************************************)
(* A free list as the sequence of its nodes' addresses, from the node      *)
(* after the list head to the node before it.  The operators are what      *)
(* p2malloc.c does to a list while it holds the list's lock; the pointers  *)
(* of ps_list.h that hold the sequence together are left out here.         *)
(***************************************************************************)
EXTENDS Integers, Sequences, SequencesExt

\* Mutation: one block too many, past the end of the page.
CarvedPage_OneMore(page, page_bytes, bytes) ==
  [k \in 1..(page_bytes \div bytes + 1) |-> page + page_bytes - (k - 1) * bytes]

\* The list that carving a page of page_bytes bytes into blocks leaves: the
\* loop walks the page upwards and adds each block at the head.
CarvedPage(page, page_bytes, bytes) ==
  [k \in 1..(page_bytes \div bytes) |-> page + page_bytes - k * bytes]

\* The scan of p2orderedinsert walks back from the last node over the nodes
\* above the new one; k is the number of nodes it leaves in front of it.
ScanStopsAt(list, node, k) ==
  /\ k \in 0..Len(list)
  /\ \A j \in (k + 1)..Len(list) : list[j] > node
  /\ k > 0 => list[k] <= node

\* Mutation: a node goes to the end of the list.
OrderedInsert_Last(list, node, k) == Append(list, node)

\* The list after p2orderedinsert linked node behind its k first nodes.
OrderedInsert(list, node, k) == InsertAt(list, k + 1, node)

--------------------------------------------------------------------------------
(***************************************************************************)
(* Properties of a list.                                                   *)
(***************************************************************************)

\* What the comment on p2orderedinsert says of a list: its nodes ascend.
Ascending(list) ==
  \A i, j \in DOMAIN list : i < j => list[i] < list[j]

\* What is true of a list of blocks of the given size: two nodes are out of
\* address order only when they and the nodes between them are neighbouring
\* blocks in descending order, what is left of a carved page.
DescentsAreRuns(list, bytes) ==
  \A i, j \in DOMAIN list :
    i < j /\ list[i] > list[j] =>
      \A k \in i..j : list[k] = list[i] - (k - i) * bytes
================================================================================
