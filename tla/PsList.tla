-------------------------------- MODULE PsList ---------------------------------
(***************************************************************************)
(* ps_list.h: an intrusive, circular, doubly linked list.  mem is the       *)
(* memory that holds struct ps_list's: a function from the address of one   *)
(* to its two words.  An operator takes the memory before the function and  *)
(* is the memory after it, assignment by assignment; memory that was never  *)
(* written reads as zero.                                                   *)
(***************************************************************************)
EXTENDS Integers, Sequences, TLC

CONSTANT lname   \* the offset of the struct ps_list in the object it links

ASSUME OffsetAssumption == lname \in Nat

At(mem, list) ==
  IF list \in DOMAIN mem THEN mem[list] ELSE [next |-> 0, previous |-> 0]

Store(mem, list, words) ==
  [l \in DOMAIN mem \cup {list} |-> IF l = list THEN words ELSE mem[l]]

SetNext(mem, list, to)     == Store(mem, list, [At(mem, list) EXCEPT !.next = to])
SetPrevious(mem, list, to) == Store(mem, list, [At(mem, list) EXCEPT !.previous = to])

ps_list_ll_init(mem, list) == SetNext(SetPrevious(mem, list, list), list, list)
ps_list_ll_empty(mem, list) == At(mem, list).next = list

ps_list_ll_add(mem, list, new_node) ==
  LET m1 == SetNext(mem, new_node, At(mem, list).next)
      m2 == SetPrevious(m1, new_node, list)
      m3 == SetNext(m2, list, new_node)
  IN  SetPrevious(m3, At(m3, new_node).next, new_node)

\* Mutation: the node keeps its pointers into the list.
ps_list_ll_rem_Dangling(mem, list) ==
  LET m1 == SetPrevious(mem, At(mem, list).next, At(mem, list).previous)
  IN  SetNext(m1, At(m1, list).previous, At(m1, list).next)

ps_list_ll_rem(mem, list) ==
  LET m1 == SetPrevious(mem, At(mem, list).next, At(mem, list).previous)
      m2 == SetNext(m1, At(m1, list).previous, At(m1, list).next)
  IN  ps_list_ll_init(m2, list)

--------------------------------------------------------------------------------
(***************************************************************************)
(* The macros: o and n are the addresses of objects, head of a              *)
(* struct ps_list_head.  The _d forms are these, for a field named list.    *)
(***************************************************************************)
ps_container(intern) == intern - lname
ps_list(o)           == o + lname

ps_list_head_init(mem, head)  == ps_list_ll_init(mem, head)
ps_list_head_empty(mem, head) == ps_list_ll_empty(mem, head)
ps_list_is_head(head, o)      == ps_container(head) = o

ps_list_singleton(mem, o) == ps_list_ll_empty(mem, ps_list(o))
ps_list_init(mem, o)      == ps_list_ll_init(mem, ps_list(o))
ps_list_next(mem, o)      == ps_container(At(mem, ps_list(o)).next)
ps_list_prev(mem, o)      == ps_container(At(mem, ps_list(o)).previous)
ps_list_add(mem, o, n)    == ps_list_ll_add(mem, ps_list(o), ps_list(n))
ps_list_append(mem, o, n) == ps_list_add(mem, ps_list_prev(mem, o), n)
ps_list_rem(mem, o)       == ps_list_ll_rem(mem, ps_list(o))

ps_list_head_add(mem, head, o)    == ps_list_ll_add(mem, head, ps_list(o))
ps_list_head_append(mem, head, o) == ps_list_ll_add(mem, At(mem, head).previous, ps_list(o))
ps_list_head_first(mem, head)     == ps_container(At(mem, head).next)
ps_list_head_last(mem, head)      == ps_container(At(mem, head).previous)

--------------------------------------------------------------------------------
\* The list at head holds exactly the objects of seq, in this order: the next
\* pointers lead from the head through all of them back to the head, and the
\* previous pointers lead the same way back.
IsRing(mem, head, seq) ==
  LET n == Len(seq)
      stop == [k \in 0..(n + 1) |-> IF k \in 1..n THEN ps_list(seq[k]) ELSE head]
  IN  \A k \in 0..n : /\ At(mem, stop[k]).next = stop[k + 1]
                      /\ At(mem, stop[k + 1]).previous = stop[k]
================================================================================
