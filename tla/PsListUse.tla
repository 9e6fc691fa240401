------------------------------- MODULE PsListUse -------------------------------
(***************************************************************************)
(* Any use of ps_list.h by one thread: objects go on and off several lists, *)
(* and a ps_list_foreach_del loop walks one of them, with a body that may   *)
(* take the object it stands on off the list.  order is what a reader of    *)
(* the calls expects each list to hold, todo what the loop has yet to visit.*)
(***************************************************************************)
EXTENDS PsList, SequencesExt

CONSTANTS Objects,   \* addresses of the objects,
          Heads      \* and of the list heads

ASSUME UseAssumption ==
  /\ Objects \subseteq Nat
  /\ Heads \subseteq Nat
  /\ {ps_list(o) : o \in Objects} \cap Heads = {}

VARIABLES mem, order, loop

useVars == <<mem, order, loop>>

\* The loop: the list it walks, its iter and tmp, and the objects still to come.
NoLoop == [head |-> 0, iter |-> 0, tmp |-> 0, todo |-> <<>>]

Listed == UNION {Range(order[h]) : h \in Heads}
Free   == Objects \ Listed

\* All heads and objects have been through ps_list_head_init and ps_list_init.
UseInit ==
  /\ mem = [l \in Heads \cup {ps_list(o) : o \in Objects} |-> [next |-> l, previous |-> l]]
  /\ order = [h \in Heads |-> <<>>]
  /\ loop = NoLoop

HeadAdd(h, o) ==
  /\ o \in Free
  /\ mem' = ps_list_head_add(mem, h, o)
  /\ order' = [order EXCEPT ![h] = <<o>> \o @]

HeadAppend(h, o) ==
  /\ o \in Free
  /\ mem' = ps_list_head_append(mem, h, o)
  /\ order' = [order EXCEPT ![h] = Append(@, o)]

AddAfter(h, k, o) ==
  /\ o \in Free
  /\ mem' = ps_list_add(mem, order[h][k], o)
  /\ order' = [order EXCEPT ![h] = InsertAt(@, k + 1, o)]

AppendBefore(h, k, o) ==
  /\ o \in Free
  /\ mem' = ps_list_append(mem, order[h][k], o)
  /\ order' = [order EXCEPT ![h] = InsertAt(@, k, o)]

TakeOff(h, k) ==
  /\ mem' = ps_list_rem(mem, order[h][k])
  /\ order' = [order EXCEPT ![h] = RemoveAt(@, k)]

Edit ==
  /\ loop = NoLoop
  /\ UNCHANGED loop
  /\ \E h \in Heads :
       \/ \E o \in Objects : HeadAdd(h, o) \/ HeadAppend(h, o)
       \/ \E k \in DOMAIN order[h], o \in Objects : AddAfter(h, k, o) \/ AppendBefore(h, k, o)
       \/ \E k \in DOMAIN order[h] : TakeOff(h, k)

--------------------------------------------------------------------------------
StartLoop ==
  /\ loop = NoLoop
  /\ \E h \in Heads :
       LET first == ps_list_head_first(mem, h)
       IN  loop' = [head |-> h, iter |-> first, tmp |-> ps_list_next(mem, first),
                    todo |-> order[h]]
  /\ UNCHANGED <<mem, order>>

\* Mutation: the loop goes on from the object its body may have removed.
Advance_FromIter(m) ==
  [loop EXCEPT !.iter = ps_list_next(m, loop.iter), !.todo = Tail(@)]

\* The third expression of the loop, after a body that left memory m.
Advance(m) ==
  [loop EXCEPT !.iter = loop.tmp, !.tmp = ps_list_next(m, loop.tmp), !.todo = Tail(@)]

InLoop == loop # NoLoop /\ ~ps_list_is_head(loop.head, loop.iter)

PassOver ==
  /\ InLoop
  /\ loop' = Advance(mem)
  /\ UNCHANGED <<mem, order>>

RemoveIter ==
  /\ InLoop
  /\ mem' = ps_list_rem(mem, loop.iter)
  /\ order' = [order EXCEPT ![loop.head] = RemoveFirst(@, loop.iter)]
  /\ loop' = Advance(mem')

EndLoop ==
  /\ loop # NoLoop
  /\ ps_list_is_head(loop.head, loop.iter)
  /\ loop' = NoLoop
  /\ UNCHANGED <<mem, order>>

UseNext == Edit \/ StartLoop \/ PassOver \/ RemoveIter \/ EndLoop

UseSpec == UseInit /\ [][UseNext]_useVars

--------------------------------------------------------------------------------
\* Whatever the series of calls, each list is the ring its callers expect, is
\* empty when they expect it, and an object is a singleton exactly when it is
\* on no list (ps_list.h:44-106).
RingsAreLists ==
  /\ \A h \in Heads : /\ IsRing(mem, h, order[h])
                      /\ ps_list_head_empty(mem, h) = (order[h] = <<>>)
  /\ \A o \in Objects : ps_list_singleton(mem, o) = (o \in Free)

\* A ps_list_foreach_del loop visits every object that was on the list when it
\* began, once and in order, also those behind an object its body has removed,
\* and then stops (ps_list.h:130-134).
LoopVisitsAll ==
  loop # NoLoop =>
    IF loop.todo = <<>> THEN ps_list_is_head(loop.head, loop.iter)
    ELSE loop.iter = Head(loop.todo)
================================================================================
