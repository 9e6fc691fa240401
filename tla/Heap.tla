--------------------------------- MODULE Heap ----------------------------------
(***************************************************************************)
(* What a client of the allocator may rely on, without pages, buckets or   *)
(* threads: it owns disjoint, aligned pieces of memory, each with the      *)
(* allocator's private header in front, and a piece changes only when it   *)
(* is allocated, resized where it is, or released.                         *)
(***************************************************************************)
EXTENDS Integers

CONSTANTS
  HeaderBytes,    \* bytes in front of a piece that are not the client's
  Align           \* alignment of the pieces

VARIABLE owned    \* the size of every piece in use, by its address

Init == owned = <<>>

\* The bytes of one piece and its header, and those of another.
Apart(p, size, q) ==
  \/ p + size <= q - HeaderBytes
  \/ q + owned[q] <= p - HeaderBytes

Fits(p, size) ==
  /\ p % Align = 0
  /\ \A q \in DOMAIN owned \ {p} : Apart(p, size, q)

With(p, size) == [q \in DOMAIN owned \cup {p} |-> IF q = p THEN size ELSE owned[q]]

Allocate(p, size) ==
  /\ p \notin DOMAIN owned
  /\ size > 0
  /\ Fits(p, size)
  /\ owned' = With(p, size)

Resize(p, size) ==
  /\ p \in DOMAIN owned
  /\ size > 0
  /\ Fits(p, size)
  /\ owned' = With(p, size)

Release(p) ==
  /\ p \in DOMAIN owned
  /\ owned' = [q \in DOMAIN owned \ {p} |-> owned[q]]

\* The address of a new piece is the allocator's choice, so it is read off the
\* new state.
Next ==
  \/ \E p \in DOMAIN owned' : Allocate(p, owned'[p]) \/ Resize(p, owned'[p])
  \/ \E p \in DOMAIN owned : Release(p)

Spec == Init /\ [][Next]_owned
================================================================================
