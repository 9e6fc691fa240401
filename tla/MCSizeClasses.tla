----------------------------- MODULE MCSizeClasses -----------------------------
(***************************************************************************)
(* Every size_t of a 16-bit platform, one after the other, against the     *)
(* reference definitions of SizeClasses.                                   *)
(***************************************************************************)
EXTENDS SizeClasses

CONSTANT Counts     \* element counts for p2calloc, about the square root of
                    \* SIZE_MAX and at both ends; TLC's integers have 32 bits

ASSUME CountsAssumption == Counts \subseteq SizeT

VARIABLE swept      \* the size the sweep has come to

SweepInit == swept = 0

SweepNext ==
  /\ swept < SIZE_MAX
  /\ swept' = swept + 1

Sweep == SweepInit /\ [][SweepNext]_swept

\* The smallest block that fits, for every size p2malloc lets through.
BucketIsLeast == LeastFit(swept)

\* Large requests get just enough pages, or a length the OS refuses.
PagesAreEnough == PagesHoldRequest(swept)

\* p2calloc's guard is exact for the sizes of the sweep and the given counts.
CallocGuardIsExact == \A nmemb \in Counts : CallocGuardExact(nmemb, swept)
================================================================================
