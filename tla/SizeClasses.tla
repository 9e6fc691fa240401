------------------------------ MODULE SizeClasses ------------------------------
(***************************************************************************)
(* The arithmetic of the allocator: the size of the header in front of     *)
(* every block, the eight block sizes, the bucket a request falls in and   *)
(* the rounding of a large request to whole pages.  All of it is size_t    *)
(* arithmetic, so sums and products wrap at SIZE_MAX + 1.                  *)
(***************************************************************************)
EXTENDS Integers, Sequences

CONSTANTS
  SIZE_MAX,             \* the largest size_t
  SIZEOF_SIZE_T,        \* sizeof(size_t)
  ALIGNOF_MAX_ALIGN_T   \* _Alignof(max_align_t)

\* C11 lets SIZE_MAX be as small as 65535; size_t is 4 or 8 bytes wide and
\* max_align_t is aligned to 8 or 16 on the platforms the code builds for.
ASSUME PlatformAssumption ==
  /\ SIZE_MAX \in Nat
  /\ SIZE_MAX >= 65535
  /\ SIZEOF_SIZE_T \in {4, 8}
  /\ ALIGNOF_MAX_ALIGN_T \in {8, 16}

--------------------------------------------------------------------------------
NUM_FREELISTS == 8
BASE_SHIFT    == 5
PAGE_BYTES    == 4096

Freelists == 0..(NUM_FREELISTS - 1)

\* freelists[i].pow2, which freelists_init sets to 1 << (i + BASE_SHIFT).
pow2(i) == <<32, 64, 128, 256, 512, 1024, 2048, 4096>>[i + 1]

ASSUME Pow2Assumption == \A i \in Freelists : pow2(i) = 2 ^ (i + BASE_SHIFT)

\* size_t arithmetic.
SizeT   == 0..SIZE_MAX
Wrap(n) == n % (SIZE_MAX + 1)

\* The least multiple of a that is not below n, when nothing wraps: what
\* (n + a - 1) & ~(a - 1) computes for a power of two a.
RoundUp(n, a) == (n + a - 1) - ((n + a - 1) % a)

P2_HEADER_SIZE == RoundUp(2 * SIZEOF_SIZE_T, ALIGNOF_MAX_ALIGN_T)
P2_SLAB_MAX    == PAGE_BYTES - P2_HEADER_SIZE

\* Mutation: a block of 2048 bytes is taken to be too small for 2048 bytes.
get_freelist_idx_Exclusive(size) ==
  LET swh == Wrap(size + P2_HEADER_SIZE)
  IN  IF swh > 4096 THEN -1
      ELSE IF swh >= 2048 THEN 7
      ELSE CHOOSE i \in Freelists : swh <= pow2(i) /\ (i = 0 \/ swh > pow2(i - 1))

\* The cascade of comparisons of get_freelist_idx; the sum wraps.
get_freelist_idx(size) ==
  LET swh == Wrap(size + P2_HEADER_SIZE)
  IN  IF      swh > 4096 THEN -1
      ELSE IF swh > 2048 THEN 7
      ELSE IF swh > 1024 THEN 6
      ELSE IF swh > 512  THEN 5
      ELSE IF swh > 256  THEN 4
      ELSE IF swh > 128  THEN 3
      ELSE IF swh > 64   THEN 2
      ELSE IF swh > 32   THEN 1
      ELSE 0

\* Mutation: one byte more is added before the mask.
page_align_OneMore(n) ==
  LET m == Wrap(n + 4096) IN m - (m % 4096)

\* (n + 4095) & ~4095, with a sum that wraps.
page_align(n) ==
  LET m == Wrap(n + 4095) IN m - (m % 4096)

\* Mutation: the largest product that fits is refused.
CallocOverflows_Strict(nmemb, size) == nmemb >= SIZE_MAX \div size

\* nmemb * size overflows size_t, as the division in p2calloc tests it.
CallocOverflows(nmemb, size) == nmemb > SIZE_MAX \div size

--------------------------------------------------------------------------------
(***************************************************************************)
(* Reference definitions and the properties of the arithmetic.             *)
(***************************************************************************)

\* The sizes p2malloc's overflow guard lets through.
Admitted(size) == size \in 1..(SIZE_MAX - P2_HEADER_SIZE)

\* Every admitted request gets the smallest block that holds it and its
\* header, and the large path exactly when no block does (p2malloc.c:148-164).
LeastFit(size) ==
  Admitted(size) =>
    LET fits == {i \in Freelists : size + P2_HEADER_SIZE <= pow2(i)}
        idx  == get_freelist_idx(size)
    IN  IF fits = {} THEN idx = -1
        ELSE idx \in fits /\ \A i \in fits : idx <= i

\* The pages of a large request: a whole number of pages that holds request
\* and header, with less than a page to spare, unless the sum wrapped; then
\* it is 0, which the OS refuses, and never a small non-zero length
\* (p2malloc.c:90-93, 210-212).
PagesHoldRequest(size) ==
  Admitted(size) =>
    LET need  == P2_HEADER_SIZE + size
        bytes == page_align(need)
    IN  /\ bytes % PAGE_BYTES = 0
        /\ IF need + 4095 <= SIZE_MAX
           THEN need <= bytes /\ bytes < need + PAGE_BYTES
           ELSE bytes = 0

\* p2calloc's guard refuses exactly the products that do not fit in a size_t
\* (p2malloc.c:283).
CallocGuardExact(nmemb, size) ==
  nmemb # 0 /\ size # 0 => (CallocOverflows(nmemb, size) <=> nmemb * size > SIZE_MAX)
================================================================================
