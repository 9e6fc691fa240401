SPECIFICATION Sweep
CONSTANTS
  SIZE_MAX = 65535
  SIZEOF_SIZE_T = 8
  ALIGNOF_MAX_ALIGN_T = 16
  Counts = {0, 1, 2, 3, 17, 255, 256, 257, 4097, 32767}
CHECK_DEADLOCK FALSE
INVARIANTS
  BucketIsLeast
  PagesAreEnough
  CallocGuardIsExact
