SPECIFICATION PaySpec
CONSTANTS
  SIZE_MAX = 65535
  SIZEOF_SIZE_T = 8
  ALIGNOF_MAX_ALIGN_T = 16
  Threads = {t1, t2}
  NoThread = NoThread
  NPages = 3
  MallocSizes = {}
  CallocArgs <- OneCalloc
  ReallocSizes = {4000, 5000}
  MaxResets = 1
  Grain = 4096
  Offsets = {0, 3968}
  Values = {1}
SYMMETRY ThreadSymmetry
INVARIANTS
  PromisesKept
  TripwiresIntact
