SPECIFICATION LinksSpec
CONSTANTS
  SIZE_MAX = 65535
  SIZEOF_SIZE_T = 8
  ALIGNOF_MAX_ALIGN_T = 16
  Threads = {t1, t2}
  NoThread = NoThread
  NPages = 2
  MallocSizes = {2000, 5000}
  CallocArgs <- OneCalloc
  ReallocSizes = {0, 1500, 4000}
  ArrayPlaces = {1024, 20480}
SYMMETRY ThreadSymmetry
INVARIANTS
  TypeOK
  MutualExclusion
  InitExclusive
  NoOverlap
  HeadersIntact
PROPERTY ImplementsHeap
