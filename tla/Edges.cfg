SPECIFICATION LinksSpec
CONSTANTS
  SIZE_MAX = 65535
  SIZEOF_SIZE_T = 8
  ALIGNOF_MAX_ALIGN_T = 16
  Threads = {t1}
  NoThread = NoThread
  NPages = 3
  MallocSizes = {0, 1000, 4080, 4081, 65519, 65520}
  CallocArgs <- EdgeCallocs
  ReallocSizes = {0, 1000, 4081, 65535}
  ArrayPlaces = {1024, 20480}
INVARIANTS
  HeldBlocksFit
  FreeFindsBucket
  ListsInRuns
  RingsAreFreelists
