SPECIFICATION FairSpec
CONSTANTS
  SIZE_MAX = 65535
  SIZEOF_SIZE_T = 8
  ALIGNOF_MAX_ALIGN_T = 16
  Threads = {t1, t2}
  NoThread = NoThread
  NPages = 2
  MallocSizes = {5000}
  CallocArgs <- OneCalloc
  ReallocSizes = {0, 4000}
PROPERTIES
  SpinningEnds
  LocksReleased
  AloneCallsReturn
