SPECIFICATION LifeSpec
CONSTANTS
  SIZE_MAX = 65535
  SIZEOF_SIZE_T = 8
  ALIGNOF_MAX_ALIGN_T = 16
  Threads = {t1}
  NoThread = NoThread
  NPages = 2
  MallocSizes = {2000, 5000}
  CallocArgs <- NoCallocs
  ReallocSizes = {1500}
  MaxResets = 1
INVARIANTS
  TotmemOnlyAfterReset
