SPECIFICATION Spec
CONSTANTS
  SIZE_MAX = 65535
  SIZEOF_SIZE_T = 8
  ALIGNOF_MAX_ALIGN_T = 16
  Threads = {t1}
  NoThread = NoThread
  NPages = 1
  MallocSizes = {10}
  CallocArgs <- NoCallocs
  ReallocSizes = {65535}
INVARIANTS
  OversizeHasNoBucket
