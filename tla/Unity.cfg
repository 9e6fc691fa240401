SPECIFICATION Spec
CONSTANTS
  BYTE = 2
  Codes <- CodeSet
  MaxLength = 2
  SigDigits = 2
  Big = 3
  MaxMantissa = 1020
  Below = 9
  Above = 7
  Chars = {0, 1, 3}
  MaxArray = 3
  PRECISION = 4
  MAX = 40
CHECK_DEADLOCK FALSE
INVARIANTS
  NumbersReadBack
  TextTellsString
  
  TextsAreShort
  ScalarsAreExact
  ArraysAreScalars
  DifferenceShows
  StringsCompareExactly
  NoReadBeyond
  MemoryIsExact
  FloatsAreExact
  ArraysAreFloats
  TraitsRespectEquality
