SPECIFICATION RunSpec
CONSTANTS
  MaxTests = 3
  MaxMessages = 2
INVARIANTS
  FirstVerdictCounts
  OutputTellsVerdicts
  DetailsAreOwn
  TearDownOnce
PROPERTY EveryTestConcludes
