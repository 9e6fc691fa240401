SPECIFICATION UseSpec
CONSTANTS
  lname = 8
  Objects = {100, 200, 300}
  Heads = {24, 400}
INVARIANTS
  RingsAreLists
  LoopVisitsAll
