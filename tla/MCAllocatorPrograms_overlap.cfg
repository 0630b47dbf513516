SPECIFICATION ProgramSpec
CONSTANTS
  Strategies = {0}
  sizeOfRegion = 3000
  PageSize = 1536
  Requests = {8}
  MaxSplits = 1
  Programs = {"small_symmetric"}
  NUM = 3
  PerBatch = 2
  Rounds = 2
  Batches = 4
  SmallSizes = {8, 40, 100}
  LargeSizes <- SixtyFourAndBig
INVARIANT BlocksDisjoint
CHECK_DEADLOCK FALSE
