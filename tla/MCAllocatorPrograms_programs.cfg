SPECIFICATION ProgramSpec
CONSTANTS
  Strategies = {0, 1}
  sizeOfRegion = 4097
  PageSize = 4096
  Requests = {8, 16, 40, 1016, 8184}
  MaxSplits = 4
  Programs <- AllPrograms
  NUM = 4
  PerBatch = 2
  Rounds = 3
  Batches = 4
  SmallSizes = {8, 100}
  LargeSizes <- SixtyFourAndBig
INVARIANTS TypeOK ClaimsDriftBySplits NoByteLost FitIsRight FreesEachBlockOnce RoundsServedAlike CoalesceConserves
CHECK_DEADLOCK FALSE
