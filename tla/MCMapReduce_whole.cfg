SPECIFICATION FairSystem
CONSTANTS
  a = a
  b = b
  NULL = NULL
  Words = {a, b}
  replicas = 2
  bufferMaxSize = 1
  Segment <- TwoSegments
  MaxSpurious = 1
INVARIANTS TypeOK BufferOverrunBounded NoLostWakeup PairNeverBothWait WordsConserved ReducerAfterLastAdder ReducerSeesFinalCounts FreedOnlyAfterDone CleanUpIsExact
PROPERTIES CountsWords ReturnsUnlessHung
CHECK_DEADLOCK FALSE
