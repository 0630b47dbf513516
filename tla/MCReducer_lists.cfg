SPECIFICATION FairSpec
CONSTANTS
  a = a
  b = b
  c = c
  Words = {a, b, c}
  replicas = 2
  MaxCount = 2
  MapperOutput <- AllFamilies
INVARIANTS OccurrencesConserved ScanStaysInside
PROPERTY ReducerReturns
CHECK_DEADLOCK FALSE
