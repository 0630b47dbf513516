SPECIFICATION FairSpec
CONSTANTS
  a = a
  b = b
  NULL = NULL
  Words = {a, b}
  replicas = 1
  bufferMaxSize = 1
  Segment <- OneSegment
  MaxSpurious = 0
PROPERTY MainReachesReducer
CHECK_DEADLOCK FALSE
