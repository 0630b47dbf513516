SPECIFICATION Spec
CONSTANTS
  a = a
  b = b
  c = c
  Words = {a, b}
  replicas = 2
  MaxCount = 1
  MapperOutput <- AllFamilies
INVARIANT FinalListExact
CHECK_DEADLOCK FALSE
