SPECIFICATION Spec
CONSTANTS
  Schedules = {0, 1, 2}
  MaxThreads = 2
  MaxNodes = 3
INVARIANT FieldsAgree
PROPERTIES IsSequence
CHECK_DEADLOCK FALSE
