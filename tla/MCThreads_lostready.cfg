SPECIFICATION Spec
CONSTANTS
  Schedules = {0}
  MaxThreads = 3
  MaxObjects = 3
  priority <- Tickets
  SleepTimes = {1}
  StaleWakes = {0}
  Preempt = TRUE
INVARIANT NoReadyThreadLost
CHECK_DEADLOCK FALSE
