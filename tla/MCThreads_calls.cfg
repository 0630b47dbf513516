SPECIFICATION FairSpec
CONSTANTS
  Schedules = {0, 1, 2}
  MaxThreads = 100
  MaxObjects = 3
  priority <- Tickets
  SleepTimes = {0, 1}
  StaleWakes = {0}
  Preempt = FALSE
INVARIANTS TypeOK NoReadyThreadLost NothingElseReady CrashOnlyWhenNothingReady
PROPERTIES FifoOrder ReadyThreadRuns SleeperWakes
CHECK_DEADLOCK FALSE
