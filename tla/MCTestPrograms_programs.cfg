SPECIFICATION FairTestSpec
CONSTANTS
  Schedules = {0, 1, 2}
  MaxThreads = 100
  MaxObjects = 5
  priority <- OneTicket
  SleepTimes = {1}
  StaleWakes = {1}
  Preempt = TRUE
  Programs = {1, 2, 3, 4}
INVARIANT LosesOnlyTheRemoved
PROPERTIES DeletedForGood FifoOrder EndsInCleanUp
CHECK_DEADLOCK FALSE
