SPECIFICATION AccountSpec
CONSTANTS
  Schedules = {0, 1, 2}
  MaxThreads = 2
  MaxObjects = 2
  priority <- OneTicket
  SleepTimes = {0, 1}
  StaleWakes = {0}
  Preempt = TRUE
  Width = 3
  StaleBursts = {0, 5}
  MaxClock = 2
  MaxDispatches = 2
INVARIANTS CpuTimeConserved NeverChargedTwice DividesByGarbageOnly
CHECK_DEADLOCK FALSE
