SPECIFICATION CpuSpec
CONSTANTS
  Pid <- ThreeThreads
  Algorithms <- Policies
  Nice = {0, 3}
  SleepTimes = {2, 5}
  Uninitialised = {0, 7}
  UserTick = 1
  SystemTick = 2
  TimerTicks = 3
  ConsoleTime = 4
  SCHED_QUANTUM = 3
  DEFAULT_BASE_PRIORITY = 1
  MaxConsoles = 1
  MaxTicks = 18
INVARIANTS TimeAccounted SleepersWoken WaitBounded PriorityFollowsUsage HaltsWhenDone
