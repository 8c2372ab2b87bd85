SPECIFICATION CpuA2Spec
CONSTANTS
  Pid <- MCPid
  Policies <- MCPolicies
  Nice = {0, 1}
  SleepTimes = {3}
  UserTick = 1
  SystemTick = 2
  TimerTicks = 3
  ConsoleTime = 4
  quantum = 3
  initialPriority0 = 1
  Scale = 1024
  MaxConsoles = 1
  MaxTicks = 18
INVARIANTS TicksAccounted NobodyLost HaltsAtTheEnd
