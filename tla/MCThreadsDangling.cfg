CONSTANTS
  MaxThreads = 4
  MaxChildren = 3
  MaxPages = 1
  ExitCodes <- OneCode
  Policy = "NON_PREEMPTIVE_BASE"
  MissingExecutable = TRUE
SPECIFICATION Spec
INVARIANTS NoDanglingThread
