CONSTANTS
  MaxThreads = 5
  MaxChildren = 4
  MaxPages = 2
  ExitCodes <- TwoCodes
  Policy = "UNIX_SCHED"
  MissingExecutable = FALSE
SPECIFICATION Spec
INVARIANTS
  TypeOK
  Placement
  OneCarcass
  NoDanglingThread
  JoinNotLost
  JoinResult
  LastExitHalts
PROPERTIES
  JoinerWokenByItsChild
  ImplementsDispatcher
