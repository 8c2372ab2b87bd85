SPECIFICATION A1Spec
CONSTANTS
  MaxThreads = 4
  MaxChildren = 3
  ExitCode <- MCExitCode
  FutureJoins = FALSE
  NumPhysPages = 4
  FilePages <- MCFilePages
INVARIANTS A1Placement FamilyKnown JoinKnowsChild
CHECK_DEADLOCK FALSE
