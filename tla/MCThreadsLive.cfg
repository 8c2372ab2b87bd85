CONSTANTS
  MaxThreads = 4
  MaxChildren = 3
  MaxPages = 2
  ExitCodes <- OneCode
  Policy = "ROUND_ROBIN"
  MissingExecutable = TRUE
SPECIFICATION FairSpec
PROPERTIES ReadyRuns JoinEnds ForkEnds
