SPECIFICATION MemorySpec
CONSTANTS
  Thread = {p1, p2, p3}
  NumPhysPages = 3
  Loads <- Small
  Written = {3}
  MissingFile = TRUE
SYMMETRY Symmetric
INVARIANT ExecNeverReturns
