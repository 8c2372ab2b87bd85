SPECIFICATION MemorySpec
CONSTANTS
  Thread = {p1, p2, p3, p4}
  NumPhysPages = 4
  Loads <- ForksOrShares
  Written = {3}
  MissingFile = TRUE
SYMMETRY Symmetric
VIEW WhileOn
INVARIANTS MemoryTypeOK NoAliasing NoFrameLost
PROPERTY ImplementsVirtualMemory
