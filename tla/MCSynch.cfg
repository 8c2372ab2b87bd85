CONSTANTS
  t1 = t1
  t2 = t2
  t3 = t3
  Thread <- ThreeThreads
  Keys <- TwoKeys
  MaxSemaphores = 3
  MaxConditions = 3
  SetValues <- ZeroOne
  MaxValue = 2
CHECK_DEADLOCK FALSE
SPECIFICATION SynchSpec
SYMMETRY Symmetric
INVARIANTS SynchTypeOK NoStrandedPermit
PROPERTIES ImplementsSemaphores
