CONSTANTS
  m = m
  e1 = e1
  e2 = e2
  d1 = d1
  d2 = d2
  Main = m
  Enqueuers <- TwoEnqueuers
  Dequeuers <- TwoDequeuers
  Thread <- FourChildren
  SIZE = 1
  NUM_ENQUEUE_OP = 1
  Keys <- QueueKeys
  MaxSemaphores = 3
  MaxConditions = 3
  SetValues <- JustOne
  MaxValue = 2
SPECIFICATION QueueFairSpec
INVARIANTS MutualExclusion FirstInFirstOut NoUseAfterRemove
PROPERTY ProgramEnds
