SPECIFICATION FairSpec
CONSTANTS
  c1 = c1
  c2 = c2
  Caller = {c1, c2}
  KindsOf <- BeginAndWait
  Name = {}
  None = None
  WorkCap = 1
  UICap = 1
  MaxTasks = 2
  MaxEnds = 1
PROPERTIES EveryCallReturns EveryTaskEnds TokensAreHostTasks
CHECK_DEADLOCK FALSE
