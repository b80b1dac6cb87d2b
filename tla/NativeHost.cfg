SPECIFICATION Spec
CONSTANTS
  c1 = c1
  c2 = c2
  Caller = {c1, c2}
  KindsOf <- BeginAndAny
  Name = {macro}
  None = None
  WorkCap = 1
  UICap = 1
  MaxTasks = 2
  MaxEnds = 1
INVARIANTS TypeOK SendsNeverBlock CauseIsReported TaskIsWatched SyncNeverWaitsForTasks
PROPERTY CompletionIsFinal
CHECK_DEADLOCK FALSE
