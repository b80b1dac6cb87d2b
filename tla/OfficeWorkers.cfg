SPECIFICATION FairSpec
CONSTANTS
  c1 = c1
  c2 = c2
  c3 = c3
  h1 = h1
  h2 = h2
  Call <- ThreeCalls
  Helper = {h1, h2}
  Worker = {w1, w2}
  HelperOf <- Shared
  None = None
  MaxStops = 1
INVARIANTS TypeOK AnswersMatch NoOrphans
PROPERTIES IdleStopSparesTheUsed HelpersStop
CHECK_DEADLOCK FALSE
