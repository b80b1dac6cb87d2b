SPECIFICATION MCSpec
CONSTANTS
  Starter = {a, b}
  Caller = {c}
  s1 = s1
  s2 = s2
  Server = {s1, s2}
  None = None
  Slots = 2
  Instances = 2
  MaxCrashes = 1
INVARIANTS TypeOK CapabilityIsRespected NoCallIsCut SessionStaysWarm
PROPERTY ShutdownEnds
CHECK_DEADLOCK FALSE
