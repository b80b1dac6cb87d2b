SPECIFICATION Spec
CONSTANTS
  Proc = {w1, w2}
  Plan = {p1, p2}
  t1 = t1
  Target = {t1}
  Content = {old, new}
  Passing = {old, new}
  UserContent <- AnyUserContent
  TargetOf <- OneTarget
  None = None
  Mishaps = {"error", "crash", "edit", "staged"}
  MaxMishaps = 1
  MaxCalls = 1
SYMMETRY Symmetry
INVARIANTS TypeOK NoLockLeaks InstalledIsUndoable
PROPERTIES Promised

