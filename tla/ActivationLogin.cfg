SPECIFICATION LoginSpec
CONSTANTS
  Proc = {w1, w2}
  Plan = {p1}
  t1 = t1
  Target = {t1}
  Content = {old, new}
  Passing = {new}
  UserContent = {old}
  TargetOf <- OneTarget
  None = None
  Mishaps = {"error", "crash", "edit", "staged"}
  MaxMishaps = 2
  MaxCalls = 2
PROPERTY LoginResumes
