SPECIFICATION Spec
CONSTANTS
  None = None
  Case = {x, y}
  Content = {v1, v2}
  Run = {r1, r2}
  Runner = {e1, e2}
  MaxEdits = 2
  MaxCrashes = 1
SYMMETRY Symmetry
INVARIANTS TypeOK PassIsEvidence PassKeepsItsEvidence
