SPECIFICATION MCSpec
CONSTANTS
  Source = {src}
  Manifest = manifest
  Lock = lock
  Base = base
  Data = {d1, d2}
  None = None
  MaxEdits = 2
SYMMETRY Symmetry
INVARIANT ResidentObservesEdits
