SPECIFICATION MCSpec
CONSTANTS
  shared = shared
  one = one
  two = two
  Component = {shared, one, two}
  Requires <- MCRequires
  File = {"a", "b", "c", "d"}
  FilesOf <- MCFilesOf
  Value = {p, q}
  Installer = {i, j}
  None = None
  User = User
  Partial = Partial
  MaxEdits = 1
  MaxCrashes = 1
SYMMETRY Symmetry
INVARIANTS TypeOK RecordedIsWhole LeftoversAreReported
PROPERTIES LockIsRegistry
