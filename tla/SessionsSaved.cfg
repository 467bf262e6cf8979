SPECIFICATION SavedSpec
CONSTANTS
  Conns = {c1, c2}
  Chars = {a}
  None = None
  SaveCapacity = 1
  MaxProgress = 4
SYMMETRY ConnSymmetry
INVARIANTS
  CalmSaves
  QuietIsSaved
CHECK_DEADLOCK FALSE
