SPECIFICATION VanishSpec
CONSTANTS
  Conns = {c1}
  Chars = {a}
  None = None
  SaveCapacity = 0
  MaxProgress = 1
INVARIANTS
  LeavingSaves
CHECK_DEADLOCK FALSE
