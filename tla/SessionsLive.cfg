SPECIFICATION RunningSpec
CONSTANTS
  Conns = {c1, c2}
  Chars = {a}
  None = None
  SaveCapacity = 0
  MaxProgress = 0
INVARIANTS
  ServiceSound
PROPERTIES
  KickedIsClosed
  ClosedIsForgotten
CHECK_DEADLOCK FALSE
