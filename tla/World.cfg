SPECIFICATION ScenarioSpec
CONSTANTS
  c1 = c1  c2 = c2  c3 = c3  p1 = p1  p2 = p2  n1 = n1
  Conns = {c1, c2, c3}
  Chars = {p1, p2}
  NpcIds = {n1}
  Players = {p1, p2}
  Npcs = {n1}
  NoTarget = NoTarget
  Owner <- MCOwner
  NpcAt <- MCNpcAt
  Where <- MCWhere
  Cell = 2  Watch = 6  Forget = 7  Deviation = 1  MaxStep = 7  MaxQueue = 2
  None = None
INVARIANTS QueriesExact RegionsCounted RegionsSound FreshNeighboursSee IndexInverse
PROPERTIES ImplementsTable
CHECK_DEADLOCK FALSE
