SPECIFICATION ScenarioSpec
CONSTANTS
  Recons = {r1, r2}
  MaxConns = 2
  MaxRetries = 2
  MaxInFlight = 1
  Senders = {loop}
  QueueCap = 3
  MaxBatch = 2
  MaxSent = 3
INVARIANTS
  LinkSound ServerDecodes ConnSound
PROPERTIES
  SettledRecovers FifoDelivery ClosedEnds
CHECK_DEADLOCK FALSE
