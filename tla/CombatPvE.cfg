SPECIFICATION PvESpec
CONSTANTS
  Players = {p1}
  Npcs = {n1, n2}
  Spawned = {n1}
  NoOne = NoOne
  MaxHp = 2
  Heartbeat = 1
  SwingTime = 2
  HitDelay = 1
  StanceTimeout = 3
  DecayDelay = 2
  RespawnDelay = 3
  MaxPending = 2
INVARIANTS
  SheathScheduled
  PopulationSound
PROPERTIES
  StanceHeld
  StoppedIsSheathed
  DeadNpcRespawns
