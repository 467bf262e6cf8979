SPECIFICATION PairsSpec
SYMMETRY PlayerSymmetry
CONSTANTS
  Players = {p1, p2}
  Npcs = {n1, n2}
  Spawned = {n1}
  NoOne = NoOne
  MaxHp = 3
  Heartbeat = 1
  SwingTime = 2
  HitDelay = 1
  StanceTimeout = 1
  DecayDelay = 1
  RespawnDelay = 2
  MaxPending = 1
INVARIANTS
  AttackChainAlive
  NpcChainAlive
  NobodyFightsCorpses
