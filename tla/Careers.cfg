\* Two connections of one account and one of another, two slots; two players.
CONSTANTS
    a = a
    b = b
    c1 = c1
    c2 = c2
    c3 = c3
    p1 = p1
    p2 = p2
    strike = strike
    shield = shield
    luck = luck
    Accounts = {a, b}
    Conns = {c1, c2, c3}
    AccountOf <- MCAccountOf
    Names = {"ann", "ben", "gm"}
    Reserved = {"gm"}
    MaxSlots = 2
    Week = 1
    MaxIds = 3
    MaxTime = 1
    MaxRollbacks = 1
    Players = {p1, p2}
    Mobs <- MCMobs
    ExpTable <- MCExpTable
    MaxLevel = 8
    Trees <- MCTrees
    SkillIds = {strike, shield, luck}
    SaveRoom = 1
    MaxHate = 2
  MaxKills = 2
    MaxFaults = 1
SPECIFICATION MCSpec
INVARIANTS
    AccountsSound
    ProgressSound
PROPERTY
    SkillRowsGrow
CHECK_DEADLOCK FALSE
SYMMETRY ConnSymmetry
