\* A caster, another player and a monster; two casts, four units of time.
CONSTANTS
    p1 = p1
    p2 = p2
    orc = orc
    Nobody = Nobody
    NoSkill = NoSkill
    Players = {p1, p2}
    Monsters = {orc}
    Skills <- MCSkills
    Data <- MCData
    Known <- MCKnown
    MaxHP = 2
    MaxMP = 3
    FlagTime = 3
    MaxClock = 4
    MaxCasts = 2
SPECIFICATION MCSpec
INVARIANTS
    CastsSound
    HeartbeatAlive
    HarmShown
    EffectsSound
CHECK_DEADLOCK FALSE
