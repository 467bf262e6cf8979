----------------------------- MODULE MCEffects -----------------------------
(***************************************************************************)
(* Effects for TLC: a caster and another player, one monster, six skills.  *)
(* Each behaviour is of one kind, so that each hazard gets its own space:  *)
(*   "casts"     bolt and heal, interrupted, replaced, revived, restarted  *)
(*   "runs"      the bolt on targets out of range                          *)
(*   "effects"   two effects of one type and a toggle                      *)
(*   "duel"      curse and bolt between the two, with and without Ctrl     *)
(*   "gear"      effects and changes of gear                               *)
(***************************************************************************)
EXTENDS Effects

CONSTANTS p1, p2, orc

VARIABLE scenario
mcvars == <<vars, scenario>>

Kind(k, mp1, mp2, cast, reuse, self, ranged, type, rank, lasts, tick) ==
    [kind |-> k, mp1 |-> mp1, mp2 |-> mp2, cast |-> cast, reuse |-> reuse,
     self |-> self, ranged |-> ranged, type |-> type, rank |-> rank,
     lasts |-> lasts, tick |-> tick]

MCData ==
    [bolt   |-> Kind("bolt",   1, 1, 2, 2, FALSE, TRUE,  "none",  0, 0, 0),
     leech  |-> Kind("drain",  0, 1, 2, 0, FALSE, TRUE,  "none",  0, 0, 0),
     song   |-> Kind("buff",   0, 0, 1, 0, FALSE, FALSE, "speed", 0, 2, 0),
     hymn   |-> Kind("buff",   0, 0, 1, 0, TRUE,  FALSE, "speed", 1, 1, 0),
     curse  |-> Kind("curse",  0, 0, 1, 1, FALSE, TRUE,  "venom", 0, 3, 1),
     aura   |-> Kind("toggle", 0, 0, 0, 0, TRUE,  FALSE, "none",  0, 0, 0),
     potion |-> Kind("heal",   0, 0, 0, 0, TRUE,  FALSE, "none",  0, 0, 0),
     scroll |-> Kind("escape", 0, 0, 0, 0, TRUE,  FALSE, "none",  0, 0, 0)]

MCSkills == DOMAIN MCData
MCKnown == [p \in {p1, p2} |-> [s \in MCSkills |->
              IF s \in {"potion", "scroll"} THEN 0
              ELSE IF s = "song" /\ p = p1 THEN 2 ELSE 1]]

Casts ==
    /\ scenario = "casts"
    /\ \/ CastRequest(p1, "bolt", FALSE)
       \/ SetTarget(p1, orc)
       \/ MoveToLocation(p1)
       \/ Wound(p1)
       \/ RequestRestartPoint(p1)
       \/ Revive(p1)
       \/ BeginRestart(p1)
       \/ RemovePlayer(p1)
       \/ AddPlayer(p1)
       \/ PlayerDisconnected(p1)

Runs ==
    /\ scenario = "runs"
    /\ \/ CastRequest(p1, "bolt", FALSE)
       \/ \E o \in {p2, orc} : SetTarget(p1, o)
       \/ Arrive(p1)
       \/ Wander(p1, {})
       \/ MoveToLocation(p1)
       \/ ItemSkillCast(p1, "scroll")
       \/ BeginRestart(p2)
       \/ RemovePlayer(p2)

SomeEffects ==
    /\ scenario = "effects"
    /\ \/ \E s \in {"song", "hymn", "aura"} : CastRequest(p1, s, FALSE)
       \/ CastRequest(p2, "song", FALSE)
       \/ SetTarget(p1, p2)
       \/ SetTarget(p2, p1)
       \/ Dispel(p1, "aura")
       \/ Dispel(p1, "song")
       \/ BeginRestart(p1)
       \/ RestartRefused(p1)
       \/ RemovePlayer(p1)
       \/ AddPlayer(p1)
       \/ PlayerDisconnected(p1)

Duel ==
    /\ scenario = "duel"
    /\ \/ \E s \in {"curse", "bolt"}, c \in BOOLEAN : CastRequest(p1, s, c)
       \/ CastRequest(p1, "leech", FALSE)
       \/ CastRequest(p2, "curse", FALSE)
       \/ SetTarget(p1, p2)
       \/ SetTarget(p2, p1)
       \/ ItemSkillCast(p2, "potion")
       \/ BeginRestart(p2)
       \/ RestartRefused(p2)
       \/ PlayerDisconnected(p2)
       \/ Regen

Gear ==
    /\ scenario = "gear"
    /\ \/ CastRequest(p1, "hymn", FALSE)
       \/ CastRequest(p1, "aura", FALSE)
       \/ Dispel(p1, "aura")
       \/ ComputeRead(p1)
       \/ EquipRead(p1)
       \/ EquipStore(p1)

\* In a run everything is out of range, otherwise nothing is.
MCInit ==
    /\ scenario \in {"casts", "runs", "effects", "duel", "gear"}
    /\ StartAt([p \in Players |-> IF scenario = "runs" THEN {} ELSE Objects])

MCNext ==
    /\ \/ Casts
       \/ Runs
       \/ SomeEffects
       \/ Duel
       \/ Gear
       \/ ComputeStore
       \/ Execute
       \/ ServiceBuffs
       \/ Pass
    /\ UNCHANGED scenario

MCSpec == MCInit /\ [][MCNext]_mcvars
=============================================================================
