------------------------------ MODULE MCCombat ------------------------------
(* Combat for TLC with two interchangeable players, in two scenarios of one run:
   in "duel" they fight each other, in "raid" they stay in the world and fight an
   NPC. *)
EXTENDS Combat, TLC

VARIABLE scenario
allVars == <<vars, scenario>>

InDuel == scenario = "duel" /\ UNCHANGED scenario
InRaid == scenario = "raid" /\ UNCHANGED scenario

PairsInit ==
  \/ Init /\ scenario = "duel"
  \/ /\ scenario = "raid"
     /\ presence = [p \in Players |-> "in"]
     /\ hp = [p \in Players |-> 1]
     /\ departed = {} /\ fighters = {} /\ spawnInfo = Spawned /\ queue = EmptyBag
     /\ inCombat = [p \in Players |-> FALSE]
     /\ aim = [p \in Players |-> NoOne]
     /\ age = [p \in Players |-> StanceTimeout]
     /\ npcs = [n \in Npcs |-> IF n \in Spawned THEN "alive" ELSE "absent"]
     /\ npcHp = [n \in Npcs |-> IF n \in Spawned THEN MaxHp ELSE 0]
     /\ hate = [n \in Npcs |-> [p \in Players |-> 0]]
     /\ npcAim = [n \in Npcs |-> NoOne]

PairsNext ==
  \/ \E p, v \in Players : AttackRequest(p, v) /\ InDuel
  \/ \E p, v \in Players, d \in 1..MaxHp : CastOnPlayer(p, v, d) /\ InDuel
  \/ \E p \in Players : (AbandonAttack(p) \/ Revive(p) \/ Regen(p) \/ HandlePlayerDisconnected(p)) /\ InDuel
  \/ Connection /\ InDuel
  \/ \E p \in Players, n \in Npcs : AttackRequest(p, n) /\ InRaid
  \/ \E p \in Players, n \in Npcs, d \in 1..MaxHp, kinds \in 1..2 : CastOnNpc(p, n, d, kinds) /\ InRaid
  \/ ExecuteEvents /\ UNCHANGED scenario
  \/ Tick /\ UNCHANGED scenario

PairsSpec == PairsInit /\ [][PairsNext]_allVars

PlayerSymmetry == Permutations(Players)
=============================================================================
