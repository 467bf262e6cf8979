------------------------------- MODULE MCPvE -------------------------------
(* Combat for TLC with one player, who has nobody to cast on but NPCs, under the
   fairness of the loop. *)
EXTENDS Combat

PvENext ==
  \/ \E p \in Players :
       \/ \E t \in Objects : AttackRequest(p, t)
       \/ CancelAttack(p) \/ AbandonAttack(p)
       \/ Revive(p) \/ Regen(p)
       \/ \E n \in Npcs, d \in 1..MaxHp, kinds \in 1..2 : CastOnNpc(p, n, d, kinds)
       \/ HandlePlayerDisconnected(p)
  \/ Connection \/ ExecuteEvents \/ Tick

PvESpec == Init /\ [][PvENext]_vars /\ Fairness
=============================================================================
