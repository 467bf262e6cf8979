------------------------------ MODULE MCWorld ------------------------------
(* World for TLC: two connections of one player and one of another, on a line
   where players are in sight, only remembered, or out of range, on both sides
   of the wide region around zero. Four scenarios of one run:
     "walk"  two players report positions and come and go,
     "run"   one of them is moved by requests, by the loop and by teleports,
     "take"  a login takes over, a restart is refused, while positions arrive,
     "npcs"  one player walks among an NPC that dies and respawns.
   A fifth, "targets", is TargetIndex: the index of the same registry of who
   targets whom. *)
EXTENDS World, TargetIndex, TLC

CONSTANTS c1, c2, c3, p1, p2, n1

MCOwner == (c1 :> p1) @@ (c2 :> p1) @@ (c3 :> p2)
MCNpcAt == (n1 :> 6)
MCWhere == {-1, 5, 7}

VARIABLE scenario
allVars == <<presenceVars, vars, scenario>>

In(S) == scenario \in S /\ UNCHANGED <<vars, scenario>>
InScenario(S) == In(S) /\ UNCHANGED disturbed
Roaming == InScenario({"walk", "run", "take", "npcs"})
Cast(c) == CASE scenario = "take" -> c # c3 [] scenario = "npcs" -> c = c1 [] OTHER -> c # c2

ScenarioInit == /\ WorldInit /\ Init /\ scenario \in {"walk", "run", "take", "npcs", "targets"}
                /\ pos[p2] = 5 /\ (scenario \in {"run", "targets"} => pos[p1] = 7)
ScenarioNext ==
  \/ \E c \in Conns : (Login(c) \/ EnterWorld(c) \/ Entered(c)) /\ Cast(c) /\ Roaming
  \/ \E c \in Conns : /\ CharacterSelect(c) /\ Cast(c) /\ Roaming
                      /\ scenario = "run" => Owner[c] \notin inWorld
  \/ \E c \in Conns : (Logout(c) \/ Restart(c) \/ Left(c)) /\ Cast(c) /\ InScenario({"walk", "take", "npcs"})
  \/ \E c \in Conns, x \in Where : ValidatePosition(c, x) /\ Cast(c) /\ InScenario({"walk", "take", "npcs"})
  \/ \E c \in Conns : SyncPosition(c) /\ Cast(c) /\ Roaming
  \/ \E x, y \in {-1, 7} : MoveBackward(c1, x, y) /\ InScenario({"run"})
  \/ \E x \in {-1, 7} : (ValidatePosition(c1, x) \/ CannotMoveAnymore(c1, x)) /\ InScenario({"run"})
  \/ \E c \in Conns : (StartMovement(c) \/ TellMove(c) \/ Appearing(c)) /\ InScenario({"run"})
  \/ (Approach(p1, -1) \/ Approach(p1, 7) \/ TeleportPlayer(p1, -1)) /\ InScenario({"run"})
  \/ AdvancePlayer(p1) /\ InScenario({"run"})
  \/ (HandleEntered \/ HandleMoved \/ HandleMoveTo \/ HandleLeft) /\ Roaming
  \/ \E n \in NpcIds : (Decay(n) \/ Respawn(n)) /\ InScenario({"npcs"})
  \/ \E c \in Conns : Disturb(c) /\ In({"take"})
  \/ \E c \in Conns : GotoLobby(c) /\ InScenario({"take", "npcs"}) /\ Cast(c)
  \/ Next /\ scenario = "targets" /\ UNCHANGED <<presenceVars, scenario>>
ScenarioSpec == ScenarioInit /\ [][ScenarioNext]_allVars
=============================================================================
