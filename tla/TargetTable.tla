----------------------------- MODULE TargetTable -----------------------------
(***************************************************************************)
(* What the reverse target index (src/internal/gameserver/registry/        *)
(* targetindex.go) promises: a table with the target of every player, which *)
(* a player moves to another object and an object that leaves the world is  *)
(* struck from.                                                             *)
(***************************************************************************)
CONSTANTS Players, Objects, NoTarget

VARIABLE target   \* the object each player aims at

TargetingOf(o) == {p \in Players : target[p] = o}

Init == target = [p \in Players |-> NoTarget]

Point(p, t) == target' = [target EXCEPT ![p] = t]

Strike(o) ==
  target' = [p \in Players |-> IF p \in TargetingOf(o) THEN NoTarget ELSE target[p]]

Next ==
  \/ \E p \in Players, t \in Objects \cup {NoTarget} : Point(p, t)
  \/ \E o \in Objects : Strike(o)

Spec == Init /\ [][Next]_target
=============================================================================
