----------------------------- MODULE TargetIndex -----------------------------
(***************************************************************************)
(* Who targets what (src/internal/gameserver/registry): the TargetID of a   *)
(* player's world state, and the reverse index from an object to the        *)
(* players aiming at it that the loop broadcasts HP updates by.             *)
(*                                                                          *)
(* SetPlayerTarget writes the two one after the other, each under a lock of *)
(* its own, from the player's connection goroutine and from the loop.       *)
(* RemovePlayer and RemoveNPC hold the world's lock while they touch the    *)
(* index, so a SetPlayerTarget between its two writes interleaves with them.*)
(***************************************************************************)
CONSTANTS
  Players,    \* character ids
  Npcs,       \* object ids the NPC counter hands out
  NoTarget    \* target id 0

Objects == Players \cup Npcs

ASSUME NoTargetAssumption == NoTarget \notin Objects

VARIABLES
  world,      \* the players and NPCs in the world registry
  unborn,     \* the NPC ids not handed out yet
  selected,   \* PlayerWorldState.TargetID
  setting,    \* the SetPlayerTarget calls in progress
  removing,   \* the player a RemovePlayer holding the world's lock still has to drop
  current,    \* targetIndex.current, an absent key being NoTarget
  targeters   \* targetIndex.targeters, a function on the keys present

worldVars == <<world, unborn, selected, removing>>
index     == <<current, targeters>>
vars      == <<worldVars, setting, index>>

Call == [by: {"client", "loop"}, player: Players,
         target: Objects \cup {NoTarget}, at: {"world", "index"}]

Unlocked == removing = NoTarget

-----------------------------------------------------------------------------
(* targetIndex, each operation under its lock. A definition under "Fault" is a
   plausible mistake in the one that follows it; no action uses it. *)

Without(f, x) == [y \in DOMAIN f \ {x} |-> f[y]]

(* Fault: the emptied set of an object stays in the map. *)
UnlinkOnly(f, o, p) == [f EXCEPT ![o] = @ \ {p}]
Unlink(f, o, p) ==
  IF o \notin DOMAIN f THEN f
  ELSE IF f[o] \subseteq {p} THEN Without(f, o)
  ELSE [f EXCEPT ![o] = @ \ {p}]

Link(f, o, p) ==
  [x \in DOMAIN f \cup {o} |->
     IF x # o THEN f[x] ELSE IF o \in DOMAIN f THEN f[o] \cup {p} ELSE {p}]

(* set. Fault: the previous target keeps the player. *)
SetKeepsOld(p, t) ==
  /\ current' = [current EXCEPT ![p] = t]
  /\ targeters' = IF t = NoTarget THEN Unlink(targeters, current[p], p)
                  ELSE Link(targeters, t, p)
Set(p, t) ==
  /\ current' = [current EXCEPT ![p] = t]
  /\ targeters' = IF current[p] = t THEN targeters
                  ELSE IF t = NoTarget THEN Unlink(targeters, current[p], p)
                  ELSE Link(Unlink(targeters, current[p], p), t, p)

DropTarget(o) ==
  \/ o \notin DOMAIN targeters /\ UNCHANGED index
  \/ /\ o \in DOMAIN targeters
     /\ current' = [p \in Players |-> IF p \in targeters[o] /\ current[p] = o
                                      THEN NoTarget ELSE current[p]]
     /\ targeters' = Without(targeters, o)

TargetersOf(o) == IF o \in DOMAIN targeters THEN targeters[o] ELSE {}

-----------------------------------------------------------------------------
(* SetPlayerTarget: its caller has looked at the world, then the two writes.   *)

Calling(by, p, t) ==
  setting' = setting \cup {[by |-> by, player |-> p, target |-> t, at |-> "world"]}

ClientIdle(p) == \A c \in setting : c.by = "client" => c.player # p
LoopIdle      == \A c \in setting : c.by # "loop"

(* A click on an object in the world that is not the target yet. *)
Select(p, t) ==
  /\ Unlocked /\ ClientIdle(p)
  /\ {p, t} \subseteq world
  /\ selected[p] # t
  /\ Calling("client", p, t)
  /\ UNCHANGED <<worldVars, index>>

CancelTarget(p) ==
  /\ Unlocked /\ ClientIdle(p)
  /\ p \in world
  /\ Calling("client", p, NoTarget)
  /\ UNCHANGED <<worldVars, index>>

(* The loop teleports a player, which loses its target. *)
Teleport(p) ==
  /\ Unlocked /\ LoopIdle
  /\ p \in world
  /\ Calling("loop", p, NoTarget)
  /\ UNCHANGED <<worldVars, index>>

WriteTargetID(c) ==
  /\ c.at = "world"
  /\ Unlocked
  /\ selected' = IF c.player \in world
                 THEN [selected EXCEPT ![c.player] = c.target] ELSE selected
  /\ setting' = (setting \ {c}) \cup {[c EXCEPT !.at = "index"]}
  /\ UNCHANGED <<world, unborn, removing, index>>

WriteIndex(c) ==
  /\ c.at = "index"
  /\ Set(c.player, c.target)
  /\ setting' = setting \ {c}
  /\ UNCHANGED worldVars

-----------------------------------------------------------------------------
(* Objects enter and leave the world. *)

(* Also over a state that is still there: a character selected twice. *)
AddPlayer(p) ==
  /\ Unlocked
  /\ world' = world \cup {p}
  /\ selected' = [selected EXCEPT ![p] = NoTarget]
  /\ UNCHANGED <<unborn, removing, setting, index>>

(* RemovePlayer in two steps: targets.set and targets.dropTarget lock the index
   one after the other. *)
RemovePlayer(p) ==
  /\ Unlocked
  /\ p \in world
  /\ world' = world \ {p}
  /\ selected' = [selected EXCEPT ![p] = NoTarget]
  /\ removing' = p
  /\ Set(p, NoTarget)
  /\ UNCHANGED <<unborn, setting>>

RemovedPlayer ==
  /\ ~Unlocked
  /\ DropTarget(removing)
  /\ removing' = NoTarget
  /\ UNCHANGED <<world, unborn, selected, setting>>

AddNPC(n) ==
  /\ Unlocked
  /\ n \in unborn
  /\ unborn' = unborn \ {n}
  /\ world' = world \cup {n}
  /\ UNCHANGED <<selected, removing, setting, index>>

RemoveNPC(n) ==
  /\ Unlocked
  /\ n \in world
  /\ world' = world \ {n}
  /\ DropTarget(n)
  /\ UNCHANGED <<unborn, selected, removing, setting>>

-----------------------------------------------------------------------------
Init ==
  /\ world = {}
  /\ unborn = Npcs
  /\ selected = [p \in Players |-> NoTarget]
  /\ setting = {}
  /\ removing = NoTarget
  /\ current = [p \in Players |-> NoTarget]
  /\ targeters = [o \in {} |-> {}]

Next ==
  \/ \E p \in Players, t \in Objects : Select(p, t)
  \/ \E p \in Players : CancelTarget(p) \/ Teleport(p) \/ AddPlayer(p) \/ RemovePlayer(p)
  \/ \E n \in Npcs : AddNPC(n) \/ RemoveNPC(n)
  \/ \E c \in setting : WriteTargetID(c) \/ WriteIndex(c)
  \/ RemovedPlayer

Spec == Init /\ [][Next]_vars

-----------------------------------------------------------------------------
(* Properties. *)

(* Every variable holds values of its kind; in particular 0 is never a key of
   the reverse map. *)
TypeOK ==
  /\ world \subseteq Objects
  /\ unborn \subseteq Npcs
  /\ selected \in [Players -> Objects \cup {NoTarget}]
  /\ setting \subseteq Call
  /\ removing \in Players \cup {NoTarget}
  /\ current \in [Players -> Objects \cup {NoTarget}]
  /\ DOMAIN targeters \subseteq Objects
  /\ targeters = [o \in DOMAIN targeters |-> targeters[o]]
  /\ \A o \in DOMAIN targeters : targeters[o] \subseteq Players

(* The two maps of the index are inverses of each other, and no emptied set is
   left in the reverse one, whatever SetPlayerTarget, RemovePlayer and RemoveNPC
   interleave (set and dropTarget each update both). *)
IndexInverse ==
  /\ \A o \in Objects : TargetersOf(o) = {p \in Players : current[p] = o}
  /\ \A o \in DOMAIN targeters : targeters[o] # {}

(* The target a player has according to the reverse map alone. *)
TargetByIndex(p) ==
  LET held == {o \in DOMAIN targeters : p \in targeters[o]}
  IN IF held = {} THEN NoTarget ELSE CHOOSE o \in held : TRUE

Table == INSTANCE TargetTable WITH target <- [p \in Players |-> TargetByIndex(p)]

(* Read through the reverse map, the index is a table that only ever moves one
   player to a target or strikes one object (set, dropTarget). *)
ImplementsTable == Table!Spec

(* No call in progress. *)
Settled == setting = {} /\ Unlocked

(* world.go:377-379, SetPlayerTarget "keeps the reverse targeter index in sync,
   so broadcastToTargeters(objectID) can reach exactly the players aiming at
   objectID". *)
IndexMatchesScan ==
  Settled => \A o \in world :
    TargetersOf(o) = {p \in Players \cap world : selected[p] = o}

(* targetindex.go:61-62, dropTarget is "used when the object leaves the world
   [...] so its targeter set doesn't linger". *)
NoLingeringTarget == Settled => DOMAIN targeters \subseteq world
=============================================================================
