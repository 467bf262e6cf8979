------------------------------- MODULE World -------------------------------
(* Who is where and who sees whom (internal/gameserver: registry/world.go,
   gameloop/regions.go, gameloop/visibility.go, gameloop/teleport.go,
   handlers/client/movement.go, handlers/client/world.go). Connections change
   the world registry between two locks and send commands to the game loop,
   which keeps the active regions and the sets of known players.

   Positions lie on a line, in units that make a region Cell wide. An account
   has one character, so a player stands for both. The loop compares a player
   with its surroundings in one step; a player a connection moves meanwhile counts
   as moved after it. *)
EXTENDS Integers, Sequences, FiniteSets

CONSTANTS
  Conns,      \* connections clients open
  Chars,      \* the players
  Owner,      \* the player a connection belongs to
  NpcIds,
  NpcAt,      \* where an NPC stands
  Where,      \* the positions players take
  Cell,       \* regionSize
  Watch,      \* VisibilityWatchRadius
  Forget,     \* VisibilityForgetRadius
  Deviation,  \* correctionThreshold
  MaxStep,    \* maxMovementDistance
  MaxQueue,   \* bound: commands under way, commandChannelSize
  None

\* Players and NPCs share the region lists; ids of NPCs count up from 1,000,001
\* (registry/objectid.go), those of characters from 1.
ASSUME WorldAssumption ==
  /\ IsFiniteSet(Chars) /\ Chars \intersect NpcIds = {}
  /\ Owner \in [Conns -> Chars] /\ NpcAt \in [NpcIds -> Int] /\ Where \subseteq Int
  /\ Cell \in Nat \ {0} /\ Watch \in Nat /\ Forget \in Nat /\ Watch <= Forget /\ MaxQueue \in Nat
  /\ None \notin Int \union Conns

VARIABLES
  conn,     \* per connection: the step its goroutine is at and its argument
  queue,    \* gl.commands
  inWorld,  \* players in the registry
  pos,      \* the position of a player, the saved one of those not in the world
  regions,  \* per region, how often its list holds an id
  npcs,     \* NPCs in the registry
  known,    \* KnownPlayers
  seen,     \* KnownNPCs
  moving,   \* MoveDestination, None unless IsMoving
  driven,   \* players whose intention is to attack, interact or cast
  tele,     \* players that are teleporting
  center,   \* playerRegionCenter
  active,   \* PlayerCount of the active regions
  fresh,    \* history: players who have not moved since the loop last compared
            \* them with their surroundings
  disturbed \* history: players a second login took over from, or whose restart
            \* was refused

registry == <<inWorld, pos, regions, npcs>>
\* What PlayerWorldState says of a player's own movement.
motion   == <<moving, driven, tele>>
loop     == <<known, center, active>>
presenceVars == <<conn, queue, registry, seen, motion, loop, fresh, disturbed>>

\* Go divides towards zero: the region around 0 is twice as wide.
RegionOf(x) == IF x >= 0 THEN x \div Cell ELSE -((-x) \div Cell)
Dist(x, y)  == IF x >= y THEN x - y ELSE y - x
Places      == Where \union {NpcAt[n] : n \in NpcIds}
Regions     == {RegionOf(x) : x \in Places}
Block(r)    == (r - 1)..(r + 1)
Cells       == UNION {Block(r) : r \in Regions}

Steps == {"new", "kick", "authed", "enter", "ingame", "sync", "move", "tell", "leave",
          "restart", "kicked", "gone"}
Command == [kind : {"entered", "moved", "moveTo", "left"}, who : Chars, at : Where \union {None}]

WorldTypeOK ==
  /\ conn \in [Conns -> [pc : Steps, at : Where \union {None}, live : BOOLEAN]]
  /\ queue \in Seq(Command) /\ Len(queue) <= MaxQueue
  /\ inWorld \subseteq Chars /\ fresh \subseteq inWorld /\ driven \subseteq Chars
  /\ disturbed \subseteq Chars
  /\ pos \in [Chars -> Where]
  /\ regions \in [Regions -> [Chars \union NpcIds -> Nat]]
  /\ npcs \subseteq NpcIds
  /\ known \in [Chars -> SUBSET Chars] /\ seen \in [Chars -> SUBSET NpcIds]
  /\ moving \in [Chars -> Where \union {None}] /\ tele \subseteq inWorld
  /\ center \in [Chars -> Regions \union {None}]
  /\ active \in [Cells -> Nat]

WorldInit ==
  /\ conn = [c \in Conns |-> [pc |-> "new", at |-> None, live |-> FALSE]]
  /\ queue = <<>> /\ inWorld = {} /\ fresh = {} /\ driven = {} /\ tele = {}
  /\ disturbed = {}
  /\ pos \in [Chars -> Where]
  /\ npcs = NpcIds
  /\ regions = [r \in Regions |-> [i \in Chars \union NpcIds |->
       IF i \in NpcIds /\ RegionOf(NpcAt[i]) = r THEN 1 ELSE 0]]
  /\ known = [p \in Chars |-> {}] /\ seen = [p \in Chars |-> {}]
  /\ moving = [p \in Chars |-> None] /\ center = [p \in Chars |-> None]
  /\ active = [r \in Cells |-> 0]

-----------------------------------------------------------------------------
(* The registry. *)

AddToRegion(g, r, i) == [g EXCEPT ![r][i] = @ + 1]
\* Only the first entry of the list goes.
RemoveFromRegion(g, r, i) == [g EXCEPT ![r][i] = IF @ > 0 THEN @ - 1 ELSE 0]


\* Mutant: the range is rounded inwards.
NearbyInwards(x, radius) == RegionOf(x - radius)..(RegionOf(x + radius) - 1)

Nearby(x, radius) == RegionOf(x - radius)..RegionOf(x + radius)
Listed(x, radius) == {i \in Chars \union NpcIds : \E r \in Regions \intersect Nearby(x, radius) : regions[r][i] > 0}
PlayersInRange(at, x, radius) == {p \in inWorld \intersect Listed(x, radius) : Dist(at[p], x) <= radius}
NPCsInRange(x, radius) == {n \in npcs \intersect Listed(x, radius) : Dist(NpcAt[n], x) <= radius}

\* UpdatePlayerPosition: nothing happens to a player who is not there.
Put(p, x) ==
  IF p \notin inWorld THEN UNCHANGED <<pos, regions>>
  ELSE /\ pos' = [pos EXCEPT ![p] = x]
       /\ regions' = IF RegionOf(pos[p]) = RegionOf(x) THEN regions
                     ELSE AddToRegion(RemoveFromRegion(regions, RegionOf(pos[p]), p), RegionOf(x), p)

Moves(p, x) == Put(p, x) /\ fresh' = IF x = pos[p] THEN fresh ELSE fresh \ {p}

\* RemovePlayer.
Remove(p) ==
  /\ inWorld' = inWorld \ {p} /\ fresh' = fresh \ {p} /\ tele' = tele \ {p}
  /\ moving' = [moving EXCEPT ![p] = None]
  /\ known' = [known EXCEPT ![p] = {}] /\ seen' = [seen EXCEPT ![p] = {}]
  /\ regions' = IF p \in inWorld THEN RemoveFromRegion(regions, RegionOf(pos[p]), p) ELSE regions

-----------------------------------------------------------------------------
(* Connections. *)

At(c, step)       == conn[c].pc = step
Go(c, step)       == conn' = [conn EXCEPT ![c].pc = step]
GoWith(c, step, x) == conn' = [conn EXCEPT ![c].pc = step, ![c].at = x]
Send(k, p, x)     ==
  /\ Len(queue) < MaxQueue
  /\ queue' = Append(queue, [kind |-> k, who |-> p, at |-> x])
Rivals(c) == {d \in Conns \ {c} : Owner[d] = Owner[c] /\ conn[d].live}

\* A login finds no other connection of the account, or takes over from it: the
\* old session is detached, its character leaves; its handler may be halfway.
Login(c) ==
  /\ At(c, "new") /\ Rivals(c) = {}
  /\ conn' = [conn EXCEPT ![c].pc = "authed", ![c].live = TRUE]
  /\ UNCHANGED <<queue, registry, seen, motion, loop, fresh>>

KickExistingSession(c) ==
  /\ At(c, "new") /\ Rivals(c) # {}
  /\ LET detached == [d \in Conns |-> [conn[d] EXCEPT
            !.live = @ /\ d \notin Rivals(c),
            !.pc = IF d \in Rivals(c) /\ @ \in {"authed", "ingame"} THEN "kicked" ELSE @]]
         here == Owner[c] \in inWorld
     IN  /\ conn' = [detached EXCEPT ![c].pc = IF here THEN "kick" ELSE "authed", ![c].live = TRUE]
         /\ IF here THEN Send("left", Owner[c], None) ELSE UNCHANGED queue
  /\ UNCHANGED <<registry, seen, motion, loop, fresh>>

KickRemove(c) ==
  /\ At(c, "kick") /\ Go(c, "authed") /\ Remove(Owner[c])
  /\ UNCHANGED <<queue, pos, npcs, driven, center, active>>

\* CharacterSelect, possibly more than once: AddPlayer with a fresh state.
CharacterSelect(c) ==
  /\ At(c, "authed")
  /\ LET p == Owner[c] IN
     /\ regions[RegionOf(pos[p])][p] < 2
     /\ inWorld' = inWorld \union {p}
     /\ regions' = AddToRegion(regions, RegionOf(pos[p]), p)
     /\ known' = [known EXCEPT ![p] = {}] /\ seen' = [seen EXCEPT ![p] = {}]
     /\ moving' = [moving EXCEPT ![p] = None] /\ tele' = tele \ {p} /\ fresh' = fresh \ {p}
  /\ UNCHANGED <<conn, queue, pos, npcs, driven, center, active>>

\* RequestGotoLobby: removed without a word to the game loop.
GotoLobby(c) ==
  /\ At(c, "authed") /\ Remove(Owner[c])
  /\ UNCHANGED <<conn, queue, pos, npcs, driven, center, active>>

EnterWorld(c) ==
  /\ At(c, "authed")
  /\ Go(c, IF Owner[c] \in inWorld THEN "enter" ELSE "ingame")
  /\ UNCHANGED <<queue, registry, seen, motion, loop, fresh>>

\* A goroutine whose session was detached meanwhile reads no other packet.
Resume(c) == IF conn[c].live THEN "ingame" ELSE "kicked"

\* The packets of the entry have gone out: NPCs around, then the notice to the loop.
Entered(c) ==
  /\ At(c, "enter")
  /\ LET p == Owner[c] IN
     /\ seen' = [seen EXCEPT ![p] = @ \union NPCsInRange(pos[p], Watch)]
     /\ Send("entered", p, pos[p])
  /\ Go(c, Resume(c))
  /\ UNCHANGED <<registry, motion, loop, fresh>>

Playing(c) == At(c, "ingame") /\ Owner[c] \in inWorld

\* MoveBackwardToLocation: the client's origin is taken as it is ...
MoveBackward(c, origin, dest) ==
  /\ Playing(c) /\ Moves(Owner[c], origin) /\ GoWith(c, "move", dest)
  /\ UNCHANGED <<queue, inWorld, npcs, seen, motion, loop>>

\* ... StartMovement ends a movement under way and begins one that is not too
\* far and not to the spot; one that is too far is answered with a correction ...
UpdateMovementState(p, dest) == moving' = [moving EXCEPT ![p] = dest]
StartMovement(c) ==
  /\ At(c, "move")
  /\ LET p == Owner[c]  far == Dist(pos[p], conn[c].at) > MaxStep  IN
     /\ UpdateMovementState(p, IF p \notin inWorld \/ far \/ conn[c].at = pos[p]
                                THEN None ELSE conn[c].at)
     /\ Go(c, IF p \notin inWorld \/ far THEN Resume(c) ELSE "tell")
  /\ UNCHANGED <<queue, registry, seen, driven, tele, loop, fresh>>

\* ... and the loop is told.
TellMove(c) ==
  /\ At(c, "tell") /\ Send("moveTo", Owner[c], None) /\ Go(c, Resume(c))
  /\ UNCHANGED <<registry, seen, motion, loop, fresh>>

\* ValidatePosition: the position of a player who stands still is corrected when
\* it is off, otherwise taken over; a moving player's is left to the loop.
ValidatePosition(c, x) ==
  /\ Playing(c)
  /\ LET p == Owner[c] IN
     IF moving[p] = None /\ Dist(pos[p], x) > Deviation THEN UNCHANGED <<conn, pos, regions, fresh>>
     ELSE /\ GoWith(c, "sync", x)
          /\ IF moving[p] = None THEN Moves(p, x) ELSE UNCHANGED <<pos, regions, fresh>>
  /\ UNCHANGED <<queue, inWorld, npcs, seen, motion, loop>>

\* The loop is told, then the NPCs shown to the client are brought up to date.
SyncPosition(c) ==
  /\ At(c, "sync")
  /\ LET p == Owner[c]  x == conn[c].at IN
     /\ Send("moved", p, x)
     /\ seen' = [seen EXCEPT ![p] =
          (@ \intersect NPCsInRange(x, Forget)) \union NPCsInRange(x, Watch)]
  /\ Go(c, Resume(c))
  /\ UNCHANGED <<registry, motion, loop, fresh>>

\* CannotMoveAnymore; the loop is not told.
CannotMoveAnymore(c, x) ==
  /\ Playing(c)
  /\ moving' = [moving EXCEPT ![Owner[c]] = None]
  /\ Moves(Owner[c], x)
  /\ UNCHANGED <<conn, queue, inWorld, npcs, seen, driven, tele, loop>>

\* Appearing, after a teleport.
Appearing(c) ==
  /\ Playing(c) /\ Owner[c] \in tele
  /\ LET p == Owner[c] IN
     /\ tele' = tele \ {p}
     /\ seen' = [seen EXCEPT ![p] = NPCsInRange(pos[p], Watch)]
     /\ Send("entered", p, pos[p])
  /\ UNCHANGED <<conn, registry, moving, driven, loop, fresh>>

\* Logout, restart, or the connection is lost; the notice goes first.
Leave(c, next) ==
  /\ conn[c].pc \in {"authed", "ingame"}
  /\ IF Owner[c] \in inWorld THEN Send("left", Owner[c], None) /\ Go(c, next)
     ELSE UNCHANGED queue /\ conn' = [conn EXCEPT ![c].pc = IF next = "leave" THEN "gone" ELSE "authed",
                                                  ![c].live = @ /\ next # "leave"]
  /\ UNCHANGED <<registry, seen, motion, loop, fresh>>

Logout(c)  == Leave(c, "leave")
Restart(c) == Leave(c, "restart")

\* A restart in combat is refused after the notice has gone.
RestartRefused(c) ==
  /\ Playing(c) /\ Send("left", Owner[c], None)
  /\ UNCHANGED <<conn, registry, seen, motion, loop, fresh>>

Left(c) ==
  /\ conn[c].pc \in {"leave", "restart"}
  /\ Remove(Owner[c])
  /\ conn' = [conn EXCEPT ![c].pc = IF ~conn[c].live THEN "kicked" ELSE IF At(c, "leave") THEN "gone" ELSE "authed",
                          ![c].live = @ /\ ~At(c, "leave")]
  /\ UNCHANGED <<queue, pos, npcs, driven, center, active>>

-----------------------------------------------------------------------------
(* The game loop. *)

\* updatePlayerRegions and leavePlayerRegions: from one block to another.
Shift(from, to) ==
  [r \in Cells |->
     LET less == IF from # None /\ r \in Block(from) /\ active[r] > 0 THEN active[r] - 1 ELSE active[r]
     IN  IF to # None /\ r \in Block(to) THEN less + 1 ELSE less]

\* Mutant: a player who crosses into another region does not leave the old block.
TrackArrival(p, r) ==
  /\ center' = [center EXCEPT ![p] = r]
  /\ active' = IF center[p] = r THEN active ELSE Shift(IF r = None THEN center[p] ELSE None, r)

Track(p, r) ==
  /\ center' = [center EXCEPT ![p] = r]
  /\ active' = IF center[p] = r THEN active ELSE Shift(center[p], r)

\* Mutant: only the mover is shown the others.
ReconciledOneWay(p, at) ==
  LET keep == PlayersInRange(at, at[p], Forget) \ {p}
      near == PlayersInRange(at, at[p], Watch) \ {p}
      lost == known[p] \ keep
  IN  [q \in Chars |->
        IF q = p THEN (known[p] \union near) \intersect keep
        ELSE IF q \in lost /\ q \in inWorld THEN known[q] \ {p} ELSE known[q]]

\* reconcilePlayerVisibility, for the positions at.
Reconciled(p, at) ==
  LET keep == PlayersInRange(at, at[p], Forget) \ {p}
      near == PlayersInRange(at, at[p], Watch) \ {p}
      lost == (known[p] \union near) \ keep
  IN  [q \in Chars |->
        IF q = p THEN (known[p] \union near) \intersect keep
        ELSE IF q \in near THEN known[q] \union {p}
        ELSE IF q \in lost /\ q \in inWorld THEN known[q] \ {p} ELSE known[q]]
Reconcile(p, at) ==
  IF p \in inWorld THEN known' = Reconciled(p, at) /\ fresh' = fresh \union {p}
  ELSE UNCHANGED <<known, fresh>>

Takes(k) == queue # <<>> /\ Head(queue).kind = k /\ queue' = Tail(queue)

HandleEntered ==
  /\ Takes("entered")
  /\ Track(Head(queue).who, RegionOf(Head(queue).at))
  /\ Reconcile(Head(queue).who, pos)
  /\ UNCHANGED <<conn, registry, seen, motion>>

\* The reported position is taken unless the loop moves the player itself.
HandleMoved ==
  /\ Takes("moved")
  /\ LET p == Head(queue).who  x == Head(queue).at
         at == IF p \in driven THEN pos ELSE [pos EXCEPT ![p] = x]
     IN  /\ Track(p, RegionOf(x))
         /\ IF p \in driven THEN UNCHANGED <<pos, regions>> ELSE Put(p, x)
         /\ Reconcile(p, at)
  /\ UNCHANGED <<conn, inWorld, npcs, seen, motion>>

HandleMoveTo ==
  /\ Takes("moveTo")
  /\ driven' = driven \ {Head(queue).who}
  /\ UNCHANGED <<conn, registry, seen, moving, tele, loop, fresh>>

\* Mutant: the block of a leaving player is not released.
HandleLeftKeepsBlock ==
  /\ Takes("left")
  /\ LET p == Head(queue).who IN
     /\ known' = [q \in Chars |-> IF q \in inWorld \ {p} THEN known[q] \ {p} ELSE known[q]]
     /\ fresh' = fresh \ {p}
     /\ driven' \in {driven, driven \ {p}}
  /\ UNCHANGED <<conn, registry, seen, moving, tele, center, active>>

\* despawnPlayerFromAll and leavePlayerRegions; an attack ends, an approach to
\* talk or cast does not.
HandleLeft ==
  /\ Takes("left")
  /\ LET p == Head(queue).who IN
     /\ known' = [q \in Chars |-> IF q \in inWorld \ {p} THEN known[q] \ {p} ELSE known[q]]
     /\ Track(p, None)
     /\ fresh' = fresh \ {p}
     /\ driven' \in {driven, driven \ {p}}
  /\ UNCHANGED <<conn, registry, seen, moving, tele>>

\* An attack, cast or interaction out of reach: the loop moves the player.
Approach(p, x) ==
  /\ p \in inWorld /\ x # pos[p]
  /\ driven' = driven \union {p}
  /\ moving' = [moving EXCEPT ![p] = x]
  /\ UNCHANGED <<conn, queue, registry, seen, tele, loop, fresh>>

Between(x, y) == {w \in Where : Dist(x, w) + Dist(w, y) = Dist(x, y)}

AdvancePlayer(p) ==
  /\ p \in inWorld \intersect driven /\ moving[p] # None
  /\ \E x \in Between(pos[p], moving[p]) :
       /\ Put(p, x) /\ Reconcile(p, [pos EXCEPT ![p] = x])
       /\ moving' = IF x = moving[p] THEN [moving EXCEPT ![p] = None] ELSE moving
  /\ UNCHANGED <<conn, queue, inWorld, npcs, seen, driven, tele, center, active>>

\* Those in range of the old position forget the player, who forgets everybody.
TeleportPlayer(p, x) ==
  /\ p \in inWorld
  /\ known' = [q \in Chars |-> IF q = p THEN {}
                 ELSE IF q \in PlayersInRange(pos, pos[p], Forget) THEN known[q] \ {p} ELSE known[q]]
  /\ moving' = [moving EXCEPT ![p] = None] /\ tele' = tele \union {p}
  /\ driven' \in {driven, driven \ {p}}
  /\ Put(p, x) /\ fresh' = fresh \ {p}
  /\ UNCHANGED <<conn, queue, inWorld, npcs, seen, center, active>>

\* CorpseDecayEvent and RespawnEvent; the respawned NPC has a new id, which the
\* client is shown with the next position it reports.
Decay(n) ==
  /\ n \in npcs
  /\ npcs' = npcs \ {n}
  /\ regions' = RemoveFromRegion(regions, RegionOf(NpcAt[n]), n)
  /\ seen' = [p \in Chars |-> seen[p] \ {n}]
  /\ UNCHANGED <<conn, queue, inWorld, pos, motion, loop, fresh>>

Respawn(n) ==
  /\ n \notin npcs
  /\ npcs' = npcs \union {n}
  /\ regions' = AddToRegion(regions, RegionOf(NpcAt[n]), n)
  /\ UNCHANGED <<conn, queue, inWorld, pos, seen, motion, loop, fresh>>

Session(c) ==
  \/ Login(c) \/ CharacterSelect(c) \/ EnterWorld(c) \/ Entered(c) \/ Logout(c) \/ Restart(c) \/ Left(c)
Motion(c) ==
  \/ \E x, y \in Where : MoveBackward(c, x, y)
  \/ StartMovement(c) \/ TellMove(c)
  \/ \E x \in Where : ValidatePosition(c, x) \/ CannotMoveAnymore(c, x)
  \/ SyncPosition(c) \/ Appearing(c)
Loop ==
  \/ HandleEntered \/ HandleMoved \/ HandleMoveTo \/ HandleLeft
  \/ \E p \in Chars : AdvancePlayer(p) \/ \E x \in Where : Approach(p, x) \/ TeleportPlayer(p, x)
  \/ \E n \in NpcIds : Decay(n) \/ Respawn(n)

\* What leaves a session other than the client asked for.
Disturb(c) ==
  /\ KickExistingSession(c) \/ KickRemove(c) \/ RestartRefused(c)
  /\ disturbed' = disturbed \union {Owner[c]}

WorldNext ==
  \/ \E c \in Conns : (Session(c) \/ Motion(c) \/ GotoLobby(c)) /\ UNCHANGED disturbed
  \/ \E c \in Conns : Disturb(c)
  \/ Loop /\ UNCHANGED disturbed

WorldSpec == WorldInit /\ [][WorldNext]_presenceVars

-----------------------------------------------------------------------------
(* Properties. *)

\* The region lists lose nobody: a query over the regions near a place finds
\* exactly the players and NPCs in range, wherever they came from
\* (registry/world.go: AddPlayer, UpdatePlayerPosition, getNearbyRegions).
QueriesExact ==
  \A x \in Places, radius \in {0, Watch, Forget} :
    /\ PlayersInRange(pos, x, radius) = {p \in inWorld : Dist(pos[p], x) <= radius}
    /\ NPCsInRange(x, radius) = {n \in npcs : Dist(NpcAt[n], x) <= radius}

\* PlayerCount is a reference count: as many as there are players whose block
\* covers the region, whatever they did since (gameloop/regions.go).
BlocksCounted ==
  \A r \in Cells : active[r] = Cardinality({p \in Chars : center[p] # None /\ r \in Block(center[p])})

\* Two players the loop has compared with their surroundings and who have not
\* moved since know each other when they are in sight, in both directions
\* (gameloop/visibility.go).
FreshNeighboursSee ==
  \A p, q \in fresh : p # q /\ Dist(pos[p], pos[q]) <= Watch => p \in known[q] /\ q \in known[p]

Pending(k, p) == \E i \in 1..Len(queue) : queue[i].kind = k /\ queue[i].who = p

\* The regions account for the players: every variable has its type, and PlayerCount
\* counts the blocks that cover a region.
RegionsCounted == WorldTypeOK /\ BlocksCounted

\* Once the notice that a player left is handled, no region is kept active for
\* it (gameloop/regions.go: PlayerCount returns to 0 once players leave).
RegionsReleased ==
  \A p \in Chars \ (inWorld \union disturbed) : center[p] = None \/ Pending("left", p)

\* A player in the game is tracked, unless the loop is still to hear of the entry.
InGameTracked ==
  \A c \in Conns : Playing(c) /\ Owner[c] \notin disturbed =>
    center[Owner[c]] # None \/ Pending("entered", Owner[c])

\* Nothing keeps a region active that no player is near, and no player in the
\* game is without: not for players a second login took over from, nor for those
\* whose restart was refused (gameloop/regions.go).
RegionsSound == RegionsReleased /\ InGameTracked
=============================================================================
