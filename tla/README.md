# l2go in TLA+

l2go is a Lineage 2 (High Five) server in Go: a login server and a game server
that talk to each other over TCP, each with PostgreSQL behind it. This directory
holds TLA+ models of its concurrent and time-driven parts, the TLC
configurations that check them on small instances, and TLAPS proofs of the
properties that must hold for any number of players, NPCs and any delays.

Every definition is translated from the Go source; `PROJECT.json` names, for
each one, the file and the lines it stands for (`map`), and lists the runs, the
mutated definitions that each property rejects, the hazards and the findings.

## The system

Paths are under `src/internal/`. "Loop" is the one goroutine of
`gameserver/gameloop`; "connection" is the goroutine each client has.

| Component | State | Interacts with | Module |
|---|---|---|---|
| Combat loop (`gameloop/{gameloop,events,npc_combat,pvp,cast,regen}.go`) | `combatState`, `npcCombatState`, `npcHateLists`, `npcSpawnInfo`, the event heap; HP and `InCombat` | commands from connections over one channel of 1024; the world registry | `Combat` |
| Intentions and approach (`gameloop/{intention,movement_interp}.go`) | `aiState`, `castPending`, `interactPending` | loop only | `Effects` (cast), `World` (movement), `Combat` (attack) |
| Casting, buffs, PvP flags (`gameloop/{cast,buff,pvp,restore}.go`, `models/{buff,session}.go`) | `CastState`, reuse times, `EffectList`, `buffedPlayers`, `flaggedPlayers`, stat modifiers | item handlers cast through the command channel; connections rebuild stats for gear | `Effects` |
| Regions and visibility (`gameloop/{regions,visibility}.go`) | `activeRegions`, `playerRegionCenter`, every `KnownPlayers` | world registry for positions | `World` |
| Movement (`handlers/client/{world,movement}.go`) | position, destination, teleporting flag | registry and command channel | `World` |
| World registry (`registry/{world,targetindex}.go`) | players and NPCs by id, region lists, target index | every connection and the loop; each map under a lock of its own | `World`, `TargetIndex` |
| EXP, levels, skills (`gameloop/{experience,skilllearn,persist}.go`, `registry/skilltree.go`) | `Character` and its rows, the channels of saver and learner (256) | loop, connections, saver, learner | `Growth` |
| Characters (`usecase/character.go`, `handlers/client/character.go`) | the characters table and the rows that hang on it | connections of any account | `Characters` |
| Client sessions and shutdown (`handlers/client/{handler,auth,world,logout}.go`, `usecase/logout.go`, `service.go`) | `sessions`, `connections`, the state of each connection, the save channel | registry, database, loop | `Sessions`, `Saving` |
| Items, shots, enchanting (`usecase/{inventory,soulshots,enchant,...}.go`, `registry/{chargedshots,autoshots,enchantstate,itemreuse}.go`) | item rows, charges, the armed scroll, reuse times | connection and recharge goroutine on the same rows | `Items` |
| Client transport (`transport/client/conn.go`) | send queue of 1024, cipher, closed flag | everyone sends | `ClientConn` |
| Login link (`gameserver/service.go`, `transport/loginserver.go`, `handlers/loginserver`) | connected, authenticated, reconnecting, two keys | login server | `LoginLink` |
| Login server (`loginserver/{usecase,registry,handlers}`) | session key and client of each account, servers, character counts | clients, game servers | `LoginServer` |

### What is hard here

* **Events outlive what they are about.** Every swing, hit, timeout and approach
  is put on a heap and looked at 50 ms to 60 s later, when what it is about may
  have been cancelled, replaced, killed, or have left and come back. Nothing is
  ever taken off the heap; each event has to recognise that it is stale.
* **The loop and the connections share the world.** A player leaves in two
  steps, a command to the loop and a call of the registry, and the loop may run
  before, between and after them. A restart sends the command before it is
  known whether the restart is allowed.
* **Read, wait, write.** Logout, kick, autosave, character creation and the item
  handlers read a row or an object and write it back later, without a
  transaction around the two.
* **Two connections for one account**, two requests for one session key, and two
  services that each believe the other is connected.
* **Bounded channels**: commands block the sender, snapshots and recharges are
  dropped when full, a full send queue closes the connection.

### What makes each component correct

* Combat: an attacker always has a swing pending; a stopped one is eventually
  sheathed, and not while it fights; nobody fights a corpse; each spawn has
  exactly one NPC or one respawn.
* Effects: a cast hits once, is paid for and respects its reuse; every effect
  and flag is visited by the sweep that ends it; modifiers cover what is worn and
  what is active.
* World: range queries find everyone in range; the reference count of a region
  is the number of blocks that cover it; neighbours know each other both ways;
  `targeters` is the inverse of `current`.
* Sessions: the registered connection is served; a kick completes; nothing
  earned before an orderly end is lost.
* Characters and growth: slots and names are unique and limited; no row hangs on
  a deleted character; levels fit EXP; a learned skill was paid for.
* Items: slots are exclusive; shots are conserved; an enchant attempt costs a
  scroll; the client is told what changed.
* Transport and link: what is written is a prefix of what was sent, in order and
  under the key the other side expects; the link is restored.
* Login server: an account keeps one client; a key admits once.

`PROJECT.json` lists the hazards one by one, at their lines, with the properties
that catch them; a note says where a property leaves a case out because the
code gets it wrong (see Known deviations).

## How the project is laid out

One module per component, `MC...` modules that cut a run into scenarios, and
`...Proofs` modules (`SumProofs`: sums over finite sets, for the others to cite). `TargetTable` and `FifoChannel` are abstract specifications;
`TargetIndex` and `ClientConn` are shown to implement them. Modules compose
in the `MC` modules where components are checked over one state or side by side:
`MCWorld` holds the registry and its target index, `MCCareers` characters and
their progress, `MCTransports` the two transports.

A *scenario* is a variable chosen at the start and never changed. It keeps apart
behaviours that would multiply without interacting, so that each gets bounds
large enough for its hazards. Most properties hold in every scenario; one that
is about a single scenario names it.

Runs check conjunctions of named parts, given with each module below; TLC evaluates
each part in every state.

| Run | Module, config | Asks |
|---|---|---|
| `combat_pve` | `MCPvE`, `CombatPvE.cfg` | stances, spawn population, and their liveness |
| `combat_pairs` | `MCCombat`, `CombatPairs.cfg` | attack chains between two players and around an NPC |
| `combat_swing_chains` | `Combat`, `CombatOneSwingChain.cfg` | a disagreement, see Findings |
| `sessions` | `MCSessions`, `SessionsLive.cfg` | logins, kicks and cleanups, and their liveness |
| `sessions_saved` | `MCSaved`, `SessionsSaved.cfg` | is progress saved by an orderly leave and by the shutdown |
| `sessions_vanish` | `MCSessions`, `SessionsVanish.cfg` | a disagreement, see Findings |
| `world` | `MCWorld`, `World.cfg` | queries, regions, visibility, target index |
| `effects` | `MCEffects`, `Effects.cfg` | casts, buffs, flags, stats |
| `items` | `MCItems`, `Items.cfg` | equipment, shots, boxes, recipes, enchanting |
| `careers` | `MCCareers`, `Careers.cfg` | rosters, rewards, levels, learned skills |
| `transports` | `MCTransports`, `Transports.cfg` | login link and client connection, and their liveness |
| `login_server` | `MCLoginServer`, `LoginServer.cfg` | clients, session keys, counts |

## Combat

`Combat.tla` models the loop's combat core, with the part of the connection
goroutines that puts players into the world and takes them out.

| Variable | Code |
|---|---|
| `presence`, `departed` | membership in `WorldRegistry.players` and how far the leaving connection has got; `CmdPlayerDisconnected` in the channel |
| `hp`, `inCombat`, `npcHp` | `CurrentHP`, `InCombat` |
| `fighters`, `aim`, `age` | keys of `combatState`, its target while `IsAutoAttacking`, the time since `LastAttackTime` |
| `npcs`, `hate`, `npcAim`, `spawnInfo` | NPC instances, hate lists, `npcCombatState`, keys of `npcSpawnInfo` |
| `queue` | the event heap as a bag; an event counts down the ticks it has left |

Each command handler and each `Execute` method is one action: the loop is one
goroutine and does not yield inside a handler. The steps of a connection
goroutine (`EnterWorld`, `SendDisconnected`, `RemovePlayer`, `RestartRefused`)
interleave with them at will, since they go through the registry's lock. Events
of different instants execute in order of time; those due at the same tick in
any order, as the heap does not order equal times.

Abstractions: positions, accuracy and damage rolls are nondeterministic (a swing
is out of reach or not, lands or not, does 1 to `MaxHp`), and so are the
intentions, which only decide whether a swing is out of reach; EXP, the PvP flag
and the gate that refuses some attacks on players are left out, and every NPC may
be attacked. `Regen` heals one point. Real object ids are never used twice;
`Forgotten` lets the model reuse one that nothing refers to any more.
`CastOnNpc` may repeat the damage, since `applySkillEffects` deals each damage
effect of a skill whether or not an earlier one killed.

Runs. `combat_pve`: one player, two NPC ids, one spawn; chains, stances and the
population through kills, respawns, deaths, logout and refused restart. `MCPvE`
drops `CastOnPlayer`, which needs a second player. `combat_pairs`: two
interchangeable players; in "duel" they fight each other, leave and come back, in
"raid" they stay and fight an NPC that turns to the most hated of them while its
swing is pending.

Bounds: delays are scaled to a few ticks. In `combat_pve` a stance (3) outlasts
a swing (2) so that a timeout can come early, in time and late; in
`combat_pairs`, whose properties do not speak of stances, it is 1. `MaxHp` is 2 so a hit
may kill or not, and 3 in `combat_pairs`, where both players must hurt the NPC
and leave it alive for it to turn (they start that scenario with one HP). A client acts only while it owns fewer than
`MaxPending` events: 3 (`combat_swing_chains`) lets it act with a stale swing, a
fresh one and a stance timeout pending, 2 with one of each, 1 when idle, where
the events of the opponent and of the NPC interleave. `CancelAttack` can never
fire under 1 and is not listed in `MCCombat`; `AbandonAttack` has its effect.

Fairness (`combat_pve`): `WF(Tick)` and `WF(ExecuteEvents)`, because `Run`
selects on a ticker and every tick drains the due events. Clients owe nothing.
That a tick happens at all between commands is an assumption: `tick` drains the
command channel first.

`CombatProofs` proves, for all sets of players and NPCs and all positive delays:

* `TypeCorrect`: `TypeOK` is inductive. That the queue is a bag of events is the
  hard part: `Scheduling`, `Executing` and `Ticking` say what adding, removing
  and ageing events do to a bag.
* `AttacksStayAlive`: every attacker has its swing pending. Inductive with
  `TypeOK`; the lemmas `...Calms` collect the actions that leave attackers and
  their events alone or stop them.
* `SheathsAreScheduled`: a stopped attacker's timeout fires no earlier than
  `StanceTimeout` after its last swing. The sum "ticks left + age" is what a tick
  preserves.

* `CorpsesAreLeftAlone`, `NpcsStayAlive`, `PopulationStays`: the NPC side. None is
  inductive alone: a skill's second damage effect may find the NPC dead and queue
  a second decay (`CastOnNpc`), which must not take away what respawned.
  `MobInv` adds `DecaysDead` (the subject of a pending decay is not alive), and
  the four hold together. `Bystanding` disposes of the steps that touch no NPC and
  no event of one; a hit, a swing, a decay and a respawn have a lemma each.
* `StancesHold`: a step ends a stance only by the player's death or by a timeout
  that finds the last swing long enough ago. `EnterWorld` would end one too, so
  `OutIsCalm` (who is out of the world is not in combat) is kept along.

Not proved: `StoppedIsSheathed` and `DeadNpcRespawns` are liveness.
`PopulationSound` is `TypeOK` with `PopulationConserved` (each spawn entry belongs
to a live NPC, or has a decay or a respawn pending).

## World

`World.tla` models who is where and who sees whom: the registry's players, NPCs
and region lists, the loop's active regions and `KnownPlayers`, and the packets
that move a player.

| Variable | Code |
|---|---|
| `conn` | per connection: the step of its handler and the position it carries |
| `queue` | `gl.commands`, as far as presence goes |
| `inWorld`, `pos`, `regions`, `npcs` | `WorldRegistry`: players, positions, the id lists of the regions, NPCs |
| `known`, `seen` | `KnownPlayers`, `KnownNPCs` |
| `moving`, `driven`, `tele` | `MoveDestination` while `IsMoving`, an intention that moves the player, `IsTeleporting` |
| `center`, `active` | `playerRegionCenter`, `PlayerCount` of `activeRegions` |
| `fresh` | history: who has not moved since the loop last compared it with its surroundings |
| `disturbed` | history: whom a second login took over from, and whose restart was refused |

A handler is cut where it lets go of the registry's lock or sends a command: a
reported position is stored, then the loop is told; a login that takes over
first removes the old player, then disconnects it. Positions lie on a line; the
division that finds a region truncates towards zero as Go's does, so the region
around 0 is twice as wide, and `Where` has a position on both sides of it.

* `QueriesExact`: a range query finds exactly the players in range.
* `RegionsCounted` is `WorldTypeOK` and `BlocksCounted` (`PlayerCount` is the number
  of players whose block covers the region).
* `RegionsSound`: `RegionsReleased` (who left keeps no region active, or the
  disconnect is under way) and `InGameTracked` (who plays has a center, or the
  entry is under way), for players that are not `disturbed`.
* `FreshNeighboursSee`: two players who have not moved since the loop compared
  them and are near each other know each other, both ways.

Scenarios: "walk" (two players report positions, come and go), "run" (server-driven
movement, requests and teleports), "take" (take-over and refused restart), "npcs"
(an NPC that dies and respawns), "targets" (`TargetIndex` below). Bounds: two
players, three positions that are in sight, only remembered, and out of range of
each other; two commands under way, so that a move can be overtaken by a
disconnect. The loop compares a player with its surroundings in one step; a
position that changes meanwhile counts as changed after it.

`WorldProofs` proves `QueriesExact`, `RegionsCounted`, `RegionsSound` and
`FreshNeighboursSee` for any players, connections, NPCs and positions, any region size and any radius.
The scenarios only take steps away, so the theorems cover each of them.

* `QueriesAreExact` rests on arithmetic: `RegionOf` is monotone, also across 0, where
  the truncating division puts two cells into one region (`DivMonotonic`,
  `RegionMonotonic`), so whoever lies within the radius lies in a region between
  those of the two ends (`NearbyCovers`). The state's part is `ListsHold`: who is in
  the world is on the list of its position's region.
* `RegionsAreCounted`: a player that moves from one block to another changes the
  count of a region by what it changes in the set of those who cover it
  (`TrackKeeps`, with the cardinality of that set). That a count never goes below 0
  is a consequence, so the code's clamp is never needed.
* `NeighboursSee`: `fresh` shrinks with every move, so a pair in it was compared
  after both had come to where they are.

* `RegionsStaySound` is about the order of commands in the channel, so its
  invariant (`PresenceInv`) speaks of what the loop will have when it has handled
  them all. `TrackedBy`: an "entered" for the player with no "left" behind it, or a
  center and no "left" at all. `ReleasedBy`: behind every "entered" and "moved" of
  the player, and behind a center, comes a "left". Whoever is in play is the first,
  everybody else the second (`RegionKept`). The connection's part (`Orderly`) is
  that its handler removes the player before it sends "left", and sends nothing
  more after. `AppendNotices` and `TailNotices` say what a send and a
  receive do to the two. Nothing is assumed of those who are `disturbed`; that they
  exist takes nothing from the others.

### Target index

`TargetIndex.tla` models `registry/targetindex.go` and what writes it:
`SetPlayerTarget` from a player's connection (`Select`, `CancelTarget`) and from
the loop (`Teleport`), `RemovePlayer` and `RemoveNPC`.

| Variable | Code |
|---|---|
| `world`, `unborn` | players and NPCs in the registry; NPC ids not handed out yet, since they never return |
| `selected` | `PlayerWorldState.TargetID` |
| `current`, `targeters` | the two maps of `targetIndex` |
| `setting` | the `SetPlayerTarget` calls in progress: before the write under the world's lock, or between it and the write under the index's |
| `removing` | a `RemovePlayer` that holds the world's lock between its two calls of `dropTarget` and `set` |

`TargetTable.tla` is what the index promises: a function from players to
targets, moved at one point or struck out for one object. `ImplementsTable` reads
the table off the reverse map alone, so an entry that lingers there is visible.
Two players are enough for a shared target and for players that aim at each
other; the NPC may be removed with clicks on it under way.

`WorldProofs` also proves `TypeOK`, `IndexInverse` and `ImplementsTable` for any
players and NPCs. The inductive invariant `IndInv` is `TypeOK` with
`IndexInverse`; `SetKeepsIndex` and `DropKeepsIndex` say that each operation of
the index keeps it, `SetIsPoint` and `DropIsStrike` that it is a step of the table.

## Effects

`Effects.tla` models skills in the loop: the life of a cast from the request
through the approach to the hit, abort and reuse; the effects a character carries
and the sweep that ends them; PvP flags; the stat modifiers that the loop rebuilds
for effects and a connection for gear.

| Variable | Code |
|---|---|
| `here`, `body` | `WorldRegistry.players`; `PlayerWorldState` with its character: HP, MP, target, `CastState`, `PvpFlag`, `EffectList`, `StatMods` and the memoized stats |
| `near` | what is within cast range of a player |
| `leaving`, `notices`, `revives` | a restart in progress, `CmdPlayerDisconnected` and `CmdRevive` in the channel |
| `dressing` | what `RebuildStatMods` of a connection has read and not stored |
| `S` | the loop's `buffedPlayers`, `flaggedPlayers`, `castPending`, intentions, cast and approach events, reuse times, stats being computed |
| `clock`, `swept`, `h` | time, whether the sweep has run in this unit of it, history |

A handler of the loop is one step, built from operators on `S`; connections
change targets, gear and presence between steps. In a unit of time the loop runs
every event that is due and one sweep.

* `CastsSound` is `OneCastOneHit` (a cast hits once at most, not early and not after
  it was interrupted), `CooldownRespected` and `AffordsHit` (who casts can pay at
  the hit, so the branch for missing MP is never taken).
* `HeartbeatAlive`: a pending approach has its heartbeat queued.
* `HarmShown` is `HarmAnswered` (an offensive skill that lands on a player was
  provoked or flags the attacker) and `RelationShown` (the name a client sees has
  the color of the flag).
* `EffectsSound` is `EffectsTypeOK`, `BuffsServiced` (no expired effect survives a sweep),
  `EffectsExclusive` (one effect per skill and per abnormal type) and
  `StatsComplete` (modifiers are those of gear and effects).

Scenarios: "casts", "runs" (out of range), "effects", "duel", "gear". Bounds: two
casts let one replace another whose hit is queued; four units of time outlast
cast time, reuse, buff and flag; a caster, another player and a monster.

`EffectsProofs` proves `CastsSound` and `HeartbeatAlive` for any players, monsters,
skills and times. The invariant `Fine` relates the loop's state to the log of
casts: a cast in progress is the last of its caster, has not hit, was not
interrupted and can still be paid (`Linked`); a queued hit is of a logged cast and
comes when its time is over (`Queued`); the loop still knows the cooldown of what
has landed (`Cooled`), which keeps a later cast away (`Spaced`); a pending approach
has its event (`Beats`). A hit that a newer cast overtook is told from the current
one by its id alone: `Linked` and `Queued` together make that enough. The handlers
are compositions of operators on `S`, so most lemmas say that an operator begins
nothing and takes no MP (`Alike`).

It proves `HarmShown` and `EffectsSound` on top of that, by the invariant
`CarriesInv`. `Held` says of each character (`Kept`) that its effects exclude each
other and are those of their templates (`Whole`); that flag and colour go together
and that the loop's lists know who has a flag or an effect, so that the sweep ends
it (`Coloured`, `Lasting`); that its modifiers are those of its gear and effects, or
a connection holds them and is about to store them (`Added`); and, of the log
(`Told`), that harm which landed unprovoked was answered. That alone is not
inductive, since a flag may lapse between the request and the hit: `Vouched` says of
a cast under way that its flag runs to the end of `FlagTime` after its start, and
the assumption `CastsAreShort`, that no offensive skill is cast for as long as that,
closes the gap. The data bears it out: a flag is worn for 120 seconds (`pvp.go:12`)
and the six skills of the datapack with a hit time above that summon, escape or
take a castle, a fort or a ward; a character slowed to almost no casting speed
would break it, and its victim would see the hit of a white name. `Settled` is the
rest: who leaves, notices, what connections hold.

The effects a character carries are a set in the model. The code keeps a list, whose
order only shows in the packet that shows icons: adding and removing go by skill and
by type, and the modifiers are summed.

## Items

`Items.tla` models one character's bag under two goroutines, the connection and
the one that recharges automatic shots, statement by statement, as the code uses
no transactions here. A statement may fail, and the process crash, between steps.

| Variable | Code |
|---|---|
| `rows`, `book` | the `character_items` rows and registered recipes |
| `charged`, `auto`, `arm`, `stamp` | `ChargedShotRegistry`, `AutoShotRegistry`, `EnchantStateRegistry`, `ItemReuseRegistry` |
| `doll` | `Character.PaperdollObjectIDs`, what the loop fights with |
| `shown` | the client's bag as the packets describe it |
| `use` | what each goroutine has read and is about to write |
| `queue` | recharge requests in the channel |
| `clock`, `h` | time, history |

* `EquipmentSound` is `ItemsTypeOK`, `SlotsExclusive` (no slot holds two items and
  nothing is beside a two-handed weapon) and `PaperdollCurrent`.
* `ShotsAccounted`: shots held, charged, or lost by a crash between the two are
  those held at first and given since, in spite of failed statements and swaps of
  weapons, until a use from the bag overlaps a recharge.
* `UsesPaid` is `RecipeNeverLost` (a scroll used up is in the book),
  `AttemptsArePaid` (an enchant attempt costs a scroll, a scroll a window of its
  own, and until the result is written the target is the one that was checked) and
  `ReuseRespected`.
* `ClientSeesBag`: a client is told of every change of every row.

A behaviour starts from one of six bags: "hands" (sword, bow, shield), "dress"
(full armor, leggings, two pieces for the hair slots), "shots", "box" (a box that
gives shots), "goods" (potions of one reuse group, a recipe), "scrolls". Each has
one fault, a failed statement or a crash; the shots bag has no crash, shots and
box no relog, and the hands are left alone with a box. `QueueCap` 1 makes
the recharge channel full; four units of time outlast the reuse delays; three
scrolls allow a success, a failure and an attempt at the highest level.

`ItemsProofs` proves all four for any finite set of items, any templates and starting
rows, and any number of failures and crashes. Assumed of the data (`TemplatesAssumption`, true of the datapack's 1105 items of these handlers):
objects of one item id share a template, and shots, recipes and scrolls have
neither a body part nor a type that can be enchanted. Assumed of the start
(`StartsAssumption`): the rows that earlier sessions left have exclusive slots.
`ItemsInv` has a part per concern, proved one after the other:

* `Typed`: what each goroutine holds at each step (`Holds`). A copy it will write is
  of a row in the bag, so no write of a stale copy puts anything on.
* `Slotted`: slots are exclusive now, and will be once the slots still to be emptied
  are empty and the item is on (`Dressed`), wherever the sequence stops. A
  two-handed weapon and a shield are what makes this more than one slot.
* `Drawn`: `PaperdollCurrent` in every step but those between the first write of a
  row's slot and `Show`; nobody is drawn with an unborn item; the outcome of an
  enchant has the slot of its target.
* `Registered`, `Paying`, `Waiting`: the recipe is in the book before its scroll is
  consumed; an open window is worth one attempt; a stamp is no earlier than the
  last use and its delay, and a use that will be stamped is of an item whose group
  is ready.
* `Seen`: a row is what the connection is about to tell, else what the recharge is
  about to tell, else what the client was told (`Known`). Inductive only while what
  the connection does beside a recharge does not touch shots (`Apart`), which
  `h.late` stands for, and while each copy is still the row (`Current`).

* `Balanced`: the sum of `ShotsAccounted`, which two goroutines keep between reading
  a count and writing it. Both write whole rows, so the sum says nothing of the next
  step alone: the copy to be written must still be the row and be enough for the
  weapon (`Exact`; for a box, the stack its product goes onto), which needs that
  while a recharge is under way the connection touches no shots (`Shotless`), until
  the history says it did (`h.mixed`). A write moves the sum by what one stack
  changes (`ShotsMoved`, from `SumProofs`); shots paid and not yet charged are
  `InFlight`, and a crash loses exactly those.

## Characters and growth

`Characters.tla` models the characters of the accounts, one query or transaction
per step: creation (count, free slot, insert), deletion (find, purge or mark),
selection, entry and lobby, with connections of one account that overlap since a
kicked one still ends its handler.

| Variable | Code |
|---|---|
| `table`, `owned`, `lastId` | `characters`, the rows of other tables that belong to one, the id sequence |
| `inWorld` | the copy in the registry, which `Update` writes back whole |
| `job`, `entered`, `kicked` | where each connection's handler is |
| `now`, `verdicts` | days; history of refused and rolled back creations |

`AccountsSound` is `CharactersTypeOK`, `RosterSound` (names and slots unique, at
most `MaxSlots` per account), `NoOrphans` and `RefusedForCause` (the database
refuses a creation only if another came between its checks and its insert).

`Growth.tla` models EXP, SP, levels and skills on their way from a kill or a
trainer to the database.

| Variable | Code |
|---|---|
| `live`, `place` | `Character` with `KnownSkills` in the world; how far entry and exit are |
| `row`, `skills` | columns of `characters`, `character_skills` |
| `saves`, `learned` | `saveCh`, `learnCh` |
| `bounty`, `fresh`, `paying` | the loop inside a reward: the dead monster with its hate list, who is still to be paid, how often it died and how often the skill that killed it will hit it again; whose level is not compared yet; the skill not sent yet |
| `tally` | history: kills, faults, EXP given at this death and at earlier deaths of the same monster, SP earned, class tree entries paid for |

* `ProgressSound` is `GrowthTypeOK`, `LevelFitsExp` (no level without its EXP, in
  memory, in a snapshot or in the table), `PaidInFull` (SP earned is SP held plus
  the price of what was learned; what was learned is known, and what is known was
  granted or paid for) and `RewardShared` (each death pays all attackers together
  at most what the monster is worth).
* `SkillRowsGrow`: the level of a skill row never falls.

`handleNPCDeath` does not ask whether its NPC is dead already, and a skill with
several kinds of damage asks only before the first of them (`cast.go:402`). So `Kill`
says how many damages are left, `DieAgain` deals the next one to the corpse with the
hate list it still has, and every attacker is paid again. `RewardShared` bounds the
sum by the number of deaths; `PaidOnce`, by the monster, is what the code does not
keep (see Known deviations).

The loop and the connection of a player read and write its character without a lock;
a player whose progress was lost or overtaken on the way to the database (a crash, a
failed statement, a save between EXP and level, an entry before the learner had
written) is recorded in `tally.late`, and what is said of the tables is said of the
others.

`CareersProofs` proves `AccountsSound` for any accounts, connections, names and
numbers of slots. The unique indexes of the table make the insert fail rather than
break `Distinct`; the work is in `RefusedForCause`, which needs that what a
creation has checked is still true unless another creation came between
(`HoldsPlace`, where a row that is deleted meanwhile only helps), and in
`NoOrphans`, which needs that a handler writes the slot it read (`HoldsRow`,
`WorldHolds`: no character changes its slot, no id is used twice). Assumed: there is
a name, and at least one slot.

It also proves both properties of `Growth`, for any players, monsters, hate, EXP table, class
tree and capacity of the channels. The invariant has a part for each:

* `LevelsHold`: rows, snapshots and characters have no level above their EXP, and
  exactly the level of their EXP unless a save met the gap between the two. That the
  loop compares one level at a time is part of it.
* `SharesHold`: at each death, what was given, times the whole hate, plus the EXP times
  the hate still to reward is at most the EXP times the whole hate; each share is
  rounded down (`ShareIsPart`) and the penalty only lowers it (`PowsGrow`). What was
  given at earlier deaths is at most the EXP for each (`OnceMore`), since the next
  death waits until everyone is paid.
* `RowsHold`: `learnCh` and the skill the loop is sending are one queue, `Due`. What is
  due for a skill rises from above what the table holds (`RowsRise`), and its
  end is what the player knows (`EndsAt`). `SkillRowsStayGrown` follows.
* `PaidHolds`: `PaidInFull` also in the states between: the skills that count are
  those known in the world or while something is due, those of the table otherwise.
  What is paid grows by the price of the entry (`CostGrows`), once, because an entry
  that was paid for is known and is not sold again; a grant costs nothing and is
  an entry of the tree (`GrantsAreOwned`).

None of this assumes anything of the class tree beyond its type, or of what a client
asks to learn. `handleLearnSkill` does not ask whether a skill is on the list it has
sent: a client that skips a level pays for the level it learns alone, and `PaidInFull`
counts that.

Scenarios: "names" (three connections of two accounts race for names and slots),
"lobby" (two of one account select, enter, age, delete and return), "alone" (one player
and one monster, with crashes and failed statements), "hunt" (two players share
two monsters; one leaves), "spree" (two players share a monster that one skill kills
three times; its caster may leave in between). `ConnSymmetry` exchanges the two connections of one
account, which nothing tells apart. Two slots and two free names make both run
out; a monster is worth eight levels, so a reward crosses several. Rates are 1.
Where a late snapshot or the loss of a message has already taken something away
(`late`), the properties say so.

## Sessions

`Sessions.tla` models the connections of one account, the characters they bring
into the world, and how their progress reaches the database.

| Variable | Code |
|---|---|
| `at` | where the connection's goroutine is; "idle" reads packets, "done" has returned |
| `state` | `ConnState`: connected, authed, ingame |
| `task`, `char`, `copy`, `victim` | locals of the handler at work: who called the logout use case, its character, the progress it has read, the connection it kicks |
| `open` | the socket is open |
| `sessions`, `registered` | `Handler.sessions`, the account's entry in `ConnectionRegistry` |
| `world`, `live`, `inCombat` | the players in the registry, their progress and combat state |
| `row`, `saves`, `final`, `phase` | the characters table, the saver's channel, the shutdown's snapshots, how far the shutdown has got |

A handler is cut into steps where it releases a lock or waits for the database:
`AuthLogin` .. `Register` is `handleAuthLogin` with `kickExistingSession` and
`setSession`; `Validate` .. `RemoveFromWorld` is `PerformLogout` and
`PerformRestart`, entered from a logout, a restart, a kick or a cleanup;
`Leave` .. `Forget` is the deferred `removeSession`. The loop awards EXP and
enqueues snapshots, the saver writes them, the shutdown waits for the loop and
the saver, not for the connections. Of a character only its progress is kept, a
number; all characters belong to one account, as accounts do not interact here.
That handlers block when the loop's command channel is full is not modelled, nor
are errors of the database.

Runs. `sessions`: two connections and a character, no progress and no stop,
fairness; a login may race a cleanup or another login. `sessions_saved` checks
`Saving.tla`, the two settings in which nothing gets lost. In "calm" the clients
come one after the other, each with one character at a time, and log out, restart
or go back to the lobby in order; level-ups, lost sockets, and progress or combat
that begin inside a handler, are left out. In "quiet" everything happens until the
stop, and the clients are silent from then on. `CalmSaves` and `QuietIsSaved`
are `LeavingSaves` and `OnlineIsSaved` under these conditions, and fail without
them; `sessions_vanish` shows one cause. In "quiet" progress is made once. Capacity 1 makes the saver's channel
full; `MaxProgress` 4 lets the row, a snapshot in the channel, the live character
and the handler's copy all differ. Deadlock is not checked: a server whose
clients are all gone has nothing to do.

Fairness (`sessions`): `WF` of each connection's own steps, as the Go scheduler
runs every goroutine and a read on a closed socket returns. No client is obliged
to send anything, and sockets need not close.

`SessionsProofs` proves, for any number of connections and characters and any
channel capacity:

* `TypeCorrect`, with `HasCharacter`: whoever loads, writes or removes a
  character has one. `EnqueuedFits` shows the channel within its capacity.
* `RegisteredHasSession`: `ServiceSound`, which is `TypeOK` with
  `RegisteredIsServed`. The latter is not inductive: a cleanup
  that found its session detached deletes nothing, and a kick that closes its
  victim ends the excuse for a registered connection without a session. The
  invariant `Served` adds that a connection logs in once (`LoginOnce`), that a
  kick has a victim and a login about to register a session (`LoginKeeps`), and
  that neither a victim about to be closed nor a connection that is leaving is
  registered unless somebody kicks it (`Unregistered`). `Unconcerned` and
  `OwnBusiness` dispose of the steps that touch none of this.
* `StopSavesOnline`: `QuietIsSaved`. Once the shutdown saves, the saver's channel is
  empty, so nothing older can overwrite what it writes, and whoever is online has
  its progress in the database or among the snapshots still to write (`Written`).
* `LeavingInOrderSaves`: `CalmSaves`. Each connection is untouched or closed
  (`Settled`), or the one in use (`Using`, which says at each of its steps what
  has been read and written); `Stored` says that at most one character is in the
  world and the others have their progress in the database. A connection in state
  authed has nothing unsaved, which is what lets `CharacterSelect` read the
  database and the lobby remove a character without writing it.

## Transports

### Client connection

`ClientConn.tla` models `transport/client/conn.go`: senders put packets into a
bounded queue, one writer frames, encrypts and writes them in batches, the
connection's goroutine reads and dispatches by state, anyone may close.

| Variable | Code |
|---|---|
| `queue`, `done`, `socket`, `closing` | `sendCh`, the `done` channel, the socket, a `Close` between the two |
| `enable`, `stage` | `EnableCrypt` has run; the position of the outbound cipher |
| `writer`, `batch`, `stream` | the writer goroutine, what it has framed, what it has written |
| `handler`, `state`, `login` | the connection's goroutine, its state, whether a login succeeded |
| `sent` | packets taken into the queue, per sender |

A packet is its sender and number, the cipher its stage: the first `Encrypt` only
enables it, each later one advances it. `FifoDelivery` is refinement of
`FifoChannel`: what is written is what was sent, in order, and a closed channel
loses at most a tail. `ConnSound` is `ConnTypeOK` and `StreamDecodes` (every
packet has the stage the client expects); `ClosedEnds`: a closed connection is
rid of its goroutines and socket. The queue holds three, a batch two, the handler
and one sender send three each, so a batch is cut, the queue overflows and `Close` meets
each stage of a batch. Fairness: `WF` of the writer, of closing, and of the
handler's own steps; a read fails once the socket is closed.

`NetworkProofs` proves `ConnSound` and the refinement `FifoDelivery` for any
senders, any number of packets and any size of queue and batch.

* `ConnectionsAreSound`: what is framed carries the stages 0, 1, 2, ... (`Stages`), so
  all that can go wrong is that a packet is framed before the cipher is enabled
  or another is first. `KeyFirst` follows the oldest packet through queue, batch and
  stream; `KeyStarts` says why it is the key packet: nobody else sends before the
  login, and the handler sends it before it reads on.
* `ConnectionsAreChannels`: the channel's contents are the batch's packets followed by
  the queue. Enqueuing is `Put`, or `Close` when the queue is full; framing a packet
  stutters; a write delivers some of the oldest packets (`EnqueueIsPut`,
  `FrameStutters`, `WriteDelivers`).

### Login link

`LoginLink.tla` models both ends of the connection between game and login server.

| Variable | Code |
|---|---|
| `connected`, `conn`, `made` | `handler.connected`, `handler.conn`, connections made so far |
| `reader`, `gsKey`, `authTimers` | the reader goroutine of each connection, the key it uses, its delayed `AuthRequest` |
| `flags` (`connectedToLS`, `authenticatedLS`, `isReconnecting`) | the flags of `service.go`: plain booleans that several goroutines read and write without a lock; a read or a write is one step |
| `pc`, `attempts` | the start-up dialler and the background reconnectors |
| `up`, `toLS`, `toGS` | the socket and the packets on it |
| `lsConn` (`lsKey`, `lsAuthed`), `listed` | the login server's side |

A packet is its kind and the key it was encrypted with; one decrypted with the
other key fails its checksum and closes the connection. Two comparisons of timers
are assumed: the 100 ms before `AuthRequest` outlast two assignments, and the 30 s
of a reconnector outlast the 100 ms.

* `LinkSound` is `LinkTypeOK`, `OneReader`, `AuthenticatedIsTrue` and
  `ReconnectingIsTrue` (the flags mean what their readers take them for once the
  callbacks have run).
* `ServerDecodes`: the game server never fails to decrypt across the key switch.
* `SettledRecovers`: in the scenario "settled", where a connection breaks only when
  its dialler has set its flags and the key switch is over, a link that is down
  comes up (`LinkRestored`) and is authenticated (`LinkAuthenticated`).

Two connections let a loss meet the making of the next; two reconnectors
are as many as two losses start. Without the liveness properties the link was
also checked with three connections, and with two packets in flight. Fairness:
`WF` of every goroutine's own steps, `SF` of a dial that can succeed, since the
login server is not down for ever.

`NetworkProofs` proves `LinkSound` and `ServerDecodes` for any number of
connections, retries and packets in flight (`LinkInv`):

* `LinkIsSound`: while the link is down at most one goroutine is after it, a reader
  in its callback or a dialler, and while it is up none is (`OneAtWork`); that is why
  two losses never leave two readers, and what `isReconnecting` and
  `authenticatedLS` mean follows from it with `HandlerHolds`.
* `GameServerDecodes`: `InitLS` is alone on its connection before the switch, nothing
  is on it during the switch, and all that comes later is under the dynamic key
  (`KeysMeet`), because `AuthRequest` travels under it and the login server answers
  only then (`Authentic`, `TimersHeld`).

`SettledRecovers` and `ClosedEnds` are liveness and stay with TLC.

## Login server

`LoginServer.tla` models clients, session keys and the registry of game servers.

| Variable | Code |
|---|---|
| `db`, `clients`, `online`, `accounts` | accounts table, per client its goroutine and account, open sockets, `handler.accounts` |
| `keys`, `expired`, `issued` | `sessionKeys`, which are older than five minutes, what was ever issued |
| `registry`, `links`, `counts`, `asked` | registered servers, game server connections with the id they have and, inside `handleAuthRequest`, the id they will have (`next`), cached character counts, requests for them |
| `events` | `SendPacketEvent`s on the bus |
| `uses` | history: how often a connection accepted a key |

* `RegistriesSound` is `LoginTypeOK`, `OneClientPerAccount` (all but the registered
  client of an account are closed or about to be), `GoneIsUnregistered` (a client
  that has gone is not registered for the last account it had) and `CountsOfListed`.
* `AcceptedOncePerLink`, `AcceptsNewest`: a key admits once on a connection and
  only if it is the newest of its account.
* `LoginsDisplacedGoes`: a displaced client is gone in the end.

Scenarios: "logins" (three clients, two accounts: one displaces another that is
itself about to kick a third), "keys" (one client, two game server connections,
two keys). Nothing keeps an authenticated connection from sending `AuthRequest`
again, with another id: in "keys" one connection does, so that there are two servers;
the ids that the client and the other connection name are cut to the first. Fairness: `WF` of the goroutines under way and of the clean-up of a
closed client.

`NetworkProofs` proves the first three for any clients, accounts, servers and
number of keys. Steps fall into those on behalf of a client, on keys and on game
server connections (`ThreeKinds`), each of which writes a part of the state; types
are split accordingly (`Typed`); an authenticated connection bears the id of a
registered server, and one inside `handleAuthRequest` is about to. `OneClientPerAccount` and `GoneIsUnregistered` are
inductive together. `AcceptedOncePerLink` is not: `KeysSound` adds that keys are
issued in order, that the stored key of an account is its newest, and that a key a
connection has accepted is gone from the store unless that connection is still
about to remove it (`AcceptedIsConsumed`); `ForgettingKeys` disposes of every step
that only removes keys.

## Proved and model-checked

| Theorems | State | Assume |
|---|---|---|
| `CombatProofs!TypeCorrect`, `AttacksStayAlive`, `SheathsAreScheduled`, `CorpsesAreLeftAlone`, `NpcsStayAlive`, `PopulationStays`, `StancesHold` | `TypeOK`, `AttackChainAlive`, `SheathScheduled`, `NobodyFightsCorpses`, `NpcChainAlive`, `PopulationSound` and `StanceHeld` of `Combat` | finite sets of players and NPCs, apart; positive delays and HP |
| `WorldProofs!QueriesAreExact`, `RegionsAreCounted`, `RegionsStaySound`, `NeighboursSee` | `QueriesExact`, `RegionsCounted`, `RegionsSound`, `FreshNeighboursSee` of `World` | finitely many characters, none of them an NPC; positive region size; what is in sight is remembered |
| `WorldProofs!IndexTypeCorrect`, `IndexIsInverse`, `IndexImplementsTable` | `TypeOK`, `IndexInverse`, `ImplementsTable` of `TargetIndex` | players and NPCs are apart from `NoTarget` |
| `EffectsProofs!CastsStaySound`, `ApproachesStayAlive`, `HarmStaysShown`, `EffectsStaySound` | `CastsSound`, `HeartbeatAlive`, `HarmShown`, `EffectsSound` of `Effects` | templates of the right type; `Nobody` and `NoSkill` are none; offensive skills are cast in less time than a flag lasts |
| `ItemsProofs!EquipmentStaysSound`, `ShotsStayAccounted`, `UsesArePaid`, `BagIsSeen` | `EquipmentSound`, `ShotsAccounted`, `UsesPaid`, `ClientSeesBag` of `Items` | finitely many items; what the datapack says of shots, recipes and scrolls; a bag with exclusive slots |
| `CareersProofs!AccountsStaySound` | `AccountsSound` of `Characters` | a name and a slot at least |
| `CareersProofs!ProgressStaysSound`, `SkillRowsStayGrown` | `ProgressSound`, `SkillRowsGrow` of `Growth` | finitely many players and tree entries; an EXP table from 0 with a row for every level |
| `SessionsProofs!TypeCorrect`, `RegisteredHasSession` | `TypeOK`, `ServiceSound` of `Sessions` | finitely many characters; `None` is nobody |
| `SessionsProofs!LeavingInOrderSaves`, `StopSavesOnline` | `CalmSaves`, `QuietIsSaved` of `Saving` | the same |
| `NetworkProofs!ConnectionsAreSound`, `ConnectionsAreChannels` | `ConnSound`, `FifoDelivery` of `ClientConn` | positive capacities |
| `NetworkProofs!LinkIsSound`, `GameServerDecodes` | `LinkSound`, `ServerDecodes` of `LoginLink` | positive bounds |
| `NetworkProofs!RegistriesStaySound`, `AcceptedAtMostOnce`, `OnlyNewestAccepted` | `RegistriesSound`, `AcceptedOncePerLink`, `AcceptsNewest` of `LoginServer` | `None` is nobody; `MaxKeys` a natural number |

Every invariant and every action property of the passing runs is stated by a theorem.
Only model-checked is liveness, which needs `ENABLED`: `StoppedIsSheathed`,
`DeadNpcRespawns`, `KickedIsClosed`, `ClosedIsForgotten`, `SettledRecovers`,
`ClosedEnds`, `LoginsDisplacedGoes`.

The provers cannot use an induction rule with an operator for a parameter, but they can
use that a set of numbers has a smallest: `SumProofs` proves so that
`SumFunctionOnSet` of the community modules adds up, whatever the order of the
elements (`SumTakesOut`), and the proofs about rewards, prices and shots rest on it.

## Findings

Two runs expect a violation, each of a statement in the repository:

* `OneSwingChain` (`combat_swing_chains`): cancel and attack again before the first
  swing fires and two chains of swings run side by side.
* `LeavingSaves` (`sessions_vanish`): disconnect and kick remove the player from
  the world before the use case that saves it looks for it there, so the row is
  written back as it was.

## Known deviations

What else the models show the code to do, and the properties leave out. Those
with a name are stated in their module for the code to be checked against once
it is changed; they are not part of a run.

* Combat. `DeadNotInCombat`: the attacker's own HP is never looked at, so a dead
  player can be drawn into combat by its own next swing or a hit in flight.
  `StanceEnds`: a player that is only hit, or fights with skills alone, has no
  combat state and so no timeout.
* Target index. `IndexMatchesScan`: the second write of one `SetPlayerTarget` may
  come after both of another. `NoLingeringTarget`: a target that leaves between
  the handler's check and the write is linked after it was dropped.
* Regions. After a take-over with `EnterWorld` in flight a center may outlive its
  player; a refused restart leaves the player untracked until it moves; a second
  `CharacterSelect` leaves a stale region entry; a leaver may be added to
  `KnownPlayers` again until its owner's next reconcile; after a teleport a
  report of the old place may be taken (`movement.go:229`).
* Casting. `DrainAnswered`: a skill with only an HpDrain effect is not asked for a
  flag (`cast.go:470`). `AllServiced`: a refused restart takes the player off
  `buffedPlayers` and its buffs never end (`logout.go:129`, `gameloop.go:554`).
  `CacheFresh`: memoized stats may miss a change of gear (`registry/world.go:99`).
  A stale approach event clears a newer approach of the same skill; a death
  aborts neither cast nor effects.
* Sessions. `OneSession`: two logins that both read no registered connection both
  stay (`handler.go:288`, against the comment above it). `StopSaves`: a connection
  that leaves because of the stop takes its player, and the progress since the
  last snapshot, away from the shutdown save (`service.go:999`). `NoGhosts`:
  `CharacterSelect` twice puts two characters into the world and leaving removes
  one. A queued level-up snapshot overwrites the row an orderly logout wrote.
* Items. Rings and earrings cannot be worn, as the switch over body parts does
  not know the names in the data (`itemtemplates.go:569`, `inventory.go:480`). A
  use from the bag and a recharge may both write the count of the shots they
  read (`h.mixed`), and their updates reach the client out of order (`h.late`).
  Leggings go on under full armor. An item destroyed by an enchant stays in the
  paperdoll (`itemenchant.go:114`). The armed scroll survives a logout and reuse
  delays do not; charges of destroyed weapons stay; automatic use can be enabled
  for any item owned; an enchant may end one above the scroll's highest level.
* Characters and growth. `PaidOnce`: a skill with two or three kinds of damage may
  kill one monster as often (`cast.go:402-420`, `events.go:427`), and
  `handleNPCDeath`, which does not look at `IsDead`, pays its attackers each time
  (`gameloop.go:641-657`); the hate list goes only when the corpse decays
  (`events.go:502`). `SkillsInOrder`: `GetLearnableSkills` is only a list, and
  learning does not ask it (`skilltree.go:175`, `skilllearn.go:75-107`); a client may
  skip a level and pay for the higher one alone. Nothing calls
  `ProcessScheduledDeletions`, so marked characters stay. A crash between the
  learner's row and the saver's keeps a skill together with its price; a
  snapshot may pair EXP with the level before it; EXP grows past level 85.
* Login link. `LinkRestored` in general: a loss between the dial and the flags it
  sets leaves the link down for good. A `PlayerAuthRequest` in the window of the
  key switch, or before authentication, closes the link.
* Login server. `KeysForKnownServers`: a server a client names is not looked up
  (README of the login server, line 115, and `usecase/client.go:117`). Two game
  servers can both accept one key. A logout notice removes the newer key. A
  client that changes its account leaves the old entry of `accounts`.

## Not modelled

* Packet layouts, ciphers, SQL, static data, metrics, tools and packet stubs: they
  hold no state of their own, or none that changes after start-up. Statements of
  SQL appear as atomic steps that may fail.
* Geometry in three dimensions, speeds and geodata: `World` keeps the order of
  positions and the thresholds.
* Combat formulas, stats of levels and the bonus of shots; area targets and summon
  skills; the interact intention; the vacancy timer of a region, which only flips
  a flag that a gauge reads.
* What `EnterWorld` sends, and the order in which services stop.
* Ground items, which the registry has a type for and nothing creates, and trade,
  shops and warehouses, which the code does not have.

`PROJECT.json` gives each component its status and what is left out of it.
