------------------------------- MODULE Combat -------------------------------
(***************************************************************************)
(* The combat core of the game server's loop (src/internal/gameserver/     *)
(* gameloop): the auto-attack state of players and NPCs, the queue of      *)
(* timed events that drives it, hit points, deaths, corpses and respawns.  *)
(*                                                                         *)
(* One goroutine handles the client commands and executes the due events,  *)
(* so each handler is one action. The connection goroutines put players    *)
(* into the world and take them out (world registry) at any moment between *)
(* two of those steps.                                                     *)
(*                                                                         *)
(* Time is the number of ticks an event has left; positions, accuracy and  *)
(* damage rolls are nondeterministic outcomes.                             *)
(***************************************************************************)
EXTENDS Naturals, FiniteSets, FiniteSetsExt, Bags

CONSTANTS
  Players,        \* character ids
  Npcs,           \* object ids the NPC counter hands out
  Spawned,        \* the NPCs loaded at start-up
  NoOne,          \* target id 0
  MaxHp,          \* full hit points of a player and of an NPC
  Heartbeat,      \* 400 ms re-check of an attacker out of reach
  SwingTime,      \* timeAtkMs, the time between two swings
  HitDelay,       \* timeAtkMs / 2
  StanceTimeout,  \* combatStanceTimeout, 15 s
  DecayDelay,     \* corpseDecayDelay, 7 s
  RespawnDelay,   \* respawnDelay, 60 s
  MaxPending      \* bound: events a player may own when its client acts

Delays == {1, Heartbeat, SwingTime, HitDelay, StanceTimeout, DecayDelay, RespawnDelay}

ASSUME ObjectsAssumption ==
  /\ IsFiniteSet(Players) /\ IsFiniteSet(Npcs)
  /\ Players \cap Npcs = {}
  /\ NoOne \notin Players \cup Npcs
  /\ Spawned \subseteq Npcs

ASSUME TimesAssumption ==
  Delays \subseteq Nat \ {0}

ASSUME BoundsAssumption == MaxHp \in Nat \ {0} /\ MaxPending \in Nat

VARIABLES
  presence,    \* how a player's connection left it: "out" of the world, "in" it, or "leaving"
  departed,    \* the CmdPlayerDisconnected still in the loop's command channel
  hp,          \* Character.CurrentHP, 0 out of the world
  inCombat,    \* PlayerWorldState.InCombat
  fighters,    \* DOMAIN combatState: the players that have a PlayerCombatState
  aim,         \* its TargetObjectID while IsAutoAttacking, else NoOne
  age,         \* time since its LastAttackTime, up to StanceTimeout
  npcs,        \* the NPC of an object id is "alive", a "dead" corpse, or "absent"
  npcHp,       \* NpcInstance.CurrentHP
  hate,        \* npcHateLists: what each player did to each NPC
  npcAim,      \* npcCombatState: the player an attacking NPC swings at, else NoOne
  spawnInfo,   \* DOMAIN npcSpawnInfo
  queue        \* EventQueue: the bag of pending events

players == <<presence, departed, hp, inCombat>>
attacks == <<fighters, aim, age>>
mobs    == <<npcs, npcHp, hate, npcAim, spawnInfo>>
vars    == <<players, attacks, mobs, queue>>

-----------------------------------------------------------------------------
(* Events: who, on whom, and the ticks left until it is due. *)

Objects == Players \cup Npcs

Event ==
  [kind: {"swing", "hit"},       by: Players, on: Objects, in: Nat] \cup
  [kind: {"npcSwing", "npcHit"}, by: Npcs,    on: Players, in: Nat] \cup
  [kind: {"stance"},             by: Players, on: {NoOne}, in: Nat] \cup
  [kind: {"decay", "respawn"},   by: Npcs,    on: {NoOne}, in: Nat]

Swing(p, t, d)    == [kind |-> "swing",    by |-> p, on |-> t,     in |-> d]
Hit(p, t)         == [kind |-> "hit",      by |-> p, on |-> t,     in |-> HitDelay]
NpcSwing(n, p, d) == [kind |-> "npcSwing", by |-> n, on |-> p,     in |-> d]
NpcHit(n, p)      == [kind |-> "npcHit",   by |-> n, on |-> p,     in |-> HitDelay]
StanceEarly(p)    == [kind |-> "stance",   by |-> p, on |-> NoOne, in |-> StanceTimeout - 1]
Stance(p)         == [kind |-> "stance",   by |-> p, on |-> NoOne, in |-> StanceTimeout]
Decay(n)          == [kind |-> "decay",    by |-> n, on |-> NoOne, in |-> DecayDelay]
Respawn(n)        == [kind |-> "respawn",  by |-> n, on |-> NoOne, in |-> RespawnDelay]

ScheduleAll(q, E) == q (+) SetToBag(E)
Schedule(q, e)    == ScheduleAll(q, {e})
Done(e)           == queue (-) SetToBag({e})
Due(e)            == e.in = 0 /\ BagIn(e, queue)
Pending(k, x)     == {e \in BagToSet(queue) : e.kind = k /\ e.by = x}
In(e, d)          == [kind |-> e.kind, by |-> e.by, on |-> e.on, in |-> d]
Later(e)          == In(e, e.in + 1)
Sooner(e)         == In(e, e.in - 1)

InWorld(p) == presence[p] # "out"

CanBeHit(t) == IF t \in Players THEN InWorld(t) /\ hp[t] > 0 ELSE npcs[t] # "absent"
TargetAlive(t) == IF t \in Players THEN InWorld(t) /\ hp[t] > 0 ELSE npcs[t] = "alive"

-----------------------------------------------------------------------------
(* The loop's shared helpers, each over the queue q the caller has so far.
   A definition under "Fault" is a plausible mistake in the one that follows
   it; no action uses it. *)

Reduced(h, d) == IF h > d THEN h - d ELSE 0

(* stopAttacker: every player in S that has a combat state stops swinging and
   is given a stance timeout. *)
StopAttackers(S, q) ==
  /\ aim' = [p \in Players |-> IF p \in S THEN NoOne ELSE aim[p]]
  /\ queue' = ScheduleAll(q, {Stance(p) : p \in S \cap fighters})
  /\ UNCHANGED <<fighters, age>>

AttackersOf(n) == {p \in Players : aim[p] = n}

(* stopAllNPCAttacksOnPlayer: npcCombatState without the entries aimed at p. *)
NpcAimsWithout(p) == [n \in Npcs |-> IF npcAim[n] = p THEN NoOne ELSE npcAim[n]]

(* A blow of d to player v that draws the weapons of S: NPCHitEvent and
   dealDamageToPlayer after their guards, with handlePlayerDeath. *)
StrikePlayer(S, v, d, q) ==
  /\ hp' = [hp EXCEPT ![v] = Reduced(@, d)]
  /\ UNCHANGED <<presence, departed, npcs, npcHp, hate, spawnInfo>>
  /\ LET drawn == [p \in Players |-> inCombat[p] \/ (p \in S /\ InWorld(p))]
     IN \/ /\ hp[v] > d
           /\ inCombat' = drawn
           /\ queue' = q
           /\ UNCHANGED <<attacks, npcAim>>
        \/ /\ hp[v] =< d
           /\ inCombat' = [drawn EXCEPT ![v] = FALSE]
           /\ npcAim' = NpcAimsWithout(v)
           /\ StopAttackers({v}, q)

(* GetTopAttacker walks a map: any of the most hated. *)
MostHated(h) == {p \in Players : \A o \in Players : h[o] =< h[p]}

(* The events handleNPCDeath leaves behind. Fault: no respawn. *)
DecayOnly(n) == {Decay(n)}
DeathEvents(n) == {Decay(n), Respawn(n)}

(* startNPCAttack of a live n on p: the first swing of a chain, unless n is at
   it already. Fault: no swing when n turns from another. *)
ProvokedOnce(n, p, delay, q) ==
  IF npcAim[n] # NoOne THEN q ELSE Schedule(q, NpcSwing(n, p, delay))
Provoked(n, p, delay, q) ==
  IF npcAim[n] = p THEN q ELSE Schedule(q, NpcSwing(n, p, delay))

(* dealDamageToNPC by p, with startNPCAttack and handleNPCDeath. A skill with
   two kinds of damage repeats the death: kills = 2. *)
StrikeNpc(p, n, d, kills, q) ==
  /\ npcHp' = [npcHp EXCEPT ![n] = Reduced(@, d)]
  /\ hate' = [hate EXCEPT ![n][p] = @ + d]
  /\ UNCHANGED <<players, spawnInfo>>
  /\ \E top \in MostHated(hate'[n]), delay \in {1, Heartbeat} :
       LET started == Provoked(n, top, delay, q)
       IN \/ /\ npcHp[n] > d
             /\ npcAim' = [npcAim EXCEPT ![n] = top]
             /\ queue' = started
             /\ UNCHANGED <<npcs, attacks>>
          \/ /\ npcHp[n] =< d
             /\ npcs' = [npcs EXCEPT ![n] = "dead"]
             /\ npcAim' = [npcAim EXCEPT ![n] = NoOne]
             /\ StopAttackers(AttackersOf(n),
                  IF kills = 2
                    THEN ScheduleAll(ScheduleAll(started, DeathEvents(n)), DeathEvents(n))
                    ELSE ScheduleAll(started, DeathEvents(n)))

-----------------------------------------------------------------------------
(* Client commands. A client acts only while it owns few pending events. *)

PendingOf(p) == MapThenSumSet(LAMBDA e : queue[e], {e \in BagToSet(queue) : e.by = p})
MayAct(p)    == PendingOf(p) < MaxPending

AttackRequest(p, t) ==
  /\ MayAct(p)
  /\ InWorld(p) /\ t # p /\ TargetAlive(t)
  /\ aim[p] # t
  /\ fighters' = fighters \cup {p}
  /\ aim' = [aim EXCEPT ![p] = t]
  /\ age' = [age EXCEPT ![p] = 0]
  /\ queue' = Schedule(queue, Swing(p, t, 1))
  /\ UNCHANGED <<players, mobs>>

CancelAttack(p) ==
  /\ MayAct(p)
  /\ p \in fighters
  /\ StopAttackers({p}, queue)
  /\ UNCHANGED <<players, mobs>>

(* A ground move, a dialogue or a cast that needs an approach ends an attack
   in progress. *)
AbandonAttack(p) ==
  /\ aim[p] # NoOne
  /\ StopAttackers({p}, queue)
  /\ UNCHANGED <<players, mobs>>

(* handleRevive: to full HP, dead or not, and teleported, which stops the attack. *)
Revive(p) ==
  /\ MayAct(p)
  /\ InWorld(p)
  /\ hp' = [hp EXCEPT ![p] = MaxHp]
  /\ StopAttackers({p}, queue)
  /\ UNCHANGED <<presence, departed, inCombat, mobs>>

(* The damage of a completed cast, against a player or an NPC. *)
CastOnPlayer(p, v, d) ==
  /\ InWorld(p) /\ hp[p] > 0
  /\ v # p /\ InWorld(v) /\ hp[v] > 0
  /\ StrikePlayer({p, v}, v, d, queue)

CastOnNpc(p, n, d, kinds) ==
  /\ InWorld(p) /\ hp[p] > 0
  /\ npcs[n] = "alive"
  /\ StrikeNpc(p, n, d, kinds, queue)

Regen(p) ==
  /\ InWorld(p) /\ hp[p] \in 1..(MaxHp - 1)
  /\ hp' = [hp EXCEPT ![p] = @ + 1]
  /\ UNCHANGED <<presence, departed, inCombat, attacks, mobs, queue>>

-----------------------------------------------------------------------------
(* Players come and go: the connection goroutine and the loop. *)

(* AddPlayer with the character the database holds, perhaps a dead one. *)
EnterWorld(p, h) ==
  /\ MayAct(p)
  /\ presence[p] = "out"
  /\ presence' = [presence EXCEPT ![p] = "in"]
  /\ hp' = [hp EXCEPT ![p] = h]
  /\ inCombat' = [inCombat EXCEPT ![p] = FALSE]
  /\ UNCHANGED <<departed, attacks, mobs, queue>>

SendDisconnected(p) ==
  /\ presence[p] = "in"
  /\ p \notin departed
  /\ presence' = [presence EXCEPT ![p] = "leaving"]
  /\ departed' = departed \cup {p}
  /\ UNCHANGED <<hp, inCombat, attacks, mobs, queue>>

RemovePlayer(p) ==
  /\ presence[p] = "leaving"
  /\ presence' = [presence EXCEPT ![p] = "out"]
  /\ hp' = [hp EXCEPT ![p] = 0]
  /\ inCombat' = [inCombat EXCEPT ![p] = FALSE]
  /\ UNCHANGED <<departed, attacks, mobs, queue>>

(* A restart validated after its CmdPlayerDisconnected, and refused. *)
RestartRefused(p) ==
  /\ MayAct(p)
  /\ presence[p] = "leaving" /\ inCombat[p]
  /\ presence' = [presence EXCEPT ![p] = "in"]
  /\ UNCHANGED <<departed, hp, inCombat, attacks, mobs, queue>>

HandlePlayerDisconnected(p) ==
  /\ p \in departed
  /\ departed' = departed \ {p}
  /\ StopAttackers({p}, queue)
  /\ npcAim' = NpcAimsWithout(p)
  /\ UNCHANGED <<presence, hp, inCombat, npcs, npcHp, hate, spawnInfo>>

-----------------------------------------------------------------------------
(* Timed events. *)

(* Out of reach: look again after a heartbeat. Fault: only once. *)
OutOfReachOnce(e) == queue' = Done(e) /\ UNCHANGED <<inCombat, attacks>>
OutOfReach(e) ==
  /\ queue' = Schedule(Done(e), Swing(e.by, e.on, Heartbeat))
  /\ UNCHANGED <<inCombat, attacks>>

(* In reach: a swing that lands or not. *)
SwingNow(e) ==
  /\ inCombat' = [inCombat EXCEPT ![e.by] = TRUE]
  /\ age' = [age EXCEPT ![e.by] = 0]
  /\ \E landing \in SUBSET {Hit(e.by, e.on)} :
       queue' = ScheduleAll(Done(e), landing \cup {Swing(e.by, e.on, SwingTime)})
  /\ UNCHANGED <<fighters, aim>>

NextAttackEvent(e) ==
  /\ e.kind = "swing"
  /\ UNCHANGED <<presence, departed, hp, mobs>>
  /\ LET p == e.by
         t == e.on
     IN \/ /\ aim[p] # t                                   \* cancelled or retargeted
           /\ queue' = Done(e)
           /\ UNCHANGED <<inCombat, attacks>>
        \/ /\ aim[p] = t /\ ~(TargetAlive(t) /\ InWorld(p))
           /\ StopAttackers({p}, Done(e))
           /\ UNCHANGED inCombat
        \/ /\ aim[p] = t /\ TargetAlive(t) /\ InWorld(p)
           /\ OutOfReach(e) \/ SwingNow(e)

HitEvent(e) ==
  /\ e.kind = "hit"
  /\ \/ /\ ~TargetAlive(e.on)
        /\ queue' = Done(e)
        /\ UNCHANGED <<players, attacks, mobs>>
     \/ /\ TargetAlive(e.on)
        /\ \E d \in 1..MaxHp :
             \/ e.on \in Players /\ StrikePlayer({e.by, e.on}, e.on, d, Done(e))
             \/ e.on \in Npcs    /\ StrikeNpc(e.by, e.on, d, 1, Done(e))

NpcNextAttackEvent(e) ==
  /\ e.kind = "npcSwing"
  /\ UNCHANGED <<players, attacks, npcs, npcHp, hate, spawnInfo>>
  /\ LET n == e.by
         p == e.on
     IN \/ /\ npcAim[n] # p
           /\ queue' = Done(e)
           /\ UNCHANGED npcAim
        \/ /\ npcAim[n] = p                   \* someone is dead or gone, or out of range
           /\ queue' = Done(e)
           /\ npcAim' = [npcAim EXCEPT ![n] = NoOne]
        \/ /\ npcAim[n] = p /\ npcs[n] = "alive" /\ TargetAlive(p)
           /\ \E landing \in SUBSET {NpcHit(n, p)} :
                queue' = ScheduleAll(Done(e), landing \cup {NpcSwing(n, p, SwingTime)})
           /\ UNCHANGED npcAim

NpcHitEvent(e) ==
  /\ e.kind = "npcHit"
  /\ \/ /\ ~TargetAlive(e.on)
        /\ queue' = Done(e)
        /\ UNCHANGED <<players, attacks, mobs>>
     \/ /\ TargetAlive(e.on)
        /\ \E d \in 1..MaxHp : StrikePlayer({e.on}, e.on, d, Done(e))

(* Idle: stopped, not sheathed yet. Fault: to expire whatever its last swing. *)
Idle(p)    == p \in fighters /\ aim[p] = NoOne
Expired(p) == Idle(p) /\ age[p] >= StanceTimeout

CombatStanceTimeoutEvent(e) ==
  /\ e.kind = "stance"
  /\ queue' = Done(e)
  /\ UNCHANGED <<presence, departed, hp, aim, age, mobs>>
  /\ \/ ~Expired(e.by) /\ UNCHANGED <<inCombat, fighters>>
     \/ /\ Expired(e.by)
        /\ inCombat' = [inCombat EXCEPT ![e.by] = FALSE]
        /\ fighters' = fighters \ {e.by}

CorpseDecayEvent(e) ==
  /\ e.kind = "decay"
  /\ queue' = Done(e)
  /\ npcs' = [npcs EXCEPT ![e.by] = "absent"]
  /\ hate' = [hate EXCEPT ![e.by] = [p \in Players |-> 0]]
  /\ UNCHANGED <<players, attacks, npcHp, npcAim, spawnInfo>>

(* NextNPCObjectID never repeats an id; here one that nothing refers to any
   more stands for a new one. *)
Forgotten(n) ==
  /\ npcs[n] = "absent"
  /\ n \notin spawnInfo
  /\ \A p \in Players : aim[p] # n
  /\ \A e \in BagToSet(queue) : n \notin {e.by, e.on}

(* npcSpawnInfo moves to the new id. Fault: the old entry stays. *)
SpawnInfoKept(old, new)  == spawnInfo \cup {new}
SpawnInfoMoved(old, new) == (spawnInfo \ {old}) \cup {new}

RespawnEvent(e) ==
  /\ e.kind = "respawn"
  /\ queue' = Done(e)
  /\ UNCHANGED <<players, attacks, hate, npcAim>>
  /\ \/ e.by \notin spawnInfo /\ UNCHANGED <<npcs, npcHp, spawnInfo>>
     \/ /\ e.by \in spawnInfo
        /\ \E n \in Npcs :
             /\ Forgotten(n)
             /\ npcs' = [npcs EXCEPT ![n] = "alive"]
             /\ npcHp' = [npcHp EXCEPT ![n] = MaxHp]
             /\ spawnInfo' = SpawnInfoMoved(e.by, n)

Execute(e) ==
  /\ Due(e)
  /\ \/ NextAttackEvent(e)    \/ HitEvent(e)
     \/ NpcNextAttackEvent(e) \/ NpcHitEvent(e)
     \/ CombatStanceTimeoutEvent(e)
     \/ CorpseDecayEvent(e)   \/ RespawnEvent(e)

(* Time passes once nothing is due: the heap pops events in order of time, and
   those of one instant in any order. *)
Tick ==
  /\ \A e \in BagToSet(queue) : ~Due(e)
  /\ queue' = [e \in {Sooner(f) : f \in BagToSet(queue)} |-> queue[Later(e)]]
  /\ age' = [p \in Players |-> IF age[p] < StanceTimeout THEN age[p] + 1 ELSE StanceTimeout]
  /\ UNCHANGED <<players, fighters, aim, mobs>>

-----------------------------------------------------------------------------
Init ==
  /\ presence = [p \in Players |-> "out"]
  /\ departed = {}
  /\ hp = [p \in Players |-> 0]
  /\ inCombat = [p \in Players |-> FALSE]
  /\ fighters = {}
  /\ aim = [p \in Players |-> NoOne]
  /\ age = [p \in Players |-> StanceTimeout]
  /\ npcs = [n \in Npcs |-> IF n \in Spawned THEN "alive" ELSE "absent"]
  /\ npcHp = [n \in Npcs |-> IF n \in Spawned THEN MaxHp ELSE 0]
  /\ hate = [n \in Npcs |-> [p \in Players |-> 0]]
  /\ npcAim = [n \in Npcs |-> NoOne]
  /\ spawnInfo = Spawned
  /\ queue = EmptyBag

Command ==
  \E p \in Players :
    \/ \E t \in Objects : AttackRequest(p, t)
    \/ CancelAttack(p) \/ AbandonAttack(p)
    \/ Revive(p) \/ Regen(p)
    \/ \E v \in Players, d \in 1..MaxHp : CastOnPlayer(p, v, d)
    \/ \E n \in Npcs, d \in 1..MaxHp, kinds \in 1..2 : CastOnNpc(p, n, d, kinds)
    \/ HandlePlayerDisconnected(p)

Connection ==
  \E p \in Players :
    \/ \E h \in 0..MaxHp : EnterWorld(p, h)
    \/ SendDisconnected(p) \/ RemovePlayer(p) \/ RestartRefused(p)

ExecuteEvents == \E e \in BagToSet(queue) : Execute(e)

Next == Command \/ Connection \/ ExecuteEvents \/ Tick

Spec == Init /\ [][Next]_vars

(* The loop keeps ticking and executes what is due; no client is obliged to
   act. *)
Fairness == WF_vars(Tick) /\ WF_vars(ExecuteEvents)
FairSpec == Spec /\ Fairness

-----------------------------------------------------------------------------
(* Properties. *)

PlayersOK ==
  /\ presence \in [Players -> {"out", "in", "leaving"}]
  /\ departed \subseteq Players
  /\ hp \in [Players -> 0..MaxHp]
  /\ inCombat \in [Players -> BOOLEAN]

AttacksOK ==
  /\ fighters \subseteq Players
  /\ aim \in [Players -> Objects \cup {NoOne}]
  /\ age \in [Players -> 0..StanceTimeout]

MobsOK ==
  /\ npcs \in [Npcs -> {"alive", "dead", "absent"}]
  /\ npcHp \in [Npcs -> 0..MaxHp]
  /\ hate \in [Npcs -> [Players -> Nat]]
  /\ npcAim \in [Npcs -> Players \cup {NoOne}]
  /\ spawnInfo \subseteq Npcs

IsQueue(q) == IsABag(q) /\ BagToSet(q) \subseteq Event

(* Every variable holds values of its kind: HP stays within 0..MaxHp and the
   queue is a bag of events. *)
TypeOK == PlayersOK /\ AttacksOK /\ MobsOK /\ IsQueue(queue)

(* An attack in progress is driven by a pending swing: whatever cancels,
   retargets, walks away, dies or logs out in between, a player that is
   auto-attacking never waits for an event nobody scheduled (NextAttackEvent
   re-schedules itself or stops the attacker, handleAttackRequest always starts
   a chain). *)
AttackChainAlive ==
  \A p \in Players : aim[p] # NoOne =>
    \E e \in Pending("swing", p) : e.on = aim[p]

(* The same of an attacking NPC: startNPCAttack and NPCNextAttackEvent. *)
NpcChainAlive ==
  \A n \in Npcs : npcAim[n] # NoOne =>
    \E e \in Pending("npcSwing", n) : e.on = npcAim[n]

(* A stopped attacker is sheathed: its combat state always has a stance timeout
   pending that fires late enough not to be dismissed as "recent attack"
   (CombatStanceTimeoutEvent re-schedules nothing). *)
SheathScheduled ==
  \A p \in Players : Idle(p) =>
    \E e \in Pending("stance", p) : e.in + age[p] >= StanceTimeout

(* Spawns are neither lost nor multiplied: every spawn entry belongs to a live
   NPC or has a respawn pending, every live NPC has one, even when a skill with
   two kinds of damage kills its target twice. *)
PopulationConserved ==
  /\ Cardinality(spawnInfo) = Cardinality(Spawned)
  /\ \A n \in Npcs :
       /\ npcs[n] = "alive" => n \in spawnInfo
       /\ n \in spawnInfo => (npcs[n] = "alive" <=> Pending("respawn", n) = {})

(* The variables are well typed and the population of NPCs is conserved. *)
PopulationSound == TypeOK /\ PopulationConserved

(* Only a live NPC fights or is fought: handleNPCDeath leaves no attack by or on
   a corpse, and nothing that comes later starts one. *)
NobodyFightsCorpses ==
  /\ \A n \in Npcs : npcAim[n] # NoOne => npcs[n] = "alive"
  /\ \A p \in Players : aim[p] \in Npcs => npcs[aim[p]] = "alive"

(* A player in the world is let out of combat stance only by its own death or
   StanceTimeout after its last swing: no stale timeout of an earlier fight
   sheathes a player that has attacked since. *)
StanceHeld ==
  [][\A p \in Players : inCombat[p] /\ ~inCombat'[p] =>
        hp'[p] = 0 \/ age[p] >= StanceTimeout]_vars

(* A stopped attacker's combat state is eventually dropped, or it attacks again. *)
StoppedIsSheathed ==
  \A p \in Players : Idle(p) ~> ~Idle(p)

(* A killed NPC's spawn eventually moves on to a new NPC. *)
DeadNpcRespawns ==
  \A n \in Npcs : npcs[n] = "dead" ~> n \notin spawnInfo

(* intention.go:66-68, "Calling beginAttackSwing here would create a second
   parallel chain": an attacker has one chain of swings at its target. *)
OneSwingChain ==
  \A p \in Players : aim[p] # NoOne =>
    MapThenSumSet(LAMBDA e : queue[e], {e \in Pending("swing", p) : e.on = aim[p]}) =< 1

(* gameloop.go:605-606, "the stance is sheathed only after the 15s timeout": the
   stance of a player that does not attack ends. *)
StanceEnds ==
  \A p \in Players : inCombat[p] ~> (~inCombat[p] \/ aim[p] # NoOne)

(* npc_combat.go:221, "A dead player is no longer in combat". *)
DeadNotInCombat ==
  \A p \in Players : InWorld(p) /\ hp[p] = 0 => ~inCombat[p]
=============================================================================
