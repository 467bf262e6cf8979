---------------------------- MODULE CombatProofs ----------------------------
(* What TLAPS proves of Combat, for every set of players and NPCs, every
   number of hit points and every choice of the delays. *)
EXTENDS Combat, FiniteSetTheorems, TLAPS

-----------------------------------------------------------------------------
(* The queue. *)

(* Scheduling adds the events and loses none. *)
LEMMA Scheduling ==
  ASSUME NEW q, NEW E, IsQueue(q), E \subseteq Event
  PROVE  /\ IsQueue(ScheduleAll(q, E))
         /\ BagToSet(ScheduleAll(q, E)) = BagToSet(q) \cup E
  BY DEF IsQueue, IsABag, BagToSet, SetToBag, ScheduleAll, (+)

(* Executing an event removes nothing but that event. *)
LEMMA Executing ==
  ASSUME NEW e \in BagToSet(queue), IsQueue(queue)
  PROVE  /\ IsQueue(Done(e))
         /\ BagToSet(queue) \ {e} \subseteq BagToSet(Done(e))
         /\ BagToSet(Done(e)) \subseteq BagToSet(queue)
  BY DEF IsQueue, IsABag, BagToSet, SetToBag, Done, (-)

(* A tick brings every event nearer and keeps the queue a bag of events. *)
LEMMA Ticking ==
  ASSUME IsQueue(queue), Tick
  PROVE  /\ IsQueue(queue')
         /\ BagToSet(queue') = {Sooner(e) : e \in BagToSet(queue)}
         /\ \A e \in BagToSet(queue) : e.in > 0 /\ Sooner(e) \in BagToSet(queue')
<1>1. BagToSet(queue') = {Sooner(e) : e \in BagToSet(queue)}
  BY DEF Tick, BagToSet
<1>2. \A e \in BagToSet(queue) : e.in \in Nat \ {0}
  BY DEF Tick, Due, BagIn, BagToSet, IsQueue, Event
<1>3. \A e \in BagToSet(queue) : Sooner(e) \in Event /\ Later(Sooner(e)) = e
  <2> SUFFICES ASSUME NEW e \in BagToSet(queue)
               PROVE  Sooner(e) \in Event /\ Later(Sooner(e)) = e
    OBVIOUS
  <2>1. e \in Event /\ e.in \in Nat \ {0}
    BY <1>2 DEF IsQueue
  <2>2. Sooner(e) \in Event
    BY <2>1 DEF Sooner, In, Event
  <2>3. Later(Sooner(e)) = e
    BY <2>1 DEF Later, Sooner, In, Event
  <2> QED BY <2>2, <2>3
<1>4. IsABag(queue')
  <2>1. \A e \in BagToSet(queue') : queue'[e] \in {n \in Nat : n > 0}
    <3> SUFFICES ASSUME NEW f \in BagToSet(queue)
                 PROVE  queue'[Sooner(f)] \in {n \in Nat : n > 0}
      BY <1>1
    <3>1. queue'[Sooner(f)] = queue[f]
      BY <1>3 DEF Tick
    <3> QED BY <3>1 DEF IsQueue, IsABag, BagToSet
  <2>2. queue' = [e \in BagToSet(queue') |-> queue'[e]]
    BY DEF Tick, BagToSet
  <2> QED BY <2>1, <2>2 DEF IsABag, BagToSet
<1> QED BY <1>1, <1>2, <1>3, <1>4 DEF IsQueue

(* What the handlers schedule are events. *)
LEMMA Scheduled ==
  ASSUME NEW p \in Players, NEW n \in Npcs, NEW t \in Objects, NEW d \in Delays
  PROVE  /\ Swing(p, t, d) \in Event /\ Hit(p, t) \in Event
         /\ NpcSwing(n, p, d) \in Event /\ NpcHit(n, p) \in Event
         /\ Stance(p) \in Event
         /\ DeathEvents(n) \subseteq Event
  BY TimesAssumption, ObjectsAssumption
  DEF Swing, Hit, NpcSwing, NpcHit, Stance, DeathEvents, Decay, Respawn, Event, Delays

-----------------------------------------------------------------------------
(* Type correctness. *)

LEMMA StoppingTypes ==
  ASSUME AttacksOK, NEW S \in SUBSET Players, NEW q, IsQueue(q), StopAttackers(S, q)
  PROVE  AttacksOK' /\ IsQueue(queue') /\ BagToSet(q) \subseteq BagToSet(queue')
<1>1. {Stance(p) : p \in S \cap fighters} \subseteq Event
  BY TimesAssumption DEF Stance, Event, Delays
<1>2. IsQueue(queue') /\ BagToSet(q) \subseteq BagToSet(queue')
  BY <1>1, Scheduling DEF StopAttackers
<1> QED BY <1>2 DEF StopAttackers, AttacksOK

LEMMA StrikePlayerTypes ==
  ASSUME TypeOK, NEW S, NEW v \in Players, NEW d \in 1..MaxHp, NEW q, IsQueue(q),
         StrikePlayer(S, v, d, q)
  PROVE  TypeOK' /\ BagToSet(q) \subseteq BagToSet(queue')
<1> USE DEF TypeOK
<1>1. PlayersOK'
  <2>1. hp' \in [Players -> 0..MaxHp]
    BY BoundsAssumption DEF PlayersOK, StrikePlayer, Reduced
  <2>2. inCombat' \in [Players -> BOOLEAN]
    BY DEF PlayersOK, StrikePlayer
  <2> QED BY <2>1, <2>2 DEF PlayersOK, StrikePlayer
<1>2. MobsOK'
  BY DEF MobsOK, StrikePlayer, NpcAimsWithout
<1>3. AttacksOK' /\ IsQueue(queue') /\ BagToSet(q) \subseteq BagToSet(queue')
  <2>1. CASE hp[v] > d
    BY <2>1 DEF StrikePlayer, attacks, AttacksOK, PlayersOK
  <2>2. CASE hp[v] =< d
    BY <2>2, StoppingTypes DEF StrikePlayer, PlayersOK
  <2> QED BY <2>1, <2>2 DEF PlayersOK
<1> QED BY <1>1, <1>2, <1>3

LEMMA StrikeNpcTypes ==
  ASSUME TypeOK, NEW p \in Players, NEW n \in Npcs, NEW d \in 1..MaxHp, NEW kills,
         NEW q, IsQueue(q), StrikeNpc(p, n, d, kills, q)
  PROVE  TypeOK' /\ BagToSet(q) \subseteq BagToSet(queue')
<1> USE DEF TypeOK
<1>1. PlayersOK'
  BY DEF PlayersOK, StrikeNpc, players
<1>2. hate' \in [Npcs -> [Players -> Nat]] /\ npcHp' \in [Npcs -> 0..MaxHp]
  BY BoundsAssumption DEF MobsOK, StrikeNpc, Reduced
<1>3. PICK top \in Players, delay \in {1, Heartbeat} :
        \/ /\ npcHp[n] > d
           /\ npcAim' = [npcAim EXCEPT ![n] = top]
           /\ queue' = Provoked(n, top, delay, q)
           /\ UNCHANGED <<npcs, attacks>>
        \/ /\ npcHp[n] =< d
           /\ npcs' = [npcs EXCEPT ![n] = "dead"]
           /\ npcAim' = [npcAim EXCEPT ![n] = NoOne]
           /\ \/ StopAttackers(AttackersOf(n),
                   ScheduleAll(ScheduleAll(Provoked(n, top, delay, q), DeathEvents(n)), DeathEvents(n)))
              \/ StopAttackers(AttackersOf(n),
                   ScheduleAll(Provoked(n, top, delay, q), DeathEvents(n)))
  BY DEF StrikeNpc, MostHated
<1> DEFINE started == Provoked(n, top, delay, q)
<1>4. IsQueue(started) /\ BagToSet(q) \subseteq BagToSet(started)
  <2>1. delay \in Delays
    BY DEF Delays
  <2>2. NpcSwing(n, top, delay) \in Event
    BY <2>1, Scheduled DEF Objects
  <2> QED BY <2>2, Scheduling DEF Provoked, Schedule
<1>5. MobsOK'
  <2>1. npcs' \in [Npcs -> {"alive", "dead", "absent"}] /\ npcAim' \in [Npcs -> Players \cup {NoOne}]
    BY <1>3 DEF MobsOK
  <2> QED BY <1>2, <2>1 DEF MobsOK, StrikeNpc
<1>6. CASE npcHp[n] > d
  BY <1>1, <1>3, <1>4, <1>5, <1>6 DEF attacks, AttacksOK, MobsOK
<1>7. CASE npcHp[n] =< d
  <2>1. DeathEvents(n) \subseteq Event
    BY TimesAssumption DEF DeathEvents, Decay, Respawn, Event, Delays
  <2>2. /\ IsQueue(ScheduleAll(started, DeathEvents(n)))
        /\ BagToSet(q) \subseteq BagToSet(ScheduleAll(started, DeathEvents(n)))
    BY <1>4, <2>1, Scheduling
  <2>3. /\ IsQueue(ScheduleAll(ScheduleAll(started, DeathEvents(n)), DeathEvents(n)))
        /\ BagToSet(q) \subseteq BagToSet(ScheduleAll(ScheduleAll(started, DeathEvents(n)), DeathEvents(n)))
    BY <2>1, <2>2, Scheduling
  <2>4. AttackersOf(n) \in SUBSET Players
    BY DEF AttackersOf
  <2>5. PICK died : /\ StopAttackers(AttackersOf(n), died)
                    /\ IsQueue(died) /\ BagToSet(q) \subseteq BagToSet(died)
    <3>1. ~(npcHp[n] > d)
      BY <1>7 DEF MobsOK
    <3> HIDE DEF started
    <3>2. \/ StopAttackers(AttackersOf(n), ScheduleAll(ScheduleAll(started, DeathEvents(n)), DeathEvents(n)))
          \/ StopAttackers(AttackersOf(n), ScheduleAll(started, DeathEvents(n)))
      BY <1>3, <3>1 DEF started
    <3> QED BY <3>2, <2>2, <2>3
  <2>6. AttacksOK' /\ IsQueue(queue') /\ BagToSet(died) \subseteq BagToSet(queue')
    BY <2>4, <2>5, StoppingTypes
  <2> QED BY <1>1, <1>5, <2>5, <2>6
<1> QED BY <1>6, <1>7 DEF MobsOK

-----------------------------------------------------------------------------
(* The steps of Next, one by one. *)

LEMMA CommandTypes == TypeOK /\ Command => TypeOK'
<1> SUFFICES ASSUME TypeOK, Command PROVE TypeOK'
  OBVIOUS
<1> USE DEF TypeOK
<1>1. ASSUME NEW p \in Players, NEW t \in Objects, AttackRequest(p, t) PROVE TypeOK'
  <2>1. Swing(p, t, 1) \in Event
    BY DEF Swing, Event
  <2>2. IsQueue(queue')
    BY <1>1, <2>1, Scheduling DEF AttackRequest, Schedule
  <2> QED BY <1>1, <2>2, TimesAssumption
          DEF AttackRequest, players, mobs, PlayersOK, AttacksOK, MobsOK, Delays
<1>2. ASSUME NEW p \in Players, CancelAttack(p) \/ AbandonAttack(p) PROVE TypeOK'
  BY <1>2, StoppingTypes DEF CancelAttack, AbandonAttack, players, mobs, PlayersOK, MobsOK
<1>3. ASSUME NEW p \in Players, Revive(p) PROVE TypeOK'
  <2>1. AttacksOK' /\ IsQueue(queue')
    BY <1>3, StoppingTypes DEF Revive
  <2> QED BY <1>3, <2>1, BoundsAssumption DEF Revive, mobs, PlayersOK, MobsOK
<1>4. ASSUME NEW p \in Players, Regen(p) PROVE TypeOK'
  BY <1>4, BoundsAssumption DEF Regen, attacks, mobs, PlayersOK, AttacksOK, MobsOK
<1>5. ASSUME NEW p \in Players, NEW v \in Players, NEW d \in 1..MaxHp, CastOnPlayer(p, v, d) PROVE TypeOK'
  BY <1>5, StrikePlayerTypes DEF CastOnPlayer
<1>6. ASSUME NEW p \in Players, NEW n \in Npcs, NEW d \in 1..MaxHp, NEW kinds \in 1..2,
             CastOnNpc(p, n, d, kinds)
      PROVE  TypeOK'
  BY <1>6, StrikeNpcTypes DEF CastOnNpc
<1>7. ASSUME NEW p \in Players, HandlePlayerDisconnected(p) PROVE TypeOK'
  <2>1. AttacksOK' /\ IsQueue(queue')
    BY <1>7, StoppingTypes DEF HandlePlayerDisconnected
  <2> QED BY <1>7, <2>1 DEF HandlePlayerDisconnected, NpcAimsWithout, PlayersOK, MobsOK
<1> QED BY <1>1, <1>2, <1>3, <1>4, <1>5, <1>6, <1>7 DEF Command

LEMMA ConnectionTypes == TypeOK /\ Connection => TypeOK'
<1> SUFFICES ASSUME TypeOK, NEW p \in Players,
                    \/ \E h \in 0..MaxHp : EnterWorld(p, h)
                    \/ SendDisconnected(p) \/ RemovePlayer(p) \/ RestartRefused(p)
             PROVE  TypeOK'
  BY DEF Connection
<1>1. PlayersOK'
  <2>1. ASSUME NEW h \in 0..MaxHp, EnterWorld(p, h) PROVE PlayersOK'
    BY <2>1 DEF TypeOK, PlayersOK, EnterWorld
  <2>2. ASSUME SendDisconnected(p) \/ RestartRefused(p) PROVE PlayersOK'
    BY <2>2 DEF TypeOK, PlayersOK, SendDisconnected, RestartRefused
  <2>3. ASSUME RemovePlayer(p) PROVE PlayersOK'
    BY <2>3, BoundsAssumption DEF TypeOK, PlayersOK, RemovePlayer
  <2> QED BY <2>1, <2>2, <2>3
<1>2. UNCHANGED <<attacks, mobs, queue>>
  BY DEF EnterWorld, SendDisconnected, RemovePlayer, RestartRefused
<1> QED BY <1>1, <1>2 DEF TypeOK, attacks, mobs, AttacksOK, MobsOK

LEMMA ExecuteTypes == TypeOK /\ ExecuteEvents => TypeOK'
<1> SUFFICES ASSUME TypeOK, NEW e \in BagToSet(queue), Execute(e) PROVE TypeOK'
  BY DEF ExecuteEvents
<1> USE DEF TypeOK
<1>1. IsQueue(Done(e)) /\ e \in Event
  BY Executing DEF IsQueue
<1>2. CASE NextAttackEvent(e)
  <2>1. e.by \in Players /\ e.on \in Objects
    BY <1>1, <1>2 DEF NextAttackEvent, Event
  <2>2. /\ Swing(e.by, e.on, Heartbeat) \in Event
        /\ Swing(e.by, e.on, SwingTime) \in Event
        /\ Hit(e.by, e.on) \in Event
    BY <2>1, TimesAssumption DEF Swing, Hit, Event, Delays
  <2>3. AttacksOK' /\ IsQueue(queue') /\ inCombat' \in [Players -> BOOLEAN]
    <3>1. CASE queue' = Done(e) /\ UNCHANGED <<inCombat, attacks>>
      BY <1>1, <3>1 DEF attacks, AttacksOK, PlayersOK
    <3>2. CASE StopAttackers({e.by}, Done(e)) /\ UNCHANGED inCombat
      BY <1>1, <2>1, <3>2, StoppingTypes DEF PlayersOK
    <3>3. CASE OutOfReach(e)
      BY <1>1, <2>2, <3>3, Scheduling DEF OutOfReach, Schedule, attacks, AttacksOK, PlayersOK
    <3>4. CASE SwingNow(e)
      <4>1. IsQueue(queue')
        BY <1>1, <2>2, <3>4, Scheduling DEF SwingNow
      <4> QED BY <2>1, <3>4, <4>1, TimesAssumption DEF SwingNow, AttacksOK, PlayersOK, Delays
    <3> QED BY <1>2, <3>1, <3>2, <3>3, <3>4 DEF NextAttackEvent
  <2> QED BY <1>2, <2>3 DEF NextAttackEvent, mobs, PlayersOK, MobsOK
<1>3. CASE HitEvent(e)
  <2>1. e.by \in Players /\ e.on \in Objects
    BY <1>1, <1>3 DEF HitEvent, Event
  <2>2. CASE queue' = Done(e) /\ UNCHANGED <<players, attacks, mobs>>
    BY <1>1, <2>2 DEF players, attacks, mobs, PlayersOK, AttacksOK, MobsOK
  <2>3. CASE \E d \in 1..MaxHp : e.on \in Players /\ StrikePlayer({e.by, e.on}, e.on, d, Done(e))
    BY <1>1, <2>3, StrikePlayerTypes
  <2>4. CASE \E d \in 1..MaxHp : e.on \in Npcs /\ StrikeNpc(e.by, e.on, d, 1, Done(e))
    BY <1>1, <2>1, <2>4, StrikeNpcTypes
  <2> QED BY <1>3, <2>2, <2>3, <2>4 DEF HitEvent
<1>4. CASE NpcNextAttackEvent(e)
  <2>1. e.by \in Npcs /\ e.on \in Players
    BY <1>1, <1>4 DEF NpcNextAttackEvent, Event
  <2>2. NpcSwing(e.by, e.on, SwingTime) \in Event /\ NpcHit(e.by, e.on) \in Event
    BY <2>1, TimesAssumption DEF NpcSwing, NpcHit, Event, Delays
  <2>3. IsQueue(queue')
    <3>1. CASE queue' = Done(e)
      BY <1>1, <3>1
    <3>2. CASE \E landing \in SUBSET {NpcHit(e.by, e.on)} :
                 queue' = ScheduleAll(Done(e), landing \cup {NpcSwing(e.by, e.on, SwingTime)})
      BY <1>1, <2>2, <3>2, Scheduling
    <3> QED BY <1>4, <3>1, <3>2 DEF NpcNextAttackEvent
  <2>4. npcAim' \in [Npcs -> Players \cup {NoOne}]
    BY <1>4 DEF NpcNextAttackEvent, MobsOK
  <2> QED BY <1>4, <2>3, <2>4 DEF NpcNextAttackEvent, players, attacks, PlayersOK, AttacksOK, MobsOK
<1>5. CASE NpcHitEvent(e)
  <2>1. e.on \in Players
    BY <1>1, <1>5 DEF NpcHitEvent, Event
  <2>2. CASE queue' = Done(e) /\ UNCHANGED <<players, attacks, mobs>>
    BY <1>1, <2>2 DEF players, attacks, mobs, PlayersOK, AttacksOK, MobsOK
  <2> QED BY <1>1, <1>5, <2>1, <2>2, StrikePlayerTypes DEF NpcHitEvent
<1>6. CASE CombatStanceTimeoutEvent(e)
  BY <1>1, <1>6 DEF CombatStanceTimeoutEvent, mobs, PlayersOK, AttacksOK, MobsOK
<1>7. CASE CorpseDecayEvent(e)
  BY <1>1, <1>7 DEF CorpseDecayEvent, players, attacks, PlayersOK, AttacksOK, MobsOK
<1>8. CASE RespawnEvent(e)
  <2>1. e.by \in Npcs
    BY <1>1, <1>8 DEF RespawnEvent, Event
  <2>2. MobsOK'
    <3>1. CASE UNCHANGED <<npcs, npcHp, spawnInfo>>
      BY <1>8, <3>1 DEF RespawnEvent, MobsOK
    <3>2. ASSUME NEW n \in Npcs,
                 npcs' = [npcs EXCEPT ![n] = "alive"], npcHp' = [npcHp EXCEPT ![n] = MaxHp],
                 spawnInfo' = SpawnInfoMoved(e.by, n)
          PROVE  MobsOK'
      <4>1. npcs' \in [Npcs -> {"alive", "dead", "absent"}]
        BY <3>2 DEF MobsOK
      <4>2. npcHp' \in [Npcs -> 0..MaxHp]
        BY <3>2, BoundsAssumption DEF MobsOK
      <4>3. spawnInfo' \subseteq Npcs
        BY <3>2 DEF MobsOK, SpawnInfoMoved
      <4> QED BY <1>8, <4>1, <4>2, <4>3 DEF RespawnEvent, MobsOK
    <3> QED BY <1>8, <3>1, <3>2 DEF RespawnEvent
  <2> QED BY <1>1, <1>8, <2>2 DEF RespawnEvent, players, attacks, PlayersOK, AttacksOK
<1> QED BY <1>2, <1>3, <1>4, <1>5, <1>6, <1>7, <1>8 DEF Execute

LEMMA TickTypes == TypeOK /\ Tick => TypeOK'
<1> SUFFICES ASSUME TypeOK, Tick PROVE TypeOK'
  OBVIOUS
<1>1. IsQueue(queue')
  BY Ticking DEF TypeOK
<1>2. age' \in [Players -> 0..StanceTimeout]
  BY TimesAssumption DEF Tick, TypeOK, AttacksOK, Delays
<1> QED BY <1>1, <1>2 DEF Tick, TypeOK, players, mobs, PlayersOK, AttacksOK, MobsOK

(* Combat's variables keep their types: in particular no blow, however large,
   takes HP below 0 and no event is executed that is not in the queue. *)
THEOREM TypeCorrect == Spec => []TypeOK
<1>1. Init => TypeOK
  <2> SUFFICES ASSUME Init PROVE TypeOK
    OBVIOUS
  <2>1. IsQueue(queue)
    BY DEF Init, IsQueue, IsABag, BagToSet, EmptyBag, SetToBag
  <2>2. StanceTimeout \in Nat
    BY TimesAssumption DEF Delays
  <2>3. MobsOK
    BY BoundsAssumption, ObjectsAssumption DEF Init, MobsOK
  <2> QED BY <2>1, <2>2, <2>3, BoundsAssumption DEF Init, TypeOK, PlayersOK, AttacksOK
<1>2. TypeOK /\ [Next]_vars => TypeOK'
  <2>1. TypeOK /\ UNCHANGED vars => TypeOK'
    BY DEF TypeOK, vars, players, attacks, mobs, PlayersOK, AttacksOK, MobsOK, IsQueue
  <2> QED BY <2>1, CommandTypes, ConnectionTypes, ExecuteTypes, TickTypes DEF Next
<1> QED BY <1>1, <1>2, PTL DEF Spec

-----------------------------------------------------------------------------
(* Attacks. Most steps only stop attackers: Calms(q) says that a step whose
   queue grew from q starts no attack, and that it gives a stance timeout to
   every attacker it stops. *)

Calms(q) ==
  /\ UNCHANGED <<fighters, age>>
  /\ BagToSet(q) \subseteq BagToSet(queue')
  /\ \A p \in Players :
       /\ aim'[p] \in {aim[p], NoOne}
       /\ p \in fighters /\ aim'[p] = NoOne /\ aim[p] # NoOne => Stance(p) \in BagToSet(queue')

LEMMA StandingStill ==
  ASSUME NEW q, UNCHANGED attacks, BagToSet(q) \subseteq BagToSet(queue')
  PROVE  Calms(q)
  BY DEF Calms, attacks

LEMMA Stopping ==
  ASSUME AttacksOK, NEW S \in SUBSET Players, NEW q, IsQueue(q), StopAttackers(S, q)
  PROVE  Calms(q)
<1>1. {Stance(p) : p \in S \cap fighters} \subseteq Event
  BY TimesAssumption DEF Stance, Event, Delays
<1>2. BagToSet(queue') = BagToSet(q) \cup {Stance(p) : p \in S \cap fighters}
  BY <1>1, Scheduling DEF StopAttackers
<1> QED BY <1>2 DEF StopAttackers, AttacksOK, Calms

LEMMA StrikePlayerCalms ==
  ASSUME TypeOK, NEW S, NEW v \in Players, NEW d \in 1..MaxHp, NEW q, IsQueue(q),
         StrikePlayer(S, v, d, q)
  PROVE  Calms(q)
<1>1. CASE queue' = q /\ UNCHANGED attacks
  BY <1>1, StandingStill
<1>2. CASE StopAttackers({v}, q)
  BY <1>2, Stopping DEF TypeOK
<1> QED BY <1>1, <1>2 DEF StrikePlayer

LEMMA StrikeNpcCalms ==
  ASSUME TypeOK, NEW p \in Players, NEW n \in Npcs, NEW d \in 1..MaxHp, NEW kills,
         NEW q, IsQueue(q), StrikeNpc(p, n, d, kills, q)
  PROVE  Calms(q)
<1>1. BagToSet(q) \subseteq BagToSet(queue')
  BY StrikeNpcTypes
<1>2. CASE UNCHANGED attacks
  BY <1>1, <1>2, StandingStill
<1>3. ASSUME NEW died, StopAttackers(AttackersOf(n), died) PROVE Calms(q)
  <2>1. \A x \in Players \cap fighters : aim[x] = n => Stance(x) \in BagToSet(queue')
    BY <1>3 DEF StopAttackers, AttackersOf, ScheduleAll, SetToBag, BagToSet, (+)
  <2>2. \A x \in Players : aim'[x] = IF aim[x] = n THEN NoOne ELSE aim[x]
    BY <1>3 DEF StopAttackers, AttackersOf
  <2> QED BY <1>1, <1>3, <2>1, <2>2 DEF StopAttackers, Calms
<1> QED BY <1>2, <1>3 DEF StrikeNpc

LEMMA CalmKeepsChains ==
  ASSUME AttackChainAlive, NEW q, Calms(q),
         \A p \in Players, f \in BagToSet(queue) :
            f.kind = "swing" /\ f.by = p /\ f.on = aim'[p] => f \in BagToSet(q)
  PROVE  AttackChainAlive'
  BY DEF AttackChainAlive, Calms, Pending, BagToSet

LEMMA CalmKeepsSheaths ==
  ASSUME TypeOK, SheathScheduled, NEW q, Calms(q),
         \A f \in BagToSet(queue) : f.kind = "stance" => f \in BagToSet(q)
  PROVE  SheathScheduled'
<1> SUFFICES ASSUME NEW p \in Players, Idle(p)'
             PROVE  \E e \in Pending("stance", p)' : e.in + age'[p] >= StanceTimeout
  BY DEF SheathScheduled
<1>1. CASE Idle(p)
  BY <1>1 DEF SheathScheduled, Calms, Pending, BagToSet
<1>2. CASE ~Idle(p)
  <2>1. Stance(p) \in BagToSet(queue')
    BY <1>2 DEF Idle, Calms
  <2>2. Stance(p) \in Pending("stance", p)' /\ Stance(p).in = StanceTimeout
    BY <2>1 DEF Stance, Pending, BagToSet
  <2>3. StanceTimeout + age'[p] >= StanceTimeout
    BY TimesAssumption DEF Calms, TypeOK, AttacksOK, Delays
  <2> QED BY <2>2, <2>3
<1> QED BY <1>1, <1>2

-----------------------------------------------------------------------------
(* The chains of swings and the stance timeouts, together with the types, are
   inductive. *)

AttackInv == TypeOK /\ AttackChainAlive /\ SheathScheduled

LEMMA CommandAttacks == AttackInv /\ Command => AttackChainAlive' /\ SheathScheduled'
<1> SUFFICES ASSUME AttackInv, Command PROVE AttackChainAlive' /\ SheathScheduled'
  OBVIOUS
<1>q. IsQueue(queue) /\ AttacksOK
  BY DEF AttackInv, TypeOK
<1>1. ASSUME Calms(queue) PROVE AttackChainAlive' /\ SheathScheduled'
  BY <1>1, CalmKeepsChains, CalmKeepsSheaths DEF AttackInv
<1>2. ASSUME NEW p \in Players, NEW t \in Objects, AttackRequest(p, t)
      PROVE  AttackChainAlive' /\ SheathScheduled'
  <2>1. Swing(p, t, 1) \in Event
    BY DEF Swing, Event
  <2>2. BagToSet(queue') = BagToSet(queue) \cup {Swing(p, t, 1)}
    BY <1>q, <1>2, <2>1, Scheduling DEF AttackRequest, Schedule
  <2>3. aim' = [aim EXCEPT ![p] = t] /\ age' = [age EXCEPT ![p] = 0] /\ fighters' = fighters \cup {p}
    BY <1>2 DEF AttackRequest
  <2>4. t # NoOne /\ aim'[p] = t
    BY <1>q, <2>3, ObjectsAssumption DEF Objects, AttacksOK
  <2>5. AttackChainAlive'
    <3> SUFFICES ASSUME NEW x \in Players, aim'[x] # NoOne
                 PROVE  \E e \in Pending("swing", x)' : e.on = aim'[x]
      BY DEF AttackChainAlive
    <3>1. CASE x = p
      <4>1. Swing(p, t, 1) \in Pending("swing", x)'
        BY <2>2, <3>1 DEF Pending, Swing
      <4>2. Swing(p, t, 1).on = aim'[x]
        BY <2>4, <3>1 DEF Swing
      <4> QED BY <4>1, <4>2
    <3>2. CASE x # p
      BY <1>q, <2>2, <2>3, <3>2 DEF AttackInv, AttackChainAlive, Pending, BagToSet, AttacksOK
    <3> QED BY <3>1, <3>2
  <2>6. SheathScheduled'
    <3> SUFFICES ASSUME NEW x \in Players, Idle(x)'
                 PROVE  \E e \in Pending("stance", x)' : e.in + age'[x] >= StanceTimeout
      BY DEF SheathScheduled
    <3>1. x # p
      BY <2>4 DEF Idle
    <3>2. Idle(x) /\ age'[x] = age[x]
      BY <1>q, <2>3, <3>1 DEF Idle, AttacksOK
    <3> QED BY <2>2, <3>2 DEF AttackInv, SheathScheduled, Pending, BagToSet
  <2> QED BY <2>5, <2>6
<1>3. ASSUME NEW p \in Players, CancelAttack(p) \/ AbandonAttack(p) \/ Revive(p) \/ HandlePlayerDisconnected(p)
      PROVE  Calms(queue)
  BY <1>q, <1>3, Stopping DEF CancelAttack, AbandonAttack, Revive, HandlePlayerDisconnected
<1>4. ASSUME NEW p \in Players, Regen(p) PROVE Calms(queue)
  BY <1>4, StandingStill DEF Regen
<1>5. ASSUME NEW p \in Players, NEW v \in Players, NEW d \in 1..MaxHp, CastOnPlayer(p, v, d)
      PROVE  Calms(queue)
  BY <1>q, <1>5, StrikePlayerCalms DEF CastOnPlayer, AttackInv
<1>6. ASSUME NEW p \in Players, NEW n \in Npcs, NEW d \in 1..MaxHp, NEW kinds \in 1..2,
             CastOnNpc(p, n, d, kinds)
      PROVE  Calms(queue)
  BY <1>q, <1>6, StrikeNpcCalms DEF CastOnNpc, AttackInv
<1> QED BY <1>1, <1>2, <1>3, <1>4, <1>5, <1>6 DEF Command

LEMMA ConnectionAttacks == AttackInv /\ Connection => AttackChainAlive' /\ SheathScheduled'
<1> SUFFICES ASSUME AttackInv, Connection PROVE AttackChainAlive' /\ SheathScheduled'
  OBVIOUS
<1>1. Calms(queue)
  BY StandingStill DEF Connection, EnterWorld, SendDisconnected, RemovePlayer, RestartRefused
<1> QED BY <1>1, CalmKeepsChains, CalmKeepsSheaths DEF AttackInv

LEMMA SwingAttacks ==
  ASSUME AttackInv, NEW e \in BagToSet(queue), NextAttackEvent(e)
  PROVE  AttackChainAlive' /\ SheathScheduled'
<1> DEFINE p == e.by
<1>1. /\ IsQueue(Done(e)) /\ BagToSet(queue) \ {e} \subseteq BagToSet(Done(e))
      /\ BagToSet(Done(e)) \subseteq BagToSet(queue)
  BY Executing DEF AttackInv, TypeOK
<1>2. p \in Players /\ e.on \in Objects /\ e.kind = "swing"
  BY DEF NextAttackEvent, AttackInv, TypeOK, IsQueue, Event
<1>3. e.on # NoOne
  BY <1>2, ObjectsAssumption DEF Objects
<1>4. CASE /\ Calms(Done(e))
           /\ aim'[p] # e.on
  BY <1>1, <1>2, <1>4, CalmKeepsChains, CalmKeepsSheaths DEF AttackInv
<1>5. CASE aim[p] # e.on /\ queue' = Done(e) /\ UNCHANGED attacks
  BY <1>1, <1>4, <1>5, StandingStill DEF attacks
<1>6. CASE StopAttackers({p}, Done(e))
  <2>1. Calms(Done(e))
    BY <1>1, <1>2, <1>6, Stopping DEF AttackInv, TypeOK
  <2>2. aim'[p] = NoOne
    BY <1>2, <1>6 DEF StopAttackers
  <2> QED BY <1>3, <1>4, <2>1, <2>2
<1>7. ASSUME NEW f, f.kind = "swing", f.by = p, f.on = e.on,
             BagToSet(Done(e)) \cup {f} \subseteq BagToSet(queue'),
             aim[p] = e.on, UNCHANGED <<fighters, aim>>,
             \A x \in Players : x # p => age'[x] = age[x]
      PROVE  AttackChainAlive' /\ SheathScheduled'
  <2>1. AttackChainAlive'
    <3> SUFFICES ASSUME NEW x \in Players, aim[x] # NoOne
                 PROVE  \E g \in Pending("swing", x)' : g.on = aim[x]
      BY <1>7 DEF AttackChainAlive
    <3>1. CASE x = p
      <4>1. f \in Pending("swing", x)'
        BY <1>7, <3>1 DEF Pending
      <4> QED BY <1>7, <3>1, <4>1
    <3>2. CASE x # p
      <4>1. PICK g \in Pending("swing", x) : g.on = aim[x]
        BY DEF AttackInv, AttackChainAlive
      <4>2. g \in Pending("swing", x)'
        BY <1>1, <1>7, <3>2, <4>1 DEF Pending
      <4> QED BY <4>1, <4>2
    <3> QED BY <3>1, <3>2
  <2>2. SheathScheduled'
    <3> SUFFICES ASSUME NEW x \in Players, Idle(x)'
                 PROVE  \E g \in Pending("stance", x)' : g.in + age'[x] >= StanceTimeout
      BY DEF SheathScheduled
    <3>1. Idle(x) /\ x # p
      BY <1>3, <1>7 DEF Idle
    <3>2. PICK g \in Pending("stance", x) : g.in + age[x] >= StanceTimeout
      BY <3>1 DEF AttackInv, SheathScheduled
    <3>3. g \in Pending("stance", x)'
      BY <1>1, <1>2, <1>7, <3>2 DEF Pending
    <3> QED BY <1>7, <3>1, <3>2, <3>3
  <2> QED BY <2>1, <2>2
<1>8. CASE aim[p] = e.on /\ OutOfReach(e)
  <2>1. Swing(p, e.on, Heartbeat) \in Event
    BY <1>2, TimesAssumption DEF Swing, Event, Delays
  <2>2. BagToSet(queue') = BagToSet(Done(e)) \cup {Swing(p, e.on, Heartbeat)}
    BY <1>1, <1>8, <2>1, Scheduling DEF OutOfReach, Schedule
  <2> QED BY <1>7, <1>8, <2>2 DEF OutOfReach, attacks, Swing
<1>9. CASE aim[p] = e.on /\ SwingNow(e)
  <2>1. Swing(p, e.on, SwingTime) \in Event /\ Hit(p, e.on) \in Event
    BY <1>2, TimesAssumption DEF Swing, Hit, Event, Delays
  <2>2. BagToSet(Done(e)) \cup {Swing(p, e.on, SwingTime)} \subseteq BagToSet(queue')
    BY <1>1, <1>9, <2>1, Scheduling DEF SwingNow
  <2>3. \A x \in Players : x # p => age'[x] = age[x]
    BY <1>9 DEF SwingNow, AttackInv, TypeOK, AttacksOK
  <2>4. PICK f : f = Swing(p, e.on, SwingTime)
    OBVIOUS
  <2>5. f.kind = "swing" /\ f.by = p /\ f.on = e.on
    BY <2>4 DEF Swing
  <2>6. UNCHANGED <<fighters, aim>>
    BY <1>9 DEF SwingNow
  <2> QED BY <1>7, <1>9, <2>2, <2>3, <2>4, <2>5, <2>6
<1> QED BY <1>5, <1>6, <1>8, <1>9 DEF NextAttackEvent

LEMMA StanceAttacks ==
  ASSUME AttackInv, NEW e \in BagToSet(queue), Due(e), CombatStanceTimeoutEvent(e)
  PROVE  AttackChainAlive' /\ SheathScheduled'
<1>1. BagToSet(queue) \ {e} \subseteq BagToSet(queue')
  BY Executing DEF CombatStanceTimeoutEvent, AttackInv, TypeOK
<1>2. e.kind = "stance" /\ e.in = 0 /\ UNCHANGED <<aim, age>>
  BY DEF CombatStanceTimeoutEvent, Due
<1>3. AttackChainAlive'
  BY <1>1, <1>2 DEF AttackInv, AttackChainAlive, Pending
<1>4. SheathScheduled'
  <2> SUFFICES ASSUME NEW x \in Players, Idle(x)'
               PROVE  \E g \in Pending("stance", x)' : g.in + age[x] >= StanceTimeout
    BY <1>2 DEF SheathScheduled
  <2>1. Idle(x) /\ (x = e.by => ~Expired(x))
    BY DEF CombatStanceTimeoutEvent, Idle
  <2>2. PICK g \in Pending("stance", x) : g.in + age[x] >= StanceTimeout
    BY <2>1 DEF AttackInv, SheathScheduled
  <2>3. g # e
    <3> SUFFICES ASSUME g = e PROVE FALSE
      OBVIOUS
    <3>1. x = e.by /\ ~(age[x] >= StanceTimeout)
      BY <2>1, <2>2 DEF Pending, Expired
    <3> QED BY <1>2, <2>2, <3>1 DEF AttackInv, TypeOK, AttacksOK
  <2>4. g \in Pending("stance", x)'
    BY <1>1, <2>2, <2>3 DEF Pending
  <2> QED BY <2>2, <2>4
<1> QED BY <1>3, <1>4

LEMMA ExecuteAttacks == AttackInv /\ ExecuteEvents => AttackChainAlive' /\ SheathScheduled'
<1> SUFFICES ASSUME AttackInv, NEW e \in BagToSet(queue), Execute(e)
             PROVE  AttackChainAlive' /\ SheathScheduled'
  BY DEF ExecuteEvents
<1>1. /\ IsQueue(Done(e)) /\ BagToSet(queue) \ {e} \subseteq BagToSet(Done(e))
      /\ e \in Event
  BY Executing DEF AttackInv, TypeOK, IsQueue
<1>2. ASSUME Calms(Done(e)), e.kind \notin {"swing", "stance"}
      PROVE  AttackChainAlive' /\ SheathScheduled'
  BY <1>1, <1>2, CalmKeepsChains, CalmKeepsSheaths DEF AttackInv
<1>3. CASE NextAttackEvent(e)
  BY <1>3, SwingAttacks
<1>4. CASE CombatStanceTimeoutEvent(e)
  BY <1>4, StanceAttacks DEF Execute
<1>5. CASE HitEvent(e)
  <2>1. e.by \in Players /\ e.kind = "hit"
    BY <1>1, <1>5 DEF HitEvent, Event
  <2>2. CASE queue' = Done(e) /\ UNCHANGED attacks
    BY <1>2, <2>1, <2>2, StandingStill
  <2>3. CASE \E d \in 1..MaxHp : e.on \in Players /\ StrikePlayer({e.by, e.on}, e.on, d, Done(e))
    BY <1>1, <1>2, <2>1, <2>3, StrikePlayerCalms DEF AttackInv
  <2>4. CASE \E d \in 1..MaxHp : e.on \in Npcs /\ StrikeNpc(e.by, e.on, d, 1, Done(e))
    BY <1>1, <1>2, <2>1, <2>4, StrikeNpcCalms DEF AttackInv
  <2> QED BY <1>5, <2>2, <2>3, <2>4 DEF HitEvent
<1>6. CASE NpcNextAttackEvent(e)
  <2>1. e.by \in Npcs /\ e.on \in Players /\ e.kind = "npcSwing"
    BY <1>1, <1>6 DEF NpcNextAttackEvent, Event
  <2>2. NpcSwing(e.by, e.on, SwingTime) \in Event /\ NpcHit(e.by, e.on) \in Event
    BY <2>1, TimesAssumption DEF NpcSwing, NpcHit, Event, Delays
  <2>3. BagToSet(Done(e)) \subseteq BagToSet(queue')
    <3>1. CASE queue' = Done(e)
      BY <3>1
    <3>2. CASE \E landing \in SUBSET {NpcHit(e.by, e.on)} :
                 queue' = ScheduleAll(Done(e), landing \cup {NpcSwing(e.by, e.on, SwingTime)})
      BY <1>1, <2>2, <3>2, Scheduling
    <3> QED BY <1>6, <3>1, <3>2 DEF NpcNextAttackEvent
  <2> QED BY <1>2, <1>6, <2>1, <2>3, StandingStill DEF NpcNextAttackEvent
<1>7. CASE NpcHitEvent(e)
  <2>1. e.on \in Players /\ e.kind = "npcHit"
    BY <1>1, <1>7 DEF NpcHitEvent, Event
  <2>2. CASE queue' = Done(e) /\ UNCHANGED attacks
    BY <1>2, <2>1, <2>2, StandingStill
  <2> QED BY <1>1, <1>2, <1>7, <2>1, <2>2, StrikePlayerCalms DEF NpcHitEvent, AttackInv
<1>8. CASE CorpseDecayEvent(e) \/ RespawnEvent(e)
  BY <1>2, <1>8, StandingStill DEF CorpseDecayEvent, RespawnEvent
<1> QED BY <1>3, <1>4, <1>5, <1>6, <1>7, <1>8 DEF Execute

LEMMA TickAttacks == AttackInv /\ Tick => AttackChainAlive' /\ SheathScheduled'
<1> SUFFICES ASSUME AttackInv, Tick PROVE AttackChainAlive' /\ SheathScheduled'
  OBVIOUS
<1>1. \A e \in BagToSet(queue) : e.in > 0 /\ Sooner(e) \in BagToSet(queue')
  BY Ticking DEF AttackInv, TypeOK
<1>2. \A e \in BagToSet(queue) :
        Sooner(e).kind = e.kind /\ Sooner(e).by = e.by /\ Sooner(e).on = e.on /\ Sooner(e).in = e.in - 1
  BY DEF Sooner, In
<1>3. UNCHANGED <<fighters, aim>>
  BY DEF Tick
<1>4. AttackChainAlive'
  BY <1>1, <1>2, <1>3 DEF AttackInv, AttackChainAlive, Pending
<1>5. SheathScheduled'
  <2> SUFFICES ASSUME NEW x \in Players, Idle(x)
               PROVE  \E g \in Pending("stance", x)' : g.in + age'[x] >= StanceTimeout
    BY <1>3 DEF SheathScheduled, Idle
  <2>1. PICK e \in Pending("stance", x) : e.in + age[x] >= StanceTimeout
    BY DEF AttackInv, SheathScheduled
  <2>2. Sooner(e) \in Pending("stance", x)'
    BY <1>1, <1>2, <2>1 DEF Pending
  <2>3. Sooner(e).in + age'[x] >= StanceTimeout
    <3>1. e.in \in Nat \ {0} /\ Sooner(e).in = e.in - 1
      BY <1>1, <1>2, <2>1 DEF Pending, AttackInv, TypeOK, IsQueue, Event
    <3>2. age'[x] = IF age[x] < StanceTimeout THEN age[x] + 1 ELSE StanceTimeout
      BY DEF Tick
    <3>3. age[x] \in 0..StanceTimeout /\ StanceTimeout \in Nat
      BY TimesAssumption DEF AttackInv, TypeOK, AttacksOK, Delays
    <3> QED BY <2>1, <3>1, <3>2, <3>3
  <2> QED BY <2>2, <2>3
<1> QED BY <1>4, <1>5

LEMMA AttackInvariant == Spec => []AttackInv
<1>1. Init /\ TypeOK => AttackInv
  BY DEF Init, AttackInv, AttackChainAlive, SheathScheduled, Idle
<1>2. AttackInv /\ TypeOK' /\ [Next]_vars => AttackInv'
  <2>1. AttackInv /\ UNCHANGED vars => AttackChainAlive' /\ SheathScheduled'
    BY DEF AttackInv, vars, attacks, AttackChainAlive, SheathScheduled, Idle, Pending
  <2> QED BY <2>1, CommandAttacks, ConnectionAttacks, ExecuteAttacks, TickAttacks
          DEF Next, AttackInv
<1> QED BY <1>1, <1>2, TypeCorrect, PTL DEF Spec

(* No attack waits for a swing nobody scheduled: however commands, deaths,
   disconnects and timers interleave, an auto-attacking player has a swing at
   its target pending. *)
THEOREM AttacksStayAlive == Spec => []AttackChainAlive
BY AttackInvariant, PTL DEF AttackInv

(* A stopped attacker always has a stance timeout to come that will take
   effect. *)
THEOREM SheathsAreScheduled == Spec => []SheathScheduled
BY AttackInvariant, PTL DEF AttackInv

-----------------------------------------------------------------------------
(* The population of NPCs: who lives, fights and comes back. *)

(* A corpse that is about to vanish is not alive: what makes a decay that was
   queued twice harmless. *)
DecaysDead == \A e \in BagToSet(queue) : e.kind = "decay" => npcs[e.by] # "alive"

MobInv == TypeOK /\ NobodyFightsCorpses /\ DecaysDead /\ NpcChainAlive /\ PopulationConserved

MobKinds == {"npcSwing", "decay", "respawn"}

(* The queue q has the events of NPCs that the queue has. *)
SameMobEvents(q) ==
  /\ IsQueue(q)
  /\ \A e \in Event : e.kind \in MobKinds => (e \in BagToSet(q) <=> e \in BagToSet(queue))

(* Most steps: no NPC dies, decays, respawns or turns on anybody, no corpse is
   attacked, and no event of an NPC comes or goes. *)
Bystands ==
  /\ UNCHANGED <<npcs, spawnInfo>>
  /\ \A n \in Npcs : npcAim'[n] \in {npcAim[n], NoOne}
  /\ \A p \in Players : aim'[p] = aim[p] \/ (aim'[p] \in Npcs => npcs[aim'[p]] = "alive")
  /\ \A e \in Event : e.kind \in MobKinds => (e \in BagToSet(queue') <=> e \in BagToSet(queue))

LEMMA Bystanding == MobInv /\ TypeOK' /\ Bystands => MobInv'
<1> SUFFICES ASSUME MobInv, TypeOK', Bystands PROVE MobInv'
  OBVIOUS
<1>1. BagToSet(queue) \subseteq Event /\ BagToSet(queue') \subseteq Event
  BY DEF MobInv, TypeOK, IsQueue
<1>2. \A n \in Npcs, k \in MobKinds : Pending(k, n)' = Pending(k, n)
  BY <1>1 DEF Bystands, Pending
<1>3. NobodyFightsCorpses'
  <2>1. \A n \in Npcs : npcAim'[n] # NoOne => npcs'[n] = "alive"
    BY DEF MobInv, NobodyFightsCorpses, Bystands
  <2>2. \A p \in Players : aim'[p] \in Npcs => npcs'[aim'[p]] = "alive"
    BY DEF MobInv, NobodyFightsCorpses, Bystands
  <2> QED BY <2>1, <2>2 DEF NobodyFightsCorpses
<1>4. DecaysDead'
  BY <1>1 DEF MobInv, DecaysDead, Bystands, MobKinds
<1>5. NpcChainAlive'
  BY <1>2 DEF MobInv, NpcChainAlive, Bystands, MobKinds
<1>6. PopulationConserved'
  BY <1>2 DEF MobInv, PopulationConserved, Bystands, MobKinds
<1> QED BY <1>3, <1>4, <1>5, <1>6 DEF MobInv

(* Executing an event that is not an NPC's removes none of theirs. *)
LEMMA DoneKeepsMobEvents ==
  ASSUME TypeOK, NEW e \in BagToSet(queue), e.kind \notin MobKinds
  PROVE  SameMobEvents(Done(e))
  BY Executing DEF SameMobEvents, TypeOK

(* Neither does scheduling events of other kinds. *)
LEMMA SchedulingKeepsMobEvents ==
  ASSUME NEW q, SameMobEvents(q), NEW E \in SUBSET Event,
         \A e \in E : e.kind \notin MobKinds
  PROVE  SameMobEvents(ScheduleAll(q, E))
  BY Scheduling DEF SameMobEvents

LEMMA StoppingBystands ==
  ASSUME TypeOK, NEW S \in SUBSET Players, NEW q, SameMobEvents(q), StopAttackers(S, q)
  PROVE  /\ \A p \in Players : aim'[p] \in {aim[p], NoOne}
         /\ SameMobEvents(queue')
<1>1. {Stance(p) : p \in S \cap fighters} \in SUBSET Event
  BY TimesAssumption DEF Stance, Event, Delays
<1>2. \A e \in {Stance(p) : p \in S \cap fighters} : e.kind \notin MobKinds
  BY DEF Stance, MobKinds
<1>3. SameMobEvents(queue')
  BY <1>1, <1>2, SchedulingKeepsMobEvents DEF StopAttackers
<1> QED BY <1>3 DEF StopAttackers

LEMMA StrikePlayerBystands ==
  ASSUME TypeOK, NEW S, NEW v \in Players, NEW d, NEW q, SameMobEvents(q),
         StrikePlayer(S, v, d, q)
  PROVE  Bystands
<1>1. NoOne \notin Npcs
  BY ObjectsAssumption
<1>2. npcs' = npcs /\ spawnInfo' = spawnInfo
  BY DEF StrikePlayer
<1>3. CASE queue' = q /\ UNCHANGED <<attacks, npcAim>>
  BY <1>2, <1>3 DEF Bystands, SameMobEvents, attacks
<1>4. CASE npcAim' = NpcAimsWithout(v) /\ StopAttackers({v}, q)
  BY <1>1, <1>2, <1>4, StoppingBystands DEF Bystands, SameMobEvents, NpcAimsWithout
<1> QED BY <1>3, <1>4 DEF StrikePlayer

(* A blow to an NPC starts a swing at the most hated attacker unless the NPC is
   at it already; one that kills it ends every attack by it and on it and leaves
   a decay and a respawn. *)
NpcStruck(n, q, top, started) ==
  /\ IsQueue(started) /\ BagToSet(q) \subseteq BagToSet(started)
  /\ \A e \in BagToSet(started) \ BagToSet(q) : e.kind = "npcSwing"
  /\ \/ npcAim[n] = top
     \/ \E e \in BagToSet(started) : e.kind = "npcSwing" /\ e.by = n /\ e.on = top
  /\ spawnInfo' = spawnInfo
  /\ \/ /\ npcs' = npcs /\ aim' = aim
        /\ npcAim' = [npcAim EXCEPT ![n] = top]
        /\ queue' = started
     \/ /\ npcs' = [npcs EXCEPT ![n] = "dead"]
        /\ npcAim' = [npcAim EXCEPT ![n] = NoOne]
        /\ aim' = [x \in Players |-> IF aim[x] = n THEN NoOne ELSE aim[x]]
        /\ BagToSet(started) \cup DeathEvents(n) \subseteq BagToSet(queue')
        /\ \A e \in BagToSet(queue') \ BagToSet(started) :
             e \in DeathEvents(n) \/ e.kind = "stance"

LEMMA StrikeNpcOutcome ==
  ASSUME TypeOK, NEW p \in Players, NEW n \in Npcs, NEW d \in 1..MaxHp, NEW kills, NEW q,
         IsQueue(q), StrikeNpc(p, n, d, kills, q)
  PROVE  \E top \in Players : \E started : NpcStruck(n, q, top, started)
<1>1. PICK top \in Players, delay \in {1, Heartbeat} :
        \/ /\ npcAim' = [npcAim EXCEPT ![n] = top]
           /\ queue' = Provoked(n, top, delay, q)
           /\ UNCHANGED <<npcs, attacks>>
        \/ /\ npcs' = [npcs EXCEPT ![n] = "dead"]
           /\ npcAim' = [npcAim EXCEPT ![n] = NoOne]
           /\ \/ StopAttackers(AttackersOf(n),
                   ScheduleAll(ScheduleAll(Provoked(n, top, delay, q), DeathEvents(n)), DeathEvents(n)))
              \/ StopAttackers(AttackersOf(n),
                   ScheduleAll(Provoked(n, top, delay, q), DeathEvents(n)))
  BY DEF StrikeNpc, MostHated
<1>2. PICK started : started = Provoked(n, top, delay, q)
  OBVIOUS
<1>3. NpcSwing(n, top, delay) \in Event
  BY TimesAssumption DEF NpcSwing, Event, Delays
<1>4. /\ IsQueue(started) /\ BagToSet(q) \subseteq BagToSet(started)
      /\ \A e \in BagToSet(started) \ BagToSet(q) : e.kind = "npcSwing"
      /\ \/ npcAim[n] = top
         \/ \E e \in BagToSet(started) : e.kind = "npcSwing" /\ e.by = n /\ e.on = top
  <2>1. CASE npcAim[n] = top
    BY <1>2, <2>1 DEF Provoked
  <2>2. CASE npcAim[n] # top
    <3>1. IsQueue(started) /\ BagToSet(started) = BagToSet(q) \cup {NpcSwing(n, top, delay)}
      BY <1>2, <1>3, <2>2, Scheduling DEF Provoked, Schedule
    <3>2. LET e == NpcSwing(n, top, delay) IN e.kind = "npcSwing" /\ e.by = n /\ e.on = top
      BY DEF NpcSwing
    <3> QED BY <3>1, <3>2
  <2> QED BY <2>1, <2>2
<1>5. spawnInfo' = spawnInfo
  BY DEF StrikeNpc
<1>6. CASE /\ npcAim' = [npcAim EXCEPT ![n] = top]
           /\ queue' = Provoked(n, top, delay, q)
           /\ UNCHANGED <<npcs, attacks>>
  BY <1>2, <1>4, <1>5, <1>6 DEF attacks, NpcStruck
<1>7. CASE /\ npcs' = [npcs EXCEPT ![n] = "dead"]
           /\ npcAim' = [npcAim EXCEPT ![n] = NoOne]
           /\ \/ StopAttackers(AttackersOf(n),
                   ScheduleAll(ScheduleAll(started, DeathEvents(n)), DeathEvents(n)))
              \/ StopAttackers(AttackersOf(n), ScheduleAll(started, DeathEvents(n)))
  <2>1. DeathEvents(n) \subseteq Event
    BY TimesAssumption DEF DeathEvents, Decay, Respawn, Event, Delays
  <2>2. LET died == ScheduleAll(started, DeathEvents(n))
        IN  /\ IsQueue(died)
            /\ BagToSet(died) = BagToSet(started) \cup DeathEvents(n)
            /\ IsQueue(ScheduleAll(died, DeathEvents(n)))
            /\ BagToSet(ScheduleAll(died, DeathEvents(n))) = BagToSet(started) \cup DeathEvents(n)
    BY <1>4, <2>1, Scheduling
  <2>3. PICK died : /\ IsQueue(died)
                    /\ BagToSet(died) = BagToSet(started) \cup DeathEvents(n)
                    /\ StopAttackers(AttackersOf(n), died)
    BY <1>7, <2>2
  <2> DEFINE stances == {Stance(x) : x \in AttackersOf(n) \cap fighters}
  <2>4. stances \subseteq Event /\ \A e \in stances : e.kind = "stance"
    BY TimesAssumption DEF Stance, Event, Delays, AttackersOf
  <2>5. BagToSet(queue') = BagToSet(died) \cup stances
    BY <2>3, <2>4, Scheduling DEF StopAttackers
  <2>6. aim' = [x \in Players |-> IF aim[x] = n THEN NoOne ELSE aim[x]]
    BY <2>3 DEF StopAttackers, AttackersOf
  <2>7. /\ BagToSet(started) \cup DeathEvents(n) \subseteq BagToSet(queue')
        /\ \A e \in BagToSet(queue') \ BagToSet(started) : e \in DeathEvents(n) \/ e.kind = "stance"
    BY <2>3, <2>4, <2>5
  <2> QED BY <1>4, <1>5, <1>7, <2>6, <2>7 DEF NpcStruck
<1> QED BY <1>1, <1>2, <1>6, <1>7

LEMMA StrikeNpcMobs ==
  ASSUME MobInv, TypeOK', NEW p \in Players, NEW n \in Npcs, NEW d \in 1..MaxHp, NEW kills,
         NEW q, SameMobEvents(q), npcs[n] = "alive", StrikeNpc(p, n, d, kills, q)
  PROVE  MobInv'
<1>0. PICK top \in Players : \E started : NpcStruck(n, q, top, started)
  BY StrikeNpcOutcome DEF MobInv, SameMobEvents
<1>1. PICK started : NpcStruck(n, q, top, started)
  BY <1>0
<1> USE <1>1 DEF NpcStruck
<1>2. /\ npcs \in [Npcs -> {"alive", "dead", "absent"}] /\ npcAim \in [Npcs -> Players \cup {NoOne}]
      /\ aim \in [Players -> Objects \cup {NoOne}] /\ NoOne \notin Npcs
      /\ BagToSet(queue) \subseteq Event /\ BagToSet(started) \subseteq Event /\ BagToSet(q) \subseteq Event
  BY <1>1, ObjectsAssumption DEF MobInv, TypeOK, MobsOK, AttacksOK, IsQueue, SameMobEvents
\* The events of NPCs on the way to started and to the next queue.
<1>3. \A e \in BagToSet(queue) : e.kind \in MobKinds => e \in BagToSet(started)
  BY <1>1, <1>2 DEF SameMobEvents
<1>4. \A e \in BagToSet(started) : e.kind \in {"decay", "respawn"} => e \in BagToSet(queue)
  BY <1>1, <1>2 DEF SameMobEvents, MobKinds
<1>5. BagToSet(started) \subseteq BagToSet(queue')
  BY <1>1
<1>6. \A e \in DeathEvents(n) : e.by = n /\ e.kind \in {"decay", "respawn"}
  BY DEF DeathEvents, Decay, Respawn
<1>7. \A e \in BagToSet(queue') : e.kind \in {"decay", "respawn"} =>
        \/ e \in BagToSet(queue)
        \/ npcs' = [npcs EXCEPT ![n] = "dead"] /\ e.by = n
  BY <1>1, <1>4, <1>6
<1>8. NobodyFightsCorpses'
  <2>1. \A m \in Npcs : npcAim'[m] # NoOne => npcs'[m] = "alive"
    BY <1>1, <1>2 DEF MobInv, NobodyFightsCorpses
  <2>2. \A x \in Players : aim'[x] \in Npcs => npcs'[aim'[x]] = "alive"
    BY <1>1, <1>2 DEF MobInv, NobodyFightsCorpses
  <2> QED BY <2>1, <2>2 DEF NobodyFightsCorpses
<1>9. DecaysDead'
  <2> SUFFICES ASSUME NEW e \in BagToSet(queue'), e.kind = "decay" PROVE npcs'[e.by] # "alive"
    BY DEF DecaysDead
  <2>1. CASE e \in BagToSet(queue)
    <3>1. e.by \in Npcs /\ npcs[e.by] # "alive"
      BY <1>2, <2>1 DEF MobInv, DecaysDead, Event
    <3> QED BY <1>1, <1>2, <3>1
  <2>2. CASE npcs' = [npcs EXCEPT ![n] = "dead"] /\ e.by = n
    BY <1>2, <2>2
  <2> QED BY <1>7, <2>1, <2>2
<1>10. NpcChainAlive'
  <2> SUFFICES ASSUME NEW m \in Npcs, npcAim'[m] # NoOne
               PROVE  \E e \in Pending("npcSwing", m)' : e.on = npcAim'[m]
    BY DEF NpcChainAlive
  <2>1. CASE npcAim'[m] = npcAim[m]
    <3>1. PICK e \in Pending("npcSwing", m) : e.on = npcAim[m]
      BY <2>1 DEF MobInv, NpcChainAlive
    <3>2. e \in Pending("npcSwing", m)'
      BY <1>3, <1>5, <3>1 DEF Pending, MobKinds
    <3> QED BY <2>1, <3>1, <3>2
  <2>2. CASE npcAim'[m] # npcAim[m]
    <3>1. m = n /\ npcAim'[m] = top
      BY <1>1, <1>2, <2>2
    <3>2. PICK e \in BagToSet(started) : e.kind = "npcSwing" /\ e.by = n /\ e.on = top
      BY <1>1, <2>2, <3>1
    <3> QED BY <1>5, <3>1, <3>2 DEF Pending
  <2> QED BY <2>1, <2>2
<1>11. PopulationConserved'
  <2>1. Cardinality(spawnInfo') = Cardinality(Spawned)
    BY <1>1 DEF MobInv, PopulationConserved
  <2>2. ASSUME NEW m \in Npcs
        PROVE  /\ npcs'[m] = "alive" => m \in spawnInfo'
               /\ m \in spawnInfo' => (npcs'[m] = "alive" <=> Pending("respawn", m)' = {})
    <3>1. CASE npcs'[m] = npcs[m] /\ Pending("respawn", m)' = Pending("respawn", m)
      BY <1>1, <3>1 DEF MobInv, PopulationConserved
    <3>2. CASE npcs' = [npcs EXCEPT ![n] = "dead"] /\ m = n
      <4>1. Respawn(n) \in BagToSet(queue')
        <5>1. npcs' # npcs
          BY <1>2, <3>2
        <5> QED BY <1>1, <5>1 DEF DeathEvents
      <4>2. Respawn(n) \in Pending("respawn", m)'
        BY <3>2, <4>1 DEF Pending, Respawn
      <4>3. npcs'[m] = "dead"
        BY <1>2, <3>2
      <4> QED BY <4>2, <4>3
    <3>3. CASE npcs' = npcs \/ m # n
      <4>1. npcs'[m] = npcs[m]
        BY <1>1, <1>2, <3>3
      <4>2. \A e \in BagToSet(queue') : e.kind = "respawn" /\ e.by = m => e \in BagToSet(queue)
        BY <1>1, <1>2, <1>7, <3>3
      <4>3. Pending("respawn", m)' = Pending("respawn", m)
        BY <1>3, <1>5, <4>2 DEF Pending, MobKinds
      <4> QED BY <3>1, <4>1, <4>3
    <3> QED BY <1>1, <3>2, <3>3
  <2> QED BY <2>1, <2>2 DEF PopulationConserved
<1> QED BY <1>8, <1>9, <1>10, <1>11 DEF MobInv

LEMMA CommandMobs == MobInv /\ TypeOK' /\ Command => MobInv'
<1> SUFFICES ASSUME MobInv, TypeOK', Command PROVE MobInv'
  OBVIOUS
<1>1. TypeOK /\ SameMobEvents(queue) /\ NoOne \notin Npcs
  BY ObjectsAssumption DEF MobInv, TypeOK, SameMobEvents
<1>2. ASSUME NEW p \in Players, NEW t \in Objects, AttackRequest(p, t) PROVE Bystands
  <2>1. Swing(p, t, 1) \in Event /\ Swing(p, t, 1).kind \notin MobKinds
    BY DEF Swing, Event, MobKinds
  <2>2. SameMobEvents(queue')
    BY <1>1, <1>2, <2>1, SchedulingKeepsMobEvents DEF AttackRequest, Schedule
  <2>3. \A x \in Players : aim'[x] = IF x = p THEN t ELSE aim[x]
    BY <1>1, <1>2 DEF AttackRequest, TypeOK, AttacksOK
  <2>4. t \in Npcs => npcs[t] = "alive"
    BY <1>2, ObjectsAssumption DEF AttackRequest, TargetAlive
  <2> QED BY <1>2, <2>2, <2>3, <2>4 DEF AttackRequest, mobs, Bystands, SameMobEvents
<1>3. ASSUME NEW p \in Players,
             CancelAttack(p) \/ AbandonAttack(p) \/ Revive(p) \/ HandlePlayerDisconnected(p)
      PROVE  Bystands
  <2>1. StopAttackers({p}, queue)
    BY <1>3 DEF CancelAttack, AbandonAttack, Revive, HandlePlayerDisconnected
  <2>2. (\A x \in Players : aim'[x] \in {aim[x], NoOne}) /\ SameMobEvents(queue')
    BY <1>1, <2>1, StoppingBystands
  <2>3. npcs' = npcs /\ spawnInfo' = spawnInfo /\ (npcAim' = npcAim \/ npcAim' = NpcAimsWithout(p))
    BY <1>3 DEF CancelAttack, AbandonAttack, Revive, HandlePlayerDisconnected, mobs
  <2> QED BY <1>1, <2>2, <2>3 DEF Bystands, SameMobEvents, NpcAimsWithout
<1>4. ASSUME NEW p \in Players, Regen(p) PROVE Bystands
  BY <1>4 DEF Regen, attacks, mobs, Bystands
<1>5. ASSUME NEW p \in Players, NEW v \in Players, NEW d \in 1..MaxHp, CastOnPlayer(p, v, d)
      PROVE  Bystands
  BY <1>1, <1>5, StrikePlayerBystands DEF CastOnPlayer
<1>6. ASSUME NEW p \in Players, NEW n \in Npcs, NEW d \in 1..MaxHp, NEW kinds \in 1..2,
             CastOnNpc(p, n, d, kinds)
      PROVE  MobInv'
  BY <1>1, <1>6, StrikeNpcMobs DEF CastOnNpc
<1> QED BY <1>2, <1>3, <1>4, <1>5, <1>6, Bystanding DEF Command

LEMMA ConnectionMobs == MobInv /\ TypeOK' /\ Connection => MobInv'
<1> SUFFICES ASSUME MobInv, TypeOK', Connection PROVE MobInv'
  OBVIOUS
<1>1. Bystands
  BY DEF Connection, EnterWorld, SendDisconnected, RemovePlayer, RestartRefused, attacks, mobs, Bystands
<1> QED BY <1>1, Bystanding

(* An NPC that goes on attacking has scheduled its next swing; one that stops
   needs none. *)
LEMMA NpcSwingMobs ==
  ASSUME MobInv, TypeOK', NEW e \in BagToSet(queue), NpcNextAttackEvent(e)
  PROVE  MobInv'
<1>1. /\ e.by \in Npcs /\ e.on \in Players /\ e.kind = "npcSwing"
      /\ IsQueue(Done(e)) /\ BagToSet(queue) \ {e} \subseteq BagToSet(Done(e))
      /\ BagToSet(Done(e)) \subseteq BagToSet(queue)
      /\ npcAim \in [Npcs -> Players \cup {NoOne}]
  BY Executing DEF NpcNextAttackEvent, MobInv, TypeOK, MobsOK, IsQueue, Event
<1>2. /\ BagToSet(Done(e)) \subseteq BagToSet(queue')
      /\ \A f \in BagToSet(queue') \ BagToSet(Done(e)) : f.kind \in {"npcSwing", "npcHit"}
      /\ \/ npcAim[e.by] # e.on /\ npcAim' = npcAim
         \/ npcAim' = [npcAim EXCEPT ![e.by] = NoOne]
         \/ /\ npcAim' = npcAim
            /\ \E f \in BagToSet(queue') : f.kind = "npcSwing" /\ f.by = e.by /\ f.on = e.on
  <2>1. CASE queue' = Done(e) /\ npcAim[e.by] # e.on /\ npcAim' = npcAim
    BY <2>1
  <2>2. CASE queue' = Done(e) /\ npcAim' = [npcAim EXCEPT ![e.by] = NoOne]
    BY <2>2
  <2>3. ASSUME NEW landing \in SUBSET {NpcHit(e.by, e.on)}, npcAim' = npcAim,
               queue' = ScheduleAll(Done(e), landing \cup {NpcSwing(e.by, e.on, SwingTime)})
        PROVE  /\ BagToSet(Done(e)) \subseteq BagToSet(queue')
               /\ \A f \in BagToSet(queue') \ BagToSet(Done(e)) : f.kind \in {"npcSwing", "npcHit"}
               /\ \E f \in BagToSet(queue') : f.kind = "npcSwing" /\ f.by = e.by /\ f.on = e.on
    <3>1. NpcSwing(e.by, e.on, SwingTime) \in Event /\ NpcHit(e.by, e.on) \in Event
      BY <1>1, TimesAssumption DEF NpcSwing, NpcHit, Event, Delays
    <3>2. BagToSet(queue') = BagToSet(Done(e)) \cup landing \cup {NpcSwing(e.by, e.on, SwingTime)}
      BY <1>1, <2>3, <3>1, Scheduling
    <3>3. NpcSwing(e.by, e.on, SwingTime).kind = "npcSwing" /\ NpcHit(e.by, e.on).kind = "npcHit"
      BY DEF NpcSwing, NpcHit
    <3>4. NpcSwing(e.by, e.on, SwingTime).by = e.by /\ NpcSwing(e.by, e.on, SwingTime).on = e.on
      BY DEF NpcSwing
    <3> QED BY <3>2, <3>3, <3>4
  <2> QED BY <2>1, <2>2, <2>3 DEF NpcNextAttackEvent
<1>3. UNCHANGED <<npcs, spawnInfo, aim>>
  BY DEF NpcNextAttackEvent, attacks
<1>4. \A f : f.kind \in {"decay", "respawn"} => (f \in BagToSet(queue') <=> f \in BagToSet(queue))
  BY <1>1, <1>2
<1>5. NobodyFightsCorpses' /\ DecaysDead' /\ PopulationConserved'
  <2>1. NobodyFightsCorpses'
    BY <1>1, <1>2, <1>3 DEF MobInv, NobodyFightsCorpses
  <2>2. \A n \in Npcs : Pending("respawn", n)' = Pending("respawn", n)
    BY <1>4 DEF Pending
  <2>3. DecaysDead'
    BY <1>3, <1>4 DEF MobInv, DecaysDead
  <2>4. PopulationConserved'
    BY <1>3, <2>2 DEF MobInv, PopulationConserved
  <2> QED BY <2>1, <2>3, <2>4
<1>6. NpcChainAlive'
  <2> SUFFICES ASSUME NEW m \in Npcs, npcAim'[m] # NoOne
               PROVE  \E f \in Pending("npcSwing", m)' : f.on = npcAim'[m]
    BY DEF NpcChainAlive
  <2>1. PICK f \in Pending("npcSwing", m) : f.on = npcAim[m] /\ npcAim'[m] = npcAim[m]
    BY <1>1, <1>2 DEF MobInv, NpcChainAlive
  <2>2. CASE f # e
    BY <1>1, <1>2, <2>1, <2>2 DEF Pending
  <2>3. CASE f = e
    BY <1>1, <1>2, <2>1, <2>3 DEF Pending
  <2> QED BY <2>2, <2>3
<1> QED BY <1>5, <1>6 DEF MobInv

(* A corpse vanishes. It fights nobody, and its respawn stays queued. *)
LEMMA DecayMobs ==
  ASSUME MobInv, TypeOK', NEW e \in BagToSet(queue), CorpseDecayEvent(e)
  PROVE  MobInv'
<1>1. /\ e.by \in Npcs /\ e.kind = "decay" /\ npcs[e.by] # "alive"
      /\ BagToSet(queue) \ {e} \subseteq BagToSet(queue') /\ BagToSet(queue') \subseteq BagToSet(queue)
      /\ npcs' = [npcs EXCEPT ![e.by] = "absent"] /\ UNCHANGED <<aim, npcAim, spawnInfo>>
  BY Executing DEF CorpseDecayEvent, attacks, MobInv, DecaysDead, TypeOK, IsQueue, Event
<1>2. npcs \in [Npcs -> {"alive", "dead", "absent"}] /\ BagToSet(queue) \subseteq Event
  BY DEF MobInv, TypeOK, MobsOK, IsQueue
<1>3. \A n \in Npcs : npcs'[n] = "alive" <=> npcs[n] = "alive"
  BY <1>1, <1>2
<1>4. \A n \in Npcs, k \in {"npcSwing", "respawn"} : Pending(k, n)' = Pending(k, n)
  BY <1>1 DEF Pending
<1>5. NobodyFightsCorpses'
  BY <1>1, <1>3 DEF MobInv, NobodyFightsCorpses
<1>6. DecaysDead'
  <2> SUFFICES ASSUME NEW f \in BagToSet(queue'), f.kind = "decay" PROVE npcs'[f.by] # "alive"
    BY DEF DecaysDead
  <2>1. f.by \in Npcs /\ npcs[f.by] # "alive"
    BY <1>1, <1>2 DEF MobInv, DecaysDead, Event
  <2> QED BY <1>3, <2>1
<1>7. NpcChainAlive'
  BY <1>1, <1>4 DEF MobInv, NpcChainAlive
<1>8. PopulationConserved'
  BY <1>1, <1>3, <1>4 DEF MobInv, PopulationConserved
<1> QED BY <1>5, <1>6, <1>7, <1>8 DEF MobInv

(* The spawn of a dead NPC moves to the new one, whose id nothing refers to. *)
LEMMA RespawnMobs ==
  ASSUME MobInv, TypeOK', NEW e \in BagToSet(queue), RespawnEvent(e)
  PROVE  MobInv'
<1>1. /\ e.by \in Npcs /\ e.kind = "respawn"
      /\ BagToSet(queue) \ {e} \subseteq BagToSet(queue') /\ BagToSet(queue') \subseteq BagToSet(queue)
      /\ UNCHANGED <<aim, npcAim>>
  BY Executing DEF RespawnEvent, attacks, MobInv, TypeOK, IsQueue, Event
<1>2. /\ npcs \in [Npcs -> {"alive", "dead", "absent"}] /\ BagToSet(queue) \subseteq Event
      /\ spawnInfo \in SUBSET Npcs /\ IsFiniteSet(Npcs)
  BY ObjectsAssumption DEF MobInv, TypeOK, MobsOK, IsQueue
<1>3. \A n \in Npcs : Pending("npcSwing", n)' = Pending("npcSwing", n)
  BY <1>1 DEF Pending
<1>4. \A n \in Npcs : n # e.by => Pending("respawn", n)' = Pending("respawn", n)
  BY <1>1 DEF Pending
<1>5. CASE e.by \notin spawnInfo /\ UNCHANGED <<npcs, spawnInfo>>
  <2>1. NobodyFightsCorpses' /\ DecaysDead'
    BY <1>1, <1>5 DEF MobInv, NobodyFightsCorpses, DecaysDead
  <2>2. NpcChainAlive'
    BY <1>1, <1>3 DEF MobInv, NpcChainAlive
  <2>3. PopulationConserved'
    BY <1>4, <1>5 DEF MobInv, PopulationConserved
  <2> QED BY <2>1, <2>2, <2>3 DEF MobInv
<1>6. ASSUME NEW n \in Npcs, e.by \in spawnInfo, Forgotten(n),
             npcs' = [npcs EXCEPT ![n] = "alive"], spawnInfo' = SpawnInfoMoved(e.by, n)
      PROVE  MobInv'
  <2>1. n # e.by /\ n \notin spawnInfo /\ Pending("respawn", n) = {} /\ npcs[n] = "absent"
    BY <1>6 DEF Forgotten, Pending
  <2>2. \A m \in Npcs : npcs'[m] = IF m = n THEN "alive" ELSE npcs[m]
    BY <1>2, <1>6
  <2>3. NobodyFightsCorpses'
    BY <1>1, <2>2 DEF MobInv, NobodyFightsCorpses
  <2>4. DecaysDead'
    <3> SUFFICES ASSUME NEW f \in BagToSet(queue'), f.kind = "decay" PROVE npcs'[f.by] # "alive"
      BY DEF DecaysDead
    <3>1. f.by \in Npcs /\ f.by # n /\ npcs[f.by] # "alive"
      BY <1>1, <1>2, <1>6 DEF MobInv, DecaysDead, Event, Forgotten
    <3> QED BY <2>2, <3>1
  <2>5. NpcChainAlive'
    BY <1>1, <1>3 DEF MobInv, NpcChainAlive
  <2>6. Cardinality(spawnInfo') = Cardinality(spawnInfo)
    <3>1. IsFiniteSet(spawnInfo) /\ IsFiniteSet(spawnInfo \ {e.by})
      BY <1>2, FS_Subset
    <3>2. Cardinality(spawnInfo \ {e.by}) = Cardinality(spawnInfo) - 1
      BY <1>6, <3>1, FS_RemoveElement
    <3>3. Cardinality(spawnInfo') = Cardinality(spawnInfo \ {e.by}) + 1
      BY <1>6, <2>1, <3>1, FS_AddElement DEF SpawnInfoMoved
    <3> QED BY <3>1, <3>2, <3>3, FS_CardinalityType
  <2>7. PopulationConserved'
    <3> SUFFICES ASSUME NEW m \in Npcs
                 PROVE  /\ npcs'[m] = "alive" => m \in spawnInfo'
                        /\ m \in spawnInfo' => (npcs'[m] = "alive" <=> Pending("respawn", m)' = {})
      BY <2>6 DEF MobInv, PopulationConserved
    <3>1. CASE m = n
      BY <1>4, <1>6, <2>1, <2>2, <3>1 DEF SpawnInfoMoved
    <3>2. CASE m = e.by
      \* An NPC with a respawn pending and a spawn of its own is not alive.
      <4>1. npcs[m] # "alive"
        BY <1>1, <1>6, <3>2 DEF MobInv, PopulationConserved, Pending
      <4> QED BY <1>6, <2>1, <2>2, <3>2, <4>1 DEF SpawnInfoMoved
    <3>3. CASE m # n /\ m # e.by
      BY <1>4, <1>6, <2>2, <3>3 DEF MobInv, PopulationConserved, SpawnInfoMoved
    <3> QED BY <3>1, <3>2, <3>3
  <2> QED BY <2>3, <2>4, <2>5, <2>7 DEF MobInv
<1> QED BY <1>5, <1>6 DEF RespawnEvent

LEMMA ExecuteMobs == MobInv /\ TypeOK' /\ ExecuteEvents => MobInv'
<1> SUFFICES ASSUME MobInv, TypeOK', NEW e \in BagToSet(queue), Execute(e) PROVE MobInv'
  BY DEF ExecuteEvents
<1>1. TypeOK /\ e \in Event /\ NoOne \notin Npcs
  BY ObjectsAssumption DEF MobInv, TypeOK, IsQueue
<1>2. e.kind \notin MobKinds => SameMobEvents(Done(e))
  BY <1>1, DoneKeepsMobEvents
<1>3. CASE NextAttackEvent(e)
  <2>1. /\ e.kind = "swing" /\ e.by \in Players /\ e.on \in Objects /\ SameMobEvents(Done(e))
        /\ UNCHANGED <<npcs, npcAim, spawnInfo>>
    BY <1>1, <1>2, <1>3 DEF NextAttackEvent, mobs, Event, MobKinds
  <2>2. CASE queue' = Done(e) /\ UNCHANGED attacks
    BY <2>1, <2>2, Bystanding DEF Bystands, SameMobEvents, attacks
  <2>3. CASE StopAttackers({e.by}, Done(e))
    BY <1>1, <2>1, <2>3, StoppingBystands, Bystanding DEF Bystands, SameMobEvents
  <2>4. ASSUME NEW E \in SUBSET Event, \A f \in E : f.kind \notin MobKinds,
               queue' = ScheduleAll(Done(e), E), UNCHANGED aim
        PROVE  MobInv'
    BY <2>1, <2>4, SchedulingKeepsMobEvents, Bystanding DEF Bystands, SameMobEvents
  <2>5. \A d \in Delays : /\ Swing(e.by, e.on, d) \in Event /\ Swing(e.by, e.on, d).kind \notin MobKinds
                          /\ Hit(e.by, e.on) \in Event /\ Hit(e.by, e.on).kind \notin MobKinds
    BY <2>1, TimesAssumption DEF Swing, Hit, Event, Delays, MobKinds
  <2>6. CASE OutOfReach(e)
    <3>1. queue' = ScheduleAll(Done(e), {Swing(e.by, e.on, Heartbeat)}) /\ UNCHANGED aim
      BY <2>6 DEF OutOfReach, Schedule, attacks
    <3>2. {Swing(e.by, e.on, Heartbeat)} \in SUBSET Event
      BY <2>5 DEF Delays
    <3>3. \A f \in {Swing(e.by, e.on, Heartbeat)} : f.kind \notin MobKinds
      BY <2>5 DEF Delays
    <3> QED BY <2>4, <3>1, <3>2, <3>3
  <2>7. CASE SwingNow(e)
    <3>1. PICK landing \in SUBSET {Hit(e.by, e.on)} :
            queue' = ScheduleAll(Done(e), landing \cup {Swing(e.by, e.on, SwingTime)})
      BY <2>7 DEF SwingNow
    <3>2. landing \cup {Swing(e.by, e.on, SwingTime)} \in SUBSET Event
      BY <2>5 DEF Delays
    <3>3. \A f \in landing \cup {Swing(e.by, e.on, SwingTime)} : f.kind \notin MobKinds
      BY <2>5 DEF Delays
    <3>4. UNCHANGED aim
      BY <2>7 DEF SwingNow
    <3> QED BY <2>4, <3>1, <3>2, <3>3, <3>4
  <2> QED BY <1>3, <2>2, <2>3, <2>6, <2>7 DEF NextAttackEvent
<1>4. CASE HitEvent(e)
  <2>1. e.by \in Players /\ e.kind = "hit" /\ SameMobEvents(Done(e))
    BY <1>1, <1>2, <1>4 DEF HitEvent, Event, MobKinds
  <2>2. CASE queue' = Done(e) /\ UNCHANGED <<players, attacks, mobs>>
    BY <2>1, <2>2, Bystanding DEF Bystands, SameMobEvents, attacks, mobs
  <2>3. ASSUME NEW d \in 1..MaxHp, e.on \in Players, StrikePlayer({e.by, e.on}, e.on, d, Done(e))
        PROVE  MobInv'
    BY <1>1, <2>1, <2>3, StrikePlayerBystands, Bystanding
  <2>4. ASSUME NEW d \in 1..MaxHp, e.on \in Npcs, TargetAlive(e.on), StrikeNpc(e.by, e.on, d, 1, Done(e))
        PROVE  MobInv'
    BY <2>1, <2>4, StrikeNpcMobs, ObjectsAssumption DEF TargetAlive
  <2> QED BY <1>4, <2>2, <2>3, <2>4 DEF HitEvent
<1>5. CASE NpcHitEvent(e)
  <2>1. e.on \in Players /\ e.kind = "npcHit" /\ SameMobEvents(Done(e))
    BY <1>1, <1>2, <1>5 DEF NpcHitEvent, Event, MobKinds
  <2>2. CASE queue' = Done(e) /\ UNCHANGED <<players, attacks, mobs>>
    BY <2>1, <2>2, Bystanding DEF Bystands, SameMobEvents, attacks, mobs
  <2>3. ASSUME NEW d \in 1..MaxHp, StrikePlayer({e.on}, e.on, d, Done(e)) PROVE MobInv'
    BY <1>1, <2>1, <2>3, StrikePlayerBystands, Bystanding
  <2> QED BY <1>5, <2>2, <2>3 DEF NpcHitEvent
<1>6. CASE CombatStanceTimeoutEvent(e)
  <2>1. SameMobEvents(queue') /\ UNCHANGED <<aim, npcs, npcAim, spawnInfo>>
    BY <1>2, <1>6 DEF CombatStanceTimeoutEvent, mobs, MobKinds
  <2> QED BY <2>1, Bystanding DEF Bystands, SameMobEvents
<1> QED BY <1>3, <1>4, <1>5, <1>6, NpcSwingMobs, DecayMobs, RespawnMobs DEF Execute

LEMMA TickMobs == MobInv /\ TypeOK' /\ Tick => MobInv'
<1> SUFFICES ASSUME MobInv, TypeOK', Tick PROVE MobInv'
  OBVIOUS
<1>1. BagToSet(queue') = {Sooner(e) : e \in BagToSet(queue)}
  BY Ticking DEF MobInv, TypeOK
<1>2. \A e : Sooner(e).kind = e.kind /\ Sooner(e).by = e.by /\ Sooner(e).on = e.on
  BY DEF Sooner, In
<1>3. UNCHANGED <<npcs, npcAim, spawnInfo, aim>>
  BY DEF Tick, mobs
<1>4. NobodyFightsCorpses' /\ DecaysDead'
  BY <1>1, <1>2, <1>3 DEF MobInv, NobodyFightsCorpses, DecaysDead
<1>5. NpcChainAlive'
  BY <1>1, <1>2, <1>3 DEF MobInv, NpcChainAlive, Pending
<1>6. \A n \in Npcs : Pending("respawn", n)' = {} <=> Pending("respawn", n) = {}
  BY <1>1, <1>2 DEF Pending
<1>7. PopulationConserved'
  BY <1>3, <1>6 DEF MobInv, PopulationConserved
<1> QED BY <1>4, <1>5, <1>7 DEF MobInv

LEMMA MobInvariant == Spec => []MobInv
<1>1. Init /\ TypeOK => MobInv
  <2> SUFFICES ASSUME Init, TypeOK PROVE MobInv
    OBVIOUS
  <2>1. BagToSet(queue) = {}
    BY DEF Init, EmptyBag, SetToBag, BagToSet
  <2>2. NobodyFightsCorpses /\ DecaysDead /\ NpcChainAlive
    BY <2>1, ObjectsAssumption DEF Init, NobodyFightsCorpses, DecaysDead, NpcChainAlive
  <2>3. PopulationConserved
    BY <2>1 DEF Init, PopulationConserved, Pending
  <2> QED BY <2>2, <2>3 DEF MobInv
<1>2. MobInv /\ TypeOK' /\ [Next]_vars => MobInv'
  <2>1. MobInv /\ TypeOK' /\ UNCHANGED vars => MobInv'
    <3> SUFFICES ASSUME MobInv, TypeOK', UNCHANGED vars PROVE MobInv'
      OBVIOUS
    <3>1. Bystands
      BY DEF vars, attacks, mobs, Bystands
    <3> QED BY <3>1, Bystanding
  <2> QED BY <2>1, CommandMobs, ConnectionMobs, ExecuteMobs, TickMobs DEF Next
<1> QED BY <1>1, <1>2, TypeCorrect, PTL DEF Spec

(* Only live NPCs fight or are fought: handleNPCDeath and the decay of a corpse
   leave no attack by it or on it. *)
THEOREM CorpsesAreLeftAlone == Spec => []NobodyFightsCorpses
BY MobInvariant, PTL DEF MobInv

(* An attacking NPC has a swing at its target pending, whoever provoked it, died
   or left in between. *)
THEOREM NpcsStayAlive == Spec => []NpcChainAlive
BY MobInvariant, PTL DEF MobInv

(* Deaths, double deaths, decays and respawns neither lose nor multiply spawns. *)
THEOREM PopulationStays == Spec => []PopulationSound
BY MobInvariant, PTL DEF MobInv, PopulationSound

-----------------------------------------------------------------------------
(* The combat stance. *)

(* Who is out of the world is not in combat, so entering it ends no stance. *)
OutIsCalm == \A p \in Players : presence[p] = "out" => ~inCombat[p]

StanceStep ==
  \A p \in Players : inCombat[p] /\ ~inCombat'[p] => hp'[p] = 0 \/ age[p] >= StanceTimeout

(* A blow draws only the weapons of players in the world and sheathes only those
   of the one it kills. *)
LEMMA StrikePlayerStance ==
  ASSUME TypeOK, OutIsCalm, NEW S, NEW v \in Players, NEW d \in 1..MaxHp, NEW q,
         StrikePlayer(S, v, d, q)
  PROVE  OutIsCalm' /\ StanceStep
<1> DEFINE drawn == [p \in Players |-> inCombat[p] \/ (p \in S /\ InWorld(p))]
<1>1. presence' = presence /\ hp' = [hp EXCEPT ![v] = Reduced(@, d)] /\ hp \in [Players -> 0..MaxHp]
  BY DEF StrikePlayer, TypeOK, PlayersOK
<1>2. \A p \in Players : drawn[p] = (inCombat[p] \/ (p \in S /\ InWorld(p)))
  OBVIOUS
<1>3. CASE inCombat' = drawn
  BY <1>1, <1>2, <1>3 DEF OutIsCalm, StanceStep, InWorld
<1>4. CASE hp[v] =< d /\ inCombat' = [drawn EXCEPT ![v] = FALSE]
  <2>1. hp'[v] = 0
    BY <1>1, <1>4 DEF Reduced
  <2>2. \A p \in Players : inCombat'[p] = IF p = v THEN FALSE ELSE drawn[p]
    BY <1>4
  <2> QED BY <1>1, <1>2, <2>1, <2>2 DEF OutIsCalm, StanceStep, InWorld
<1> QED BY <1>3, <1>4 DEF StrikePlayer

LEMMA NextStance == TypeOK /\ OutIsCalm /\ [Next]_vars => OutIsCalm' /\ StanceStep
<1> SUFFICES ASSUME TypeOK, OutIsCalm, [Next]_vars PROVE OutIsCalm' /\ StanceStep
  OBVIOUS
<1>1. presence \in [Players -> {"out", "in", "leaving"}] /\ inCombat \in [Players -> BOOLEAN] /\ hp \in [Players -> 0..MaxHp]
  BY DEF TypeOK, PlayersOK
<1>2. CASE UNCHANGED <<presence, inCombat>>
  BY <1>2 DEF OutIsCalm, StanceStep
<1>3. ASSUME NEW S, NEW v \in Players, NEW d \in 1..MaxHp, NEW q, StrikePlayer(S, v, d, q)
      PROVE  OutIsCalm' /\ StanceStep
  BY <1>3, StrikePlayerStance
<1>4. CASE Command
  <2>1. ASSUME NEW p \in Players, NEW v \in Players, NEW d \in 1..MaxHp, CastOnPlayer(p, v, d)
        PROVE  OutIsCalm' /\ StanceStep
    BY <1>3, <2>1 DEF CastOnPlayer
  <2>2. CASE ~ \E p, v \in Players, d \in 1..MaxHp : CastOnPlayer(p, v, d)
    <3>1. UNCHANGED <<presence, inCombat>>
      BY <1>4, <2>2 DEF Command, AttackRequest, CancelAttack, AbandonAttack, Revive, Regen, CastOnNpc,
                        StrikeNpc, HandlePlayerDisconnected, players
    <3> QED BY <1>2, <3>1
  <2> QED BY <2>1, <2>2
<1>5. CASE Connection
  <2> PICK p \in Players : \/ \E h \in 0..MaxHp : EnterWorld(p, h)
                           \/ SendDisconnected(p) \/ RemovePlayer(p) \/ RestartRefused(p)
    BY <1>5 DEF Connection
  <2>1. ASSUME NEW h \in 0..MaxHp, EnterWorld(p, h) PROVE OutIsCalm' /\ StanceStep
    BY <1>1, <2>1 DEF EnterWorld, OutIsCalm, StanceStep
  <2>2. CASE SendDisconnected(p) \/ RestartRefused(p)
    BY <1>1, <2>2 DEF SendDisconnected, RestartRefused, OutIsCalm, StanceStep
  <2>3. CASE RemovePlayer(p)
    BY <1>1, <2>3 DEF RemovePlayer, OutIsCalm, StanceStep
  <2> QED BY <2>1, <2>2, <2>3
<1>6. ASSUME NEW e \in BagToSet(queue), Execute(e) PROVE OutIsCalm' /\ StanceStep
  <2>1. e \in Event
    BY DEF TypeOK, IsQueue
  <2>2. CASE NextAttackEvent(e)
    <3>1. CASE UNCHANGED inCombat
      BY <1>2, <2>2, <3>1 DEF NextAttackEvent
    <3>2. CASE InWorld(e.by) /\ inCombat' = [inCombat EXCEPT ![e.by] = TRUE]
      BY <1>1, <2>2, <3>2 DEF NextAttackEvent, InWorld, OutIsCalm, StanceStep
    <3> QED BY <2>2, <3>1, <3>2 DEF NextAttackEvent, OutOfReach, SwingNow
  <2>3. CASE HitEvent(e)
    BY <1>2, <1>3, <2>3 DEF HitEvent, players, StrikeNpc
  <2>4. CASE NpcHitEvent(e)
    <3>1. e.on \in Players
      BY <2>1, <2>4 DEF NpcHitEvent, Event
    <3> QED BY <1>2, <1>3, <2>4, <3>1 DEF NpcHitEvent, players
  <2>5. CASE CombatStanceTimeoutEvent(e)
    BY <1>1, <2>5 DEF CombatStanceTimeoutEvent, Expired, OutIsCalm, StanceStep
  <2>6. CASE NpcNextAttackEvent(e) \/ CorpseDecayEvent(e) \/ RespawnEvent(e)
    BY <1>2, <2>6 DEF NpcNextAttackEvent, CorpseDecayEvent, RespawnEvent, players
  <2> QED BY <1>6, <2>2, <2>3, <2>4, <2>5, <2>6 DEF Execute
<1>7. CASE Tick \/ UNCHANGED vars
  BY <1>2, <1>7 DEF Tick, vars, players
<1> QED BY <1>4, <1>5, <1>6, <1>7 DEF Next, ExecuteEvents

(* No stale timeout sheathes a player that has attacked since: combat ends by
   death or when StanceTimeout has passed after the last swing. *)
THEOREM StancesHold == Spec => StanceHeld
<1>1. Init => OutIsCalm
  BY DEF Init, OutIsCalm
<1>2. TypeOK /\ OutIsCalm /\ [Next]_vars => OutIsCalm'
  BY NextStance
<1>3. TypeOK /\ OutIsCalm /\ [Next]_vars =>
        [\A p \in Players : inCombat[p] /\ ~inCombat'[p] => hp'[p] = 0 \/ age[p] >= StanceTimeout]_vars
  BY NextStance DEF StanceStep
<1> QED BY <1>1, <1>2, <1>3, TypeCorrect, PTL DEF Spec, StanceHeld
=============================================================================
