------------------------------ MODULE Effects ------------------------------
(***************************************************************************)
(* Skills in the game loop: the life of a cast (request, approach, hit,    *)
(* abort, cooldown), the effects a character carries and the sweep that    *)
(* ends them, PvP flags, and the stat layer that the loop and the          *)
(* connections both rebuild (gameloop/cast.go, buff.go, pvp.go, restore.go,*)
(* events.go, models/buff.go, registry/world.go).                          *)
(*                                                                         *)
(* The handlers of the loop are sequential: each is one step here, built   *)
(* from operators that take the loop's state S and return the next one.    *)
(* The connections change targets, gear and the registry between those     *)
(* steps.  Time is counted in units in which the loop runs every event     *)
(* that is due and one sweep.                                              *)
(***************************************************************************)
EXTENDS Integers, Sequences, FiniteSets

CONSTANTS
    Players, Monsters,  \* objects a skill can be cast on
    Skills, Data,       \* skill templates, one record for each skill
    Known,              \* Known[p][s]: the level of s that p has learned, or 0
    MaxHP, MaxMP, FlagTime,
    Nobody, NoSkill,
    MaxClock, MaxCasts

\* The template of a skill. Its effects are of one kind; mp1 is due when the
\* cast begins and mp2 when it hits; type and rank are those of its abnormal.
SkillTemplate ==
    [kind : {"bolt", "drain", "curse", "buff", "toggle", "heal", "escape", "passive"},
     mp1 : Nat, mp2 : Nat, cast : Nat, reuse : Nat, self : BOOLEAN,
     ranged : BOOLEAN, type : STRING, rank : Nat, lasts : Nat, tick : Nat]

ASSUME EffectsAssumption ==
    /\ Nobody \notin Players \cup Monsters
    /\ NoSkill \notin Skills
    /\ MaxHP \in Nat \ {0} /\ MaxMP \in Nat /\ FlagTime \in Nat \ {0}
    /\ MaxClock \in Nat
    /\ Data \in [Skills -> SkillTemplate]
    /\ Known \in [Players -> [Skills -> Nat]]

VARIABLES
    here,       \* players in the registry
    body,       \* body[p]: the PlayerWorldState and its character
    near,       \* near[p]: the objects within p's cast range
    leaving,    \* players whose connection is in the middle of a restart
    notices,    \* players whose CmdPlayerDisconnected is queued
    revives,    \* revives[p]: CmdRevive commands queued for p
    dressing,   \* dressing[p]: the mods a connection has read and not stored
    S,          \* what the loop owns: see LoopState
    clock, swept,
    h           \* history: what the properties remember

vars == <<here, body, near, leaving, notices, revives, dressing, S, clock,
          swept, h>>

Objects == Players \cup Monsters
Living(p) == p \in here /\ body[p].hp > 0

----------------------------------------------------------------------------
\* What a character and the loop keep.

Mods == [gear : {0, 1}, from : SUBSET Skills]
Buff == [skill : Skills, type : STRING, rank : Nat, expires : Nat, next : Nat]
Casting == [id : Nat, skill : Skills \cup {NoSkill}, target : Objects \cup {Nobody}]

Body ==
    [hp : 0..MaxHP, mp : 0..MaxMP, target : Objects \cup {Nobody},
     casting : Casting, moving : BOOLEAN, flag : Nat, shown : BOOLEAN,
     effects : SUBSET Buff, gear : {0, 1}, mods : Mods, cached : Mods,
     valid : BOOLEAN]

Event ==
    [kind : {"hit", "approach"}, at : Nat, who : Players, skill : Skills,
     target : Objects, ctrl : BOOLEAN, id : Nat]

LoopState ==
    [buffed : SUBSET Players, flagged : SUBSET Players,
     pending : [Players -> [skill : Skills \cup {NoSkill}, ctrl : BOOLEAN]],
     intent : [Players -> {"idle", "cast", "walk"}], events : SUBSET Event,
     ready : [Players -> [Skills -> Nat]], computing : Players \cup {Nobody}]

----------------------------------------------------------------------------
\* Skills.

IsBuffSkill(s) == Data[s].kind \in {"buff", "curse", "toggle"}

\* An HpDrain effect is not in the list of the code.
IsOffensive(s) == Data[s].kind \in {"curse", "bolt"}

\* What does harm to another player, whatever the code takes it for.
Harmful(s) == IsOffensive(s) \/ Data[s].kind = "drain"

\* No skill that harms is cast for as long as a flag lasts. It is the data that
\* says so: a flag is worn for two minutes, the skills cast for longer summon,
\* escape or take a castle, and those a player harms with take seconds.
ASSUME CastsAreShort ==
    \A s \in Skills : IsOffensive(s) => Data[s].cast < FlagTime

CastTarget(p, s) ==
    IF Data[s].self THEN p
    ELSE IF body[p].target # Nobody THEN body[p].target
    ELSE IF IsOffensive(s) THEN Nobody ELSE p

\* A target that has left has the caster's own position.
InRange(p, t, s) ==
    \/ ~Data[s].ranged
    \/ t = p
    \/ t \in near[p]
    \/ t \in Players \ here

Flagged(b) == clock < b.flag

\* The rules of PvP: whether the attack is allowed, and whether it flags.
Provoked(p, t) == Flagged(body[t])

\* Mutant: everybody is fair game.
MayAttackAll(p, t, ctrl) == TRUE

MayAttack(p, t, ctrl) == Provoked(p, t) \/ ctrl

----------------------------------------------------------------------------
\* The effects of one character. Their order shows in a packet only, so the
\* list of the code is a set here.

NewBuff(s, level) ==
    [skill |-> s, type |-> Data[s].type, rank |-> Data[s].rank + level,
     expires |-> IF Data[s].lasts > 0 /\ Data[s].kind # "toggle"
                 THEN clock + Data[s].lasts ELSE 0,
     next |-> IF Data[s].tick # 0 THEN clock + 1 ELSE 0]

HasSkill(e, s) == \E b \in e : b.skill = s
WithoutSkill(e, s) == {b \in e : b.skill # s}

SameType(b, c) == b.type # "none" /\ b.type = c.type

Stronger(e, b) == \E c \in e : SameType(c, b) /\ c.rank > b.rank

\* CharEffectList.Add: the own skill goes first, then a weaker one of the type.
AddBuff(e, b) ==
    LET rest == WithoutSkill(e, b.skill)
    IN  IF Stronger(rest, b) THEN [ok |-> FALSE, list |-> rest]
        ELSE [ok |-> TRUE, list |-> {c \in rest : ~SameType(b, c)} \cup {b}]

\* Those whose time is over.
Outlived(e) == {b \in e : b.expires # 0 /\ b.expires <= clock}

RemoveExpired(e) == e \ Outlived(e)

\* StatMods: the union of the mods of the gear and of the effects.
ModsOf(b, e) == [gear |-> b.gear, from |-> {x.skill : x \in e}]

RebuildStatMods(b) == [b EXCEPT !.mods = ModsOf(b, b.effects), !.valid = FALSE]

----------------------------------------------------------------------------
\* The loop's state, and what its helpers make of it.  L is [body, and S].

NoCast == [id |-> 0, skill |-> NoSkill, target |-> Nobody]
NoMods == [gear |-> 0, from |-> {}]
NoPending == [skill |-> NoSkill, ctrl |-> FALSE]

FreshBody ==
    RebuildStatMods(
      [hp |-> MaxHP, mp |-> MaxMP, target |-> Nobody, casting |-> NoCast,
       moving |-> FALSE, flag |-> 0, shown |-> FALSE, effects |-> {},
       gear |-> 0, mods |-> NoMods, cached |-> NoMods, valid |-> FALSE])

L0 == [body |-> body, buffed |-> S.buffed, flagged |-> S.flagged,
       pending |-> S.pending, intent |-> S.intent, events |-> S.events,
       ready |-> S.ready, log |-> h.log, lost |-> h.lost, mixed |-> h.mixed,
       near |-> near]

Become(L) ==
    /\ body' = L.body
    /\ near' = L.near
    /\ S' = [S EXCEPT !.buffed = L.buffed, !.flagged = L.flagged,
                      !.pending = L.pending, !.intent = L.intent,
                      !.events = L.events, !.ready = L.ready]
    /\ h' = [h EXCEPT !.log = L.log, !.lost = L.lost, !.mixed = L.mixed]

\* A change of a character's effects by the loop.
SetEffects(L, p, e) ==
    [L EXCEPT !.body[p] = RebuildStatMods([@ EXCEPT !.effects = e]),
              !.mixed = IF dressing[p] = <<>> THEN @ \ {p}
                        ELSE @ \cup {p}]

\* setPvPFlag: the relation is broadcast when the flag is new.
SetFlag(L, p) ==
    [L EXCEPT !.body[p].flag = clock + FlagTime,
              !.body[p].shown = IF Flagged(L.body[p]) THEN @ ELSE TRUE,
              !.flagged = @ \cup {p},
              !.lost = @ \ {<<"flag", p>>}]

\* Mutant: an approach that ends leaves its entry.
ClearPendingNot(L, p, s) == L

ClearPending(L, p, s) ==
    IF L.pending[p].skill = s THEN [L EXCEPT !.pending[p] = NoPending] ELSE L

ApplyBuff(L, t, s, level) ==
    IF t \notin here THEN L
    ELSE LET added == AddBuff(L.body[t].effects, NewBuff(s, level))
         IN  IF ~added.ok THEN [L EXCEPT !.body[t].effects = added.list]
             ELSE [SetEffects(L, t, added.list) EXCEPT !.buffed = @ \cup {t}]

\* handleRestoreStats: the dead are not healed.
Restore(L, t) ==
    IF t \in here /\ L.body[t].hp > 0
    THEN [L EXCEPT !.body[t].hp = IF @ < MaxHP THEN @ + 1 ELSE @]
    ELSE L

\* dealDamageToPlayer and the victim's flag.
Hurt(L, t) ==
    SetFlag([L EXCEPT !.body[t].hp = @ - 1], t)

\* What a skill of kind "bolt" or "drain" does to t.
Strike(L, p, t, s) ==
    IF t \in here /\ t # p
    THEN IF L.body[t].hp = 0 THEN L
         ELSE IF Data[s].kind = "drain" THEN Restore(Hurt(L, t), p)
         ELSE Hurt(L, t)
    ELSE L

\* applyEscape and handleTeleport.
Teleport(L, p) ==
    [L EXCEPT !.body[p].target = Nobody, !.body[p].moving = FALSE,
              !.near = [q \in Players |-> IF q = p THEN {} ELSE @[q] \ {p}]]

ApplySkillEffects(L, p, t, s, level) ==
    IF IsBuffSkill(s) THEN ApplyBuff(L, t, s, level)
    ELSE IF Data[s].kind = "escape" THEN Teleport(L, p)
    ELSE IF Data[s].kind = "heal" THEN Restore(L, t)
    ELSE Strike(L, p, t, s)

ArmReuse(L, p, s) ==
    IF Data[s].reuse = 0 THEN L
    ELSE [L EXCEPT !.ready[p][s] = clock + Data[s].reuse]

\* toggleOff: the last effect that goes takes the character off the sweep.
ToggleOff(L, p, s) ==
    IF ~HasSkill(L.body[p].effects, s) THEN L
    ELSE LET left == WithoutSkill(L.body[p].effects, s)
         IN  [SetEffects(L, p, left) EXCEPT
                !.buffed = IF left = {} THEN @ \ {p} ELSE @]

\* abortCast.
AbortCast(L, p) ==
    LET id == L.body[p].casting.id
    IN  IF p \notin here \/ id = 0 THEN L
        ELSE [L EXCEPT !.body[p].casting = NoCast, !.log[id].aborted = TRUE]

----------------------------------------------------------------------------
\* handleCastRequest: one operator for each way out.

Castable(L, p, s) ==
    /\ p \in here
    /\ L.body[p].hp > 0
    /\ L.body[p].casting = NoCast
    /\ Known[p][s] > 0
    /\ Data[s].kind # "passive"

\* startCastApproach: a second press of the key does not restart the run.
StartApproach(L, p, t, s, ctrl) ==
    IF L.pending[p].skill = s THEN L
    ELSE [L EXCEPT !.pending[p] = [skill |-> s, ctrl |-> ctrl],
                   !.intent[p] = "cast",
                   !.body[p].moving = TRUE,
                   !.events = @ \cup {[kind |-> "approach", at |-> clock + 1,
                                       who |-> p, target |-> t, skill |-> s,
                                       ctrl |-> ctrl, id |-> 0]}]

\* Both parts of the cost must be there before the first is paid.
MpDue(s) == Data[s].mp1 + Data[s].mp2

\* The gates of PvP and of MP, after which mpConsume1 is paid.
Gate(L, p, t, s, ctrl) ==
    LET against == IsOffensive(s) /\ t # p /\ t \in here
        flagged == IF against /\ ~Provoked(p, t) /\ ctrl
                   THEN SetFlag(L, p) ELSE L
    IN  IF against /\ ~MayAttack(p, t, ctrl) THEN [ok |-> FALSE, L |-> L]
        ELSE IF L.body[p].mp < MpDue(s)
             THEN [ok |-> FALSE, L |-> flagged]
        ELSE [ok |-> TRUE,
              L |-> [flagged EXCEPT !.body[p].mp = @ - Data[s].mp1]]

\* A toggle is applied at once; any other skill gets an id and a hit event.
Begin(L, p, t, s, ctrl) ==
    IF Data[s].kind = "toggle"
    THEN ArmReuse(ApplySkillEffects(L, p, t, s, Known[p][s]), p, s)
    ELSE LET id == Len(L.log) + 1
         IN  [L EXCEPT
                !.body[p].casting = [id |-> id, skill |-> s, target |-> t],
                !.events = @ \cup {[kind |-> "hit", at |-> clock + Data[s].cast,
                                    who |-> p, target |-> t, skill |-> s,
                                    ctrl |-> FALSE, id |-> id]},
                !.log = Append(@, [who |-> p, skill |-> s, target |-> t,
                                   start |-> clock, hits |-> 0, landed |-> 0,
                                   aborted |-> FALSE, cleared |-> FALSE,
                                   fair |-> t \notin here \/ Provoked(p, t),
                                   answer |-> 0])]

TryCast(L, p, s, ctrl) ==
    LET t == CastTarget(p, s)
        inRange == [L EXCEPT !.pending[p] = NoPending]
        gate == Gate(inRange, p, t, s, ctrl)
    IN  IF ~Castable(L, p, s) THEN L
        ELSE IF Data[s].kind = "toggle" /\ HasSkill(L.body[p].effects, s)
             THEN ToggleOff(L, p, s)
        ELSE IF clock < L.ready[p][s] \/ t = Nobody THEN L
        ELSE IF ~InRange(p, t, s) THEN StartApproach(L, p, t, s, ctrl)
        ELSE IF ~gate.ok THEN gate.L
        ELSE Begin(gate.L, p, t, s, ctrl)

----------------------------------------------------------------------------
\* Events of the loop.

\* Mutant: any cast in progress takes the hit.
SupersededByNone(e) == e.who \notin here \/ body[e.who].casting = NoCast

\* CastHitEvent: the id tells this cast from one that replaced it.
Superseded(e) == e.who \notin here \/ body[e.who].casting.id # e.id

\* mpConsume2 is paid if the MP is there; the effects come all the same.
PayHit(L, p, s) ==
    IF L.body[p].mp < Data[s].mp2 THEN L
    ELSE [L EXCEPT !.body[p].mp = @ - Data[s].mp2]

Landing(L, p, c) ==
    LET id == c.id
        hit == ArmReuse(ApplySkillEffects(PayHit(L, p, c.skill), p, c.target,
                                          c.skill, Known[p][c.skill]), p, c.skill)
    IN  [hit EXCEPT !.log[id].hits = @ + 1, !.log[id].landed = clock,
                    !.log[id].answer = L.body[p].flag]

CastHit(e) ==
    /\ e.kind = "hit"
    /\ LET p == e.who
           done == [L0 EXCEPT !.events = @ \ {e}]
           free == [done EXCEPT !.body[p].casting = NoCast]
       IN  Become(IF Superseded(e) THEN done
                  ELSE IF body[p].hp = 0 THEN free
                  ELSE Landing(free, p, body[p].casting))

\* CastApproachEvent: give up, keep running, or arrive and try again.
Abandons(e) ==
    \/ ~Living(e.who)
    \/ body[e.who].casting # NoCast
    \/ e.target # e.who /\ body[e.who].target # e.target

CastApproach(e) ==
    /\ e.kind = "approach"
    /\ LET p == e.who
           done == [L0 EXCEPT !.events = @ \ {e}]
           clear == ClearPending(done, p, e.skill)
           again == [done EXCEPT !.events = @ \cup {[e EXCEPT !.at = clock + 1]},
                                 !.body[p].moving = TRUE]
           arrived == [clear EXCEPT !.body[p].moving = FALSE,
                                    !.intent[p] = "idle"]
       IN  Become(IF S.pending[p].skill # e.skill THEN done
                  ELSE IF Abandons(e) THEN clear
                  ELSE IF ~InRange(p, e.target, e.skill) THEN again
                  ELSE TryCast(arrived, p, e.skill, e.ctrl))

LoopFree == S.computing = Nobody

Execute ==
    /\ LoopFree
    /\ \E e \in S.events : e.at <= clock /\ (CastHit(e) \/ CastApproach(e))
    /\ UNCHANGED <<here, leaving, notices, revives, dressing, clock, swept>>

\* expirePvPFlags.
ExpireFlags(L) ==
    LET over == {p \in L.flagged : p \in here /\ L.body[p].flag <= clock}
    IN  [L EXCEPT
           !.flagged = {p \in @ : p \in here} \ over,
           !.body = [p \in Players |-> IF p \in over
                       THEN [@[p] EXCEPT !.flag = 0, !.shown = FALSE] ELSE @[p]]]

\* fireBuffTicks: damage over time leaves one HP.
TickDue(x) == x.next # 0 /\ x.next <= clock

FireTicks(b) ==
    IF b.hp = 0 \/ ~\E x \in b.effects : TickDue(x) THEN b
    ELSE [b EXCEPT
            !.hp = IF @ > 1 THEN @ - 1 ELSE 1,
            !.effects = {IF TickDue(x) THEN [x EXCEPT !.next = clock + 1]
                         ELSE x : x \in @}]

\* Mutant: expired effects leave their modifiers.
ServicedQuietly(b) ==
    [FireTicks(b) EXCEPT !.effects = RemoveExpired(@)]

\* One round of serviceBuffs for one character.
Serviced(b) ==
    LET ticked == FireTicks(b)
        kept == RemoveExpired(ticked.effects)
    IN  IF Outlived(ticked.effects) = {} THEN ticked
        ELSE RebuildStatMods([ticked EXCEPT !.effects = kept])

ServiceBuffs ==
    /\ LoopFree
    /\ swept < clock
    /\ \A e \in S.events : e.at > clock
    /\ swept' = clock
    /\ LET L == ExpireFlags(L0)
           due == {p \in L.buffed : p \in here /\ L.body[p].effects # {}}
           after == [p \in Players |-> IF p \in due THEN Serviced(L.body[p])
                                       ELSE L.body[p]]
           rebuilt == {p \in due : Outlived(body[p].effects) # {}}
           overlap == {p \in rebuilt : dressing[p] # <<>>}
       IN  Become([L EXCEPT !.body = after,
                            !.buffed = {p \in due : after[p].effects # {}},
                            !.lost = @ \ ({"buff"} \X due),
                            !.mixed = (@ \ rebuilt) \cup overlap])
    /\ UNCHANGED <<here, leaving, notices, revives, dressing, clock>>

----------------------------------------------------------------------------
\* Commands of the loop.

\* A connection sends its commands in order: none passes its disconnect notice.
Heard(p) == LoopFree /\ p \notin notices
SameWorld == UNCHANGED <<here, leaving, notices, revives, dressing, clock, swept>>

CastRequest(p, s, ctrl) ==
    /\ Heard(p) /\ p \in here
    /\ Len(h.log) < MaxCasts
    /\ Become(TryCast(L0, p, s, ctrl))
    /\ SameWorld

\* An item whose skill the loop casts on the user.
ItemSkillCast(p, s) ==
    /\ Heard(p) /\ Living(p)
    /\ Become(ApplySkillEffects(L0, p, p, s, 1))
    /\ SameWorld

Dispel(p, s) ==
    /\ Heard(p) /\ p \in here
    /\ Become(ToggleOff(L0, p, s))
    /\ SameWorld

\* A ground move interrupts a cast and an approach.
MoveToLocation(p) ==
    /\ Heard(p)
    /\ Become([AbortCast(L0, p) EXCEPT !.pending[p] = NoPending,
                                       !.intent[p] = "walk",
                                       !.body[p].moving = TRUE])
    /\ SameWorld

\* The tick brings a player that runs for a cast to where its target was.
Arrive(p) ==
    /\ LoopFree /\ p \in here
    /\ body[p].moving /\ S.intent[p] = "cast"
    /\ \E o \in Objects \ {p} :
         Become([L0 EXCEPT !.body[p].moving = FALSE, !.near[p] = @ \cup {o}])
    /\ SameWorld

\* A hit of a monster, see module Combat.
Wound(p) ==
    /\ LoopFree /\ Living(p)
    /\ Become([L0 EXCEPT !.body[p].hp = @ - 1])
    /\ SameWorld

Regenerated(b) ==
    [b EXCEPT !.hp = IF @ < MaxHP THEN @ + 1 ELSE @,
              !.mp = IF @ < MaxMP THEN @ + 1 ELSE @]

Regen ==
    /\ LoopFree
    /\ Become([L0 EXCEPT !.body = [p \in Players |->
                 IF Living(p) THEN Regenerated(@[p]) ELSE @[p]]])
    /\ SameWorld

Revive(p) ==
    /\ LoopFree
    /\ revives[p] > 0
    /\ revives' = [revives EXCEPT ![p] = @ - 1]
    /\ Become(IF p \in here
              THEN Teleport([L0 EXCEPT !.body[p].hp = MaxHP], p) ELSE L0)
    /\ UNCHANGED <<here, leaving, notices, dressing, clock, swept>>

\* handlePlayerDisconnected drops all the loop keeps of p, whether or not p goes.
PlayerDisconnected(p) ==
    /\ LoopFree /\ p \in notices
    /\ notices' = notices \ {p}
    /\ LET carries == (IF body[p].effects # {} THEN {<<"buff", p>>} ELSE {})
                      \cup (IF body[p].flag # 0 THEN {<<"flag", p>>} ELSE {})
       IN  Become([L0 EXCEPT
             !.ready[p] = [s \in Skills |-> 0],
             !.buffed = @ \ {p}, !.flagged = @ \ {p},
             !.pending[p] = NoPending,
             !.lost = IF p \in here THEN @ \cup carries ELSE @,
             !.log = [i \in DOMAIN @ |-> IF @[i].who = p
                        THEN [@[i] EXCEPT !.cleared = TRUE] ELSE @[i]]])
    /\ UNCHANGED <<here, leaving, revives, dressing, clock, swept>>

\* computePlayerStats reads the mods on a miss and stores what it made of them.
ComputeRead(p) ==
    /\ LoopFree /\ p \in here /\ ~body[p].valid
    /\ S' = [S EXCEPT !.computing = p]
    /\ body' = [body EXCEPT ![p].cached = body[p].mods]
    /\ UNCHANGED <<here, near, leaving, notices, revives, dressing, clock,
                   swept, h>>

ComputeStore ==
    /\ S.computing # Nobody
    /\ S' = [S EXCEPT !.computing = Nobody]
    /\ body' = [body EXCEPT ![S.computing].valid = TRUE]
    /\ UNCHANGED <<here, near, leaving, notices, revives, dressing, clock,
                   swept, h>>

----------------------------------------------------------------------------
\* The connections.

SetTarget(p, o) ==
    /\ p \in here
    /\ body[p].target # o
    /\ body' = [body EXCEPT ![p].target = o]
    /\ UNCHANGED <<here, near, leaving, notices, revives, dressing, S, clock,
                   swept, h>>

\* Other movement: the objects near p change.
Wander(p, objects) ==
    /\ near' = [near EXCEPT ![p] = objects]
    /\ UNCHANGED <<here, body, leaving, notices, revives, dressing, S, clock,
                   swept, h>>

\* A change of gear: RebuildStatMods reads, and then stores, on the
\* connection's goroutine while the loop goes on.
EquipRead(p) ==
    /\ p \in here /\ dressing[p] = <<>>
    /\ LET b == [body[p] EXCEPT !.gear = 1 - @]
       IN  /\ body' = [body EXCEPT ![p] = b]
           /\ dressing' = [dressing EXCEPT ![p] = <<ModsOf(b, b.effects)>>]
    /\ UNCHANGED <<here, near, leaving, notices, revives, S, clock, swept, h>>

EquipStore(p) ==
    /\ dressing[p] # <<>>
    /\ body' = [body EXCEPT ![p].mods = dressing[p][1], ![p].valid = FALSE]
    /\ dressing' = [dressing EXCEPT ![p] = <<>>]
    /\ UNCHANGED <<here, near, leaving, notices, revives, S, clock, swept, h>>

\* RequestRestartPoint looks at the HP on the connection.
RequestRestartPoint(p) ==
    /\ p \in here /\ body[p].hp = 0
    /\ p \notin notices /\ revives[p] < 2
    /\ revives' = [revives EXCEPT ![p] = @ + 1]
    /\ UNCHANGED <<here, body, near, leaving, notices, dressing, S, clock,
                   swept, h>>

\* A restart: the loop is told first, and the restart may then be refused.
BeginRestart(p) ==
    /\ p \in here /\ p \notin leaving \cup notices
    /\ leaving' = leaving \cup {p}
    /\ notices' = notices \cup {p}
    /\ UNCHANGED <<here, body, near, revives, dressing, S, clock, swept, h>>

RestartRefused(p) ==
    /\ p \in leaving
    /\ leaving' = leaving \ {p}
    /\ UNCHANGED <<here, body, near, notices, revives, dressing, S, clock,
                   swept, h>>

RemovePlayer(p) ==
    /\ p \in leaving /\ dressing[p] = <<>> /\ S.computing # p
    /\ leaving' = leaving \ {p}
    /\ here' = here \ {p}
    /\ UNCHANGED <<body, near, notices, revives, dressing, S, clock, swept, h>>

\* A new PlayerWorldState for a character that comes back.
AddPlayer(p) ==
    /\ p \notin here
    /\ here' = here \cup {p}
    /\ body' = [body EXCEPT ![p] = FreshBody]
    /\ h' = [h EXCEPT !.lost = {l \in @ : l[2] # p}, !.mixed = @ \ {p}]
    /\ UNCHANGED <<near, leaving, notices, revives, dressing, S, clock, swept>>

Pass ==
    /\ LoopFree
    /\ swept = clock /\ clock < MaxClock
    /\ \A e \in S.events : e.at > clock
    /\ clock' = clock + 1
    /\ UNCHANGED <<here, body, near, leaving, notices, revives, dressing, S,
                   swept, h>>

----------------------------------------------------------------------------

LoopInit ==
    [buffed |-> {}, flagged |-> {}, pending |-> [p \in Players |-> NoPending],
     intent |-> [p \in Players |-> "idle"], events |-> {},
     ready |-> [p \in Players |-> [s \in Skills |-> 0]], computing |-> Nobody]

\* Everyone has entered the world, wherever that is.
StartAt(places) ==
    /\ here = Players
    /\ body = [p \in Players |-> FreshBody]
    /\ near = places
    /\ leaving = {} /\ notices = {}
    /\ revives = [p \in Players |-> 0]
    /\ dressing = [p \in Players |-> <<>>]
    /\ S = LoopInit
    /\ clock = 0 /\ swept = 0
    /\ h = [log |-> <<>>, lost |-> {}, mixed |-> {}]

Init == \E places \in [Players -> SUBSET Objects] : StartAt(places)

Next ==
    \/ \E p \in Players, s \in Skills :
         \/ \E ctrl \in BOOLEAN : CastRequest(p, s, ctrl)
         \/ ItemSkillCast(p, s)
         \/ Dispel(p, s)
    \/ \E p \in Players :
         \/ MoveToLocation(p)
         \/ Arrive(p)
         \/ Wound(p)
         \/ RequestRestartPoint(p)
         \/ Revive(p)
         \/ PlayerDisconnected(p)
         \/ ComputeRead(p)
         \/ EquipRead(p)
         \/ EquipStore(p)
         \/ BeginRestart(p)
         \/ RestartRefused(p)
         \/ RemovePlayer(p)
         \/ AddPlayer(p)
         \/ \E o \in Objects \cup {Nobody} : SetTarget(p, o)
         \/ \E objects \in SUBSET (Objects \ {p}) : Wander(p, objects)
    \/ ComputeStore
    \/ Regen
    \/ Execute
    \/ ServiceBuffs
    \/ Pass

Spec == Init /\ [][Next]_vars

----------------------------------------------------------------------------

\* Every variable has its type: times are times of the clock, ids are ids of
\* casts that were begun.
EffectsTypeOK ==
    /\ here \subseteq Players /\ leaving \subseteq here
    /\ notices \subseteq Players
    /\ body \in [Players -> Body] /\ S \in LoopState
    /\ near \in [Players -> SUBSET Objects]
    /\ \A p \in Players : body[p].casting.id \in 0..Len(h.log)
    /\ swept \in 0..clock /\ clock \in 0..MaxClock

\* A cast hits once at most, not before its time is over and never after it
\* was interrupted, although the hit event of an interrupted cast stays queued
\* and may find a newer cast of the same character (cast.go:283).
OneCastOneHit ==
    \A i \in DOMAIN h.log :
      LET c == h.log[i]
      IN  c.hits > 0 => /\ c.hits = 1 /\ ~c.aborted
                        /\ c.landed >= c.start + Data[c.skill].cast

\* A skill is not begun again before its cooldown is over, which starts when
\* the skill lands and not when it is begun (cast.go:69, 314); a character that
\* goes leaves its cooldowns behind (gameloop.go:550).
CooldownRespected ==
    \A i, j \in DOMAIN h.log :
      LET c == h.log[i]   d == h.log[j]
      IN  /\ i < j /\ c.who = d.who /\ c.skill = d.skill
          /\ c.hits > 0 /\ ~c.cleared
          => d.start >= c.landed + Data[c.skill].reuse

\* A character that casts can pay what is due at the hit: nothing between the
\* request and the hit spends its MP, so the branch for missing MP (cast.go:301),
\* which would apply the effects for nothing, is never taken.
AffordsHit ==
    \A p \in here : body[p].casting # NoCast =>
      body[p].mp >= Data[body[p].casting.skill].mp2

\* An approach that is pending has its heartbeat queued.  Without one the entry
\* would stay, and every later press of that key out of range would be taken
\* for a repetition and ignored (cast.go:206).
HeartbeatAlive ==
    \A p \in Players : S.pending[p].skill # NoSkill =>
      \E e \in S.events :
        e.kind = "approach" /\ e.who = p /\ e.skill = S.pending[p].skill

\* An offensive skill that lands on another player was either provoked, by a
\* flag the victim wore when the cast began, or the attacker wears the flag for
\* it when it lands (pvp.go:18, cast.go:92).
HarmAnswered ==
    \A i \in DOMAIN h.log :
      LET c == h.log[i]
      IN  c.hits > 0 /\ IsOffensive(c.skill) /\ c.target \in Players \ {c.who}
          => c.fair \/ c.answer > c.landed

\* The same for everything that does harm.  It fails: a skill with an HpDrain
\* effect is not taken for an offensive one (cast.go:470).
DrainAnswered ==
    \A i \in DOMAIN h.log :
      LET c == h.log[i]
      IN  c.hits > 0 /\ Harmful(c.skill) /\ c.target \in Players \ {c.who}
          => c.fair \/ c.answer > c.landed

\* After each sweep no character in the world carries an effect whose time is
\* over, although the sweep only looks at those in buffedPlayers (buff.go:165),
\* unless a disconnect notice took it off the list while it stayed.
BuffsServiced ==
    swept = clock =>
      \A p \in here : <<"buff", p>> \notin h.lost =>
        Outlived(body[p].effects) = {}

\* The same without the exception.  It fails: a restart that is refused has
\* already taken the character off the list (logout.go:129, gameloop.go:554).
AllServiced ==
    swept = clock => \A p \in here : Outlived(body[p].effects) = {}

\* After each sweep the relation last broadcast of a character is the one its
\* flag has: the name is purple exactly while the flag runs (pvp.go:59, 78).
RelationShown ==
    swept = clock =>
      \A p \in here : <<"flag", p>> \notin h.lost =>
        (body[p].shown <=> Flagged(body[p]))

\* A character never carries two effects of one skill, or two of one abnormal
\* type: their mods would add up (models/buff.go:80).
EffectsExclusive ==
    \A p \in here : \A x, y \in body[p].effects : x # y =>
      x.skill # y.skill /\ ~SameType(x, y)

\* The stat modifiers of a character are those of its gear and its effects
\* after every change by the loop or by its connection, unless the loop changed
\* the effects while the connection was between reading and storing.
StatsComplete ==
    \A p \in here : dressing[p] = <<>> /\ p \notin h.mixed =>
      body[p].mods = ModsOf(body[p], body[p].effects)

\* Stats that are marked as valid were computed from the modifiers of now.  It
\* fails: a change of gear between the loop's reading and its marking is lost
\* until the next change (registry/world.go:99).
CacheFresh ==
    \A p \in here : body[p].valid /\ S.computing # p =>
      body[p].cached = body[p].mods

\* A cast is an exact account: it hits once and is paid for, and its cooldown
\* holds until the next.
CastsSound == OneCastOneHit /\ CooldownRespected /\ AffordsHit

\* The harm a character does and the colour of its name tell the same.
HarmShown == HarmAnswered /\ RelationShown

\* Every variable has its type, and the effects a character carries exclude each
\* other, end when their time is over, and are in its modifiers.
EffectsSound == EffectsTypeOK /\ BuffsServiced /\ EffectsExclusive /\ StatsComplete
=============================================================================
