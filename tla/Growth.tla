------------------------------- MODULE Growth -------------------------------
(***************************************************************************)
(* What characters gain and where it is kept: EXP, SP and levels from      *)
(* kills, skills from trainers, snapshots and learned skills on their way  *)
(* to the database (src/internal/gameserver: gameloop/experience.go,       *)
(* gameloop/skilllearn.go, gameloop/persist.go, registry/skilltree.go,     *)
(* service.go).                                                            *)
(*                                                                         *)
(* The game loop writes a character without a lock, field by field, while  *)
(* its connection may be saving it; two goroutines write what the loop     *)
(* enqueues. A crash loses the memory and the queues.                      *)
(***************************************************************************)
EXTENDS Integers, FiniteSets, SequencesExt

CONSTANTS
  Players,
  Mobs,        \* kinds of monsters: [level, exp, sp]
  ExpTable,    \* the EXP each level takes, two levels past MaxLevel
  MaxLevel,    \* 85
  Trees,       \* the entries of the class tree: [skill, level, get, cost, npc, needs]
  SkillIds,
  SaveRoom,    \* the capacity of the two channels, 256
  MaxKills,    \* bound: the monsters killed
  MaxHate,     \* bound: the hate of an attacker when a monster dies, and a damage
  MaxFaults    \* bound: crashes, and statements that fail

TreeEntry ==
  [skill: SkillIds, level: Nat \ {0}, get: Nat, cost: Nat, npc: BOOLEAN,
   needs: SUBSET [skill: SkillIds, level: Nat]]

ASSUME GrowthAssumption ==
  /\ IsFiniteSet(Players) /\ IsFiniteSet(Trees)
  /\ Mobs # {} /\ Mobs \subseteq [level: Nat, exp: Nat, sp: Nat]
  /\ Trees \subseteq TreeEntry
  /\ MaxLevel \in Nat \ {0} /\ SaveRoom \in Nat \ {0}
  /\ MaxKills \in Nat /\ MaxHate \in Nat /\ MaxFaults \in Nat
  /\ ExpTable \in Seq(Nat) /\ Len(ExpTable) >= MaxLevel /\ ExpTable[1] = 0
  /\ \A l \in DOMAIN ExpTable : l > 1 => ExpTable[l] > 0

VARIABLES
  live,      \* Character and KnownSkills of the players in the world
  place,     \* "lobby", "selected", "game" or "saved": how far entry and exit are
  row,       \* exp, sp and level in the characters table
  skills,    \* the character_skills table
  saves,     \* saveCh
  learned,   \* learnCh
  bounty,    \* the monster killed last, its hate list, the attackers still to reward,
             \* its deaths, who killed it by a skill with damage left, and how often
  fresh,     \* the player whose level the loop has still to compare
  paying,    \* the skill the loop is sending to learnCh
  tally      \* history: kills, faults, EXP given at this death of the monster and at
             \* those before, SP earned, entries paid for, whose rows went back in time

gvars == <<live, place, row, skills, saves, learned, bounty, fresh, paying, tally>>

Progress == [exp: Nat, sp: Nat, level: 1..MaxLevel]
Levels == [SkillIds -> Nat]
Unskilled == [s \in SkillIds |-> 0]
Nothing == <<>>

(* data/experience.go. *)
LevelForExp(exp) ==
  CHOOSE l \in DOMAIN ExpTable :
    /\ ExpTable[l] <= exp
    /\ \A k \in DOMAIN ExpTable : ExpTable[k] <= exp => k <= l
Capped(l) == IF l > MaxLevel THEN MaxLevel ELSE l

(* LevelPenalty: 5/6 for each level that a player is more than 5 above. *)
Pow(b) == LET f[n \in 0..MaxLevel] == IF n = 0 THEN 1 ELSE b * f[n - 1] IN f
LevelPenalty(amount, level, mob) ==
  LET diff == level - mob.level
  IN IF diff <= 5 THEN amount ELSE (amount * Pow(5)[diff - 5]) \div Pow(6)[diff - 5]

(* registry/skilltree.go: the class tree over its parents. *)
AutoGetSkills(level) ==
  [s \in SkillIds |->
     LET best == {t.level : t \in {u \in Trees : u.skill = s /\ ~u.npc /\ level >= u.get}}
     IN IF best = {} THEN 0 ELSE CHOOSE l \in best : \A k \in best : k <= l]

GrowthInit ==
  /\ live = [p \in Players |-> [exp |-> 0, sp |-> 0, level |-> 1, known |-> Unskilled]]
  /\ place = [p \in Players |-> "lobby"]
  /\ row = [p \in Players |-> [exp |-> 0, sp |-> 0, level |-> 1]]
  /\ skills = [p \in Players |-> Unskilled]
  /\ saves = <<>> /\ learned = <<>>
  /\ bounty = [mob |-> CHOOSE m \in Mobs : TRUE, hate |-> <<>>, left |-> {}, deaths |-> 0,
               by |-> {}, more |-> 0]
  /\ fresh = {} /\ paying = Nothing
  /\ tally = [kills |-> 0, faults |-> 0, given |-> 0, before |-> 0, late |-> {},
              earned |-> [p \in Players |-> 0], taken |-> [p \in Players |-> {}]]

InMemory(p) == place[p] # "lobby"
Awarded == bounty.left = {} /\ fresh = {}
LoopIsFree == Awarded /\ bounty.more = 0 /\ paying = Nothing

Stored(p) == [exp |-> live[p].exp, sp |-> live[p].sp, level |-> live[p].level]
Pending(p) == \/ \E i \in DOMAIN saves : saves[i].who = p
              \/ \E i \in DOMAIN learned : learned[i].who = p
              \/ paying # Nothing /\ paying.who = p

(* persistPlayer: dropped when the saver is behind. *)
Enqueue(queue, new) ==
  LET all == queue \o new IN IF Len(all) <= SaveRoom THEN all ELSE SubSeq(all, 1, SaveRoom)
Snapshot(p) == [who |-> p, what |-> Stored(p)]

(* Something of p was lost, or will be written after what is newer. *)
Late(p) == [tally EXCEPT !.late = @ \cup {p}]

-----------------------------------------------------------------------------
(* The way into the world and out of it. *)

(* The loop ends what it does to the old Character before a new one is read. *)
SelectRow(p) ==
  /\ place[p] = "lobby" /\ fresh # {p}
  /\ live' = [live EXCEPT ![p] = [exp |-> row[p].exp, sp |-> row[p].sp,
                                  level |-> row[p].level, known |-> Unskilled]]
  /\ place' = [place EXCEPT ![p] = "selected"]
  /\ tally' = IF Pending(p) THEN Late(p) ELSE tally
  /\ UNCHANGED <<row, skills, saves, learned, bounty, fresh, paying>>

ReturnToLobby(p) ==
  /\ place[p] = "selected"
  /\ place' = [place EXCEPT ![p] = "lobby"]
  /\ tally' = IF row[p] = Stored(p) THEN tally ELSE Late(p)
  /\ UNCHANGED <<live, row, skills, saves, learned, bounty, fresh, paying>>

(* handleEnterWorld: ReconcileAutoGetSkills, then loadPlayerSkills. *)
Reconciled(p) ==
  LET auto == AutoGetSkills(live[p].level)
  IN [s \in SkillIds |-> IF skills[p][s] < auto[s] THEN auto[s] ELSE skills[p][s]]

(* Mutant: only what was granted is known, what was learned is not loaded. *)
EnterWithGranted(p) ==
  /\ place[p] = "selected"
  /\ skills' = [skills EXCEPT ![p] = Reconciled(p)]
  /\ live' = [live EXCEPT ![p].known = AutoGetSkills(live[p].level)]
  /\ place' = [place EXCEPT ![p] = "game"]
  /\ UNCHANGED <<row, saves, learned, bounty, fresh, paying, tally>>

EnterWithSkills(p) ==
  /\ place[p] = "selected"
  /\ skills' = [skills EXCEPT ![p] = Reconciled(p)]
  /\ live' = [live EXCEPT ![p].known = Reconciled(p)]
  /\ place' = [place EXCEPT ![p] = "game"]
  /\ tally' = IF Pending(p) THEN Late(p) ELSE tally
  /\ UNCHANGED <<row, saves, learned, bounty, fresh, paying>>

(* saveCharacterData reads the live character on the connection's goroutine,
   whatever the loop is doing; an error is only logged. *)
SaveOnLeaving(p) ==
  /\ place[p] = "game"
  /\ place' = [place EXCEPT ![p] = "saved"]
  /\ row' = [row EXCEPT ![p] = Stored(p)]
  /\ tally' = IF fresh = {p} THEN Late(p) ELSE tally
  /\ UNCHANGED <<live, skills, saves, learned, bounty, fresh, paying>>

SaveFails(p) ==
  /\ place[p] = "game" /\ tally.faults < MaxFaults
  /\ place' = [place EXCEPT ![p] = "saved"]
  /\ tally' = [tally EXCEPT !.faults = @ + 1, !.late = @ \cup {p}]
  /\ UNCHANGED <<live, row, skills, saves, learned, bounty, fresh, paying>>

(* What the loop gives between the save and the removal is not saved. *)
RemoveSaved(p) ==
  /\ place[p] = "saved"
  /\ place' = [place EXCEPT ![p] = "lobby"]
  /\ tally' = IF row[p] = Stored(p) THEN tally ELSE Late(p)
  /\ UNCHANGED <<live, row, skills, saves, learned, bounty, fresh, paying>>

-----------------------------------------------------------------------------
(* The loop: awardExpForNPCKill. *)

Total(hate) == SumFunctionOnSet(hate, Players)

(* Who is paid: nobody, if the monster is worth nothing. *)
Attackers(m, hate) == {p \in Players : hate[p] > 0 /\ (m.exp > 0 \/ m.sp > 0)}

(* A monster dies with the hate its attackers have earned, by a hit or by a skill
   that has up to two more damages to deal. *)
Kill(m, hate, by, more) ==
  /\ LoopIsFree /\ tally.kills < MaxKills /\ Total(hate) > 0
  /\ by \subseteq {p \in Players : hate[p] > 0 /\ place[p] \in {"game", "saved"}}
  /\ by = {} <=> more = 0
  /\ bounty' = [mob |-> m, hate |-> hate, left |-> Attackers(m, hate), deaths |-> 1,
                 by |-> by, more |-> more]
  /\ tally' = [tally EXCEPT !.kills = @ + 1, !.given = 0, !.before = 0]
  /\ UNCHANGED <<live, place, row, skills, saves, learned, fresh, paying>>

(* The next damage of the skill finds the monster dead, hurts it, and it dies and
   is paid for again: the hate list lasts as long as the corpse. *)
DieAgain(p, damage) ==
  /\ Awarded /\ bounty.more > 0 /\ p \in bounty.by
  /\ LET hate == [bounty.hate EXCEPT ![p] = @ + damage] IN
     bounty' = [bounty EXCEPT !.hate = hate, !.left = Attackers(bounty.mob, hate),
                              !.deaths = @ + 1, !.more = @ - 1]
  /\ tally' = [tally EXCEPT !.before = @ + tally.given, !.given = 0]
  /\ UNCHANGED <<live, place, row, skills, saves, learned, fresh, paying>>

Share(amount, p) ==
  LevelPenalty(amount * bounty.hate[p], live[p].level, bounty.mob) \div Total(bounty.hate)

(* The map of attackers has no order; those who left the world are skipped. *)
Reward(p) ==
  /\ fresh = {} /\ p \in bounty.left
  /\ bounty' = [bounty EXCEPT !.left = @ \ {p}]
  /\ IF InMemory(p)
     THEN /\ live' = [live EXCEPT ![p].exp = @ + Share(bounty.mob.exp, p),
                                  ![p].sp  = @ + Share(bounty.mob.sp, p)]
          /\ fresh' = {p}
          /\ tally' = [tally EXCEPT !.given = @ + Share(bounty.mob.exp, p),
                                    !.earned[p] = @ + Share(bounty.mob.sp, p)]
     ELSE UNCHANGED <<live, fresh, tally>>
  /\ UNCHANGED <<place, row, skills, saves, learned, paying>>

(* The new level, with a snapshot for the saver; the Character may have been
   removed from the world since. *)

(* Mutant: one level at a time. *)
CompareNextLevel(p) ==
  /\ fresh = {p} /\ fresh' = {}
  /\ IF LevelForExp(live[p].exp) > live[p].level /\ live[p].level < MaxLevel
     THEN /\ live' = [live EXCEPT ![p].level = @ + 1]
          /\ saves' = Enqueue(saves, <<[Snapshot(p) EXCEPT !.what.level = @ + 1]>>)
     ELSE UNCHANGED <<live, saves>>
  /\ UNCHANGED <<place, row, skills, learned, bounty, paying, tally>>

CompareLevel(p) ==
  LET level == Capped(LevelForExp(live[p].exp)) IN
  /\ fresh = {p} /\ fresh' = {}
  /\ IF level > live[p].level
     THEN /\ live' = [live EXCEPT ![p].level = level]
          /\ saves' = Enqueue(saves, <<[Snapshot(p) EXCEPT !.what.level = level]>>)
     ELSE UNCHANGED <<live, saves>>
  /\ UNCHANGED <<place, row, skills, learned, bounty, paying, tally>>

-----------------------------------------------------------------------------
(* handleLearnSkill; the trainer teaches the class and is in reach. It does not
   ask whether the skill is on the list the trainer has shown, so a level may be
   skipped; the price is that of the level learned. *)

Meets(p, t) ==
  /\ t.npc /\ live[p].level >= t.get
  /\ \A n \in t.needs : live[p].known[n.skill] = n.level
  /\ live[p].known[t.skill] < t.level
  /\ live[p].sp >= t.cost

Learn(p, t) ==
  /\ LoopIsFree /\ place[p] \in {"game", "saved"} /\ Meets(p, t)
  /\ live' = [live EXCEPT ![p].sp = @ - t.cost, ![p].known[t.skill] = t.level]
  /\ paying' = [who |-> p, skill |-> t.skill, level |-> t.level]
  /\ tally' = [tally EXCEPT !.taken[p] = @ \cup {t}]
  /\ UNCHANGED <<place, row, skills, saves, learned, bounty, fresh>>

(* The send blocks while the channel is full. *)
SendLearned ==
  /\ paying # Nothing /\ Len(learned) < SaveRoom
  /\ learned' = Append(learned, paying)
  /\ paying' = Nothing
  /\ UNCHANGED <<live, place, row, skills, saves, bounty, fresh, tally>>

-----------------------------------------------------------------------------
(* Snapshots, and the two goroutines that write. *)

AutosaveAll ==
  /\ LoopIsFree
  /\ \E order \in SetToSeqs({p \in Players : InMemory(p)}) :
       saves' = Enqueue(saves, [i \in DOMAIN order |-> Snapshot(order[i])])
  /\ saves' # saves
  /\ UNCHANGED <<live, place, row, skills, learned, bounty, fresh, paying, tally>>

(* An older snapshot may overtake what the connection has saved on leaving. *)
SaverWrites ==
  LET s == Head(saves) IN
  /\ saves # <<>> /\ saves' = Tail(saves)
  /\ row' = [row EXCEPT ![s.who] = s.what]
  /\ tally' = IF place[s.who] \in {"saved", "lobby"} /\ s.what # row[s.who]
              THEN Late(s.who) ELSE tally
  /\ UNCHANGED <<live, place, skills, learned, bounty, fresh, paying>>

LearnerWrites ==
  LET l == Head(learned) IN
  /\ learned # <<>> /\ learned' = Tail(learned)
  /\ skills' = [skills EXCEPT ![l.who][l.skill] = l.level]
  /\ UNCHANGED <<live, place, row, saves, bounty, fresh, paying, tally>>

(* A statement that fails is logged and forgotten. *)
WriteFails ==
  /\ tally.faults < MaxFaults
  /\ \/ saves # <<>> /\ saves' = Tail(saves) /\ UNCHANGED learned
        /\ tally' = [tally EXCEPT !.faults = @ + 1]
     \/ learned # <<>> /\ learned' = Tail(learned) /\ UNCHANGED saves
        /\ tally' = [Late(Head(learned).who) EXCEPT !.faults = @ + 1]
  /\ UNCHANGED <<live, place, row, skills, bounty, fresh, paying>>

(* The process dies and is started again. *)
Crash ==
  /\ tally.faults < MaxFaults
  /\ tally' = [tally EXCEPT !.faults = @ + 1, !.late = @ \cup
        {p \in Players : \/ Pending(p)
                         \/ InMemory(p) /\ row[p] # Stored(p)
                         \/ place[p] \in {"game", "saved"} /\ skills[p] # live[p].known}]
  /\ place' = [p \in Players |-> "lobby"]
  /\ saves' = <<>> /\ learned' = <<>> /\ fresh' = {} /\ paying' = Nothing
  /\ bounty' = [bounty EXCEPT !.left = {}, !.more = 0]
  /\ UNCHANGED <<live, row, skills>>

Hates == [Players -> 0..MaxHate]
Casters == {{}} \cup {{p} : p \in Players}

GrowthNext ==
  \/ \E p \in Players :
       \/ SelectRow(p)
       \/ ReturnToLobby(p)
       \/ EnterWithSkills(p)
       \/ SaveOnLeaving(p)
       \/ SaveFails(p)
       \/ RemoveSaved(p)
       \/ Reward(p)
       \/ CompareLevel(p)
       \/ \E t \in Trees : Learn(p, t)
  \/ \E m \in Mobs, hate \in Hates, by \in Casters, more \in 0..2 : Kill(m, hate, by, more)
  \/ \E p \in Players, damage \in 1..MaxHate : DieAgain(p, damage)
  \/ SendLearned
  \/ AutosaveAll
  \/ SaverWrites
  \/ LearnerWrites
  \/ WriteFails
  \/ Crash

GrowthSpec == GrowthInit /\ [][GrowthNext]_gvars

-----------------------------------------------------------------------------
GrowthTypeOK ==
  /\ live \in [Players -> [exp: Nat, sp: Nat, level: 1..MaxLevel, known: Levels]]
  /\ row \in [Players -> Progress] /\ skills \in [Players -> Levels]
  /\ place \in [Players -> {"lobby", "selected", "game", "saved"}]
  /\ saves \in Seq([who: Players, what: Progress]) /\ Len(saves) <= SaveRoom
  /\ learned \in Seq([who: Players, skill: SkillIds, level: Nat]) /\ Len(learned) <= SaveRoom
  /\ fresh \subseteq Players /\ bounty.left \subseteq Players

Fits(r) == r.level <= Capped(LevelForExp(r.exp))

(* No level without its EXP: not in memory, not in a snapshot and not in the
   table, though the connection of a player reads the fields while the loop is
   between EXP and level and the saver writes whole rows out of order; and
   unless a save met that gap, level and EXP agree whenever the loop is done. *)
LevelFitsExp ==
  /\ \A p \in Players : Fits(live[p]) /\ Fits(row[p])
  /\ \A i \in DOMAIN saves : Fits(saves[i].what)
  /\ \A p \in Players :
       InMemory(p) /\ p \notin fresh \cup tally.late
         => live[p].level = Capped(LevelForExp(live[p].exp))

CostOf(entries) == SumFunctionOnSet([t \in Trees |-> t.cost], entries)

(* What p has paid for it knows, and what it knows it was granted or has paid for. *)
Owns(p, known) ==
  /\ \A t \in tally.taken[p] : t.level <= known[t.skill]
  /\ \A s \in SkillIds : known[s] # 0 =>
       \E t \in Trees : t.skill = s /\ t.level = known[s] /\ (t.npc => t \in tally.taken[p])

(* SP earned is SP held plus the price of the entries learned, listed or not, and
   they are the skills known - in memory and, once everything is written, in the
   two tables that are written apart, unless a crash, a failed statement or a
   late snapshot took something away (late). *)
PaidInFull ==
  \A p \in Players \ tally.late :
    /\ place[p] \in {"game", "saved"} =>
         live[p].sp + CostOf(tally.taken[p]) = tally.earned[p] /\ Owns(p, live[p].known)
    /\ place[p] = "lobby" /\ ~Pending(p) =>
         row[p].sp + CostOf(tally.taken[p]) = tally.earned[p] /\ Owns(p, skills[p])

(* All attackers together get no more EXP than the monster is worth, each time it
   dies: a skill with several damages may kill it up to three times
   (applySkillEffects, handleNPCDeath). *)
RewardShared == tally.before + tally.given <= bounty.deaths * bounty.mob.exp

(* A monster is paid for once, however often it dies: not so, see DieAgain. *)
PaidOnce == tally.before + tally.given <= bounty.mob.exp

(* The progress of the players is sound: every variable has its type, levels have
   their EXP, skills were granted or paid for, and at each death a reward is
   shared out at most once. *)
ProgressSound == GrowthTypeOK /\ LevelFitsExp /\ PaidInFull /\ RewardShared

(* A skill in the table never falls back to a lower level, though the loop, the
   learner and the next entry into the world write it - unless the player came
   back before what it had learned was written (late). *)
SkillRowsGrow ==
  [][\A p \in Players \ tally.late, s \in SkillIds : skills'[p][s] >= skills[p][s]]_gvars

(* registry/skilltree.go:175: a character can learn level 1 of a skill or exactly
   the next level of a known skill. *)
SkillsInOrder ==
  [][\A p \in Players, s \in SkillIds :
       place[p] = "game" /\ place'[p] = "game" =>
         live'[p].known[s] <= live[p].known[s] + 1]_gvars
=============================================================================
