----------------------------- MODULE MCCareers ------------------------------
(***************************************************************************)
(* Characters and Growth for TLC: the characters of two accounts over three *)
(* connections, and the progress of two players with three skills. A        *)
(* behaviour is of one of the two; what they share, the characters table,   *)
(* is seen from its rows in one and from its columns in the other.          *)
(***************************************************************************)
EXTENDS Characters, Growth, TLC

CONSTANTS a, b, c1, c2, c3, p1, p2, strike, shield, luck

VARIABLE scenario
mcvars == <<cvars, gvars, scenario>>

MCAccountOf == (c1 :> a) @@ (c2 :> a) @@ (c3 :> b)

(* Worth eight levels to a beginner, grey to who has them. *)
MCMobs == {[level |-> 1, exp |-> 7, sp |-> 3]}
MCExpTable == <<0, 1, 2, 3, 4, 5, 6, 7, 8, 9>>
Entry(s, l, get, cost, npc, needs) ==
  [skill |-> s, level |-> l, get |-> get, cost |-> cost, npc |-> npc, needs |-> needs]
MCTrees == {Entry(strike, 1, 1, 1, TRUE, {}), Entry(strike, 2, 2, 1, TRUE, {}),
            Entry(shield, 1, 2, 1, TRUE, {[skill |-> strike, level |-> 1]}),
            Entry(luck, 1, 1, 0, FALSE, {}), Entry(luck, 2, 2, 0, FALSE, {})}

MCInit ==
  /\ CharactersInit /\ GrowthInit
  /\ scenario \in {"names", "lobby", "alone", "hunt", "spree"}

Rosters == scenario \in {"names", "lobby"} /\ UNCHANGED <<gvars, scenario>>
InLobby == scenario = "lobby" /\ UNCHANGED <<gvars, scenario>>
Progresses == scenario \in {"alone", "hunt", "spree"} /\ UNCHANGED <<cvars, scenario>>
Alone == scenario = "alone" /\ UNCHANGED <<cvars, scenario>>
InHunt == scenario = "hunt" /\ UNCHANGED <<cvars, scenario>>
InSpree == scenario = "spree" /\ UNCHANGED <<cvars, scenario>>

(* All connections race for names, those of one account meet in the lobby. *)
Opens(c) == scenario = "lobby" => AccountOf[c] = a
Creates(c) == scenario = "lobby" => lastId < 2
Deletes(c) == scenario = "names" => c = c3
ConnSymmetry == Permutations({c1, c2})
(* One player who kills one monster, or two of which only the first leaves: they
   kill two monsters (hunt), or one that dies three times (spree). *)
Plays(p) == scenario = "alone" => p = p1
Leaves(p) == p = p1
Hunts(hate, by, more) ==
  \/ scenario = "alone" /\ hate[p1] = 1 /\ hate[p2] = 0 /\ tally.kills = 0 /\ more = 0
  \/ scenario = "hunt" /\ more = 0 /\ hate[p2] < 2
  \/ scenario = "spree" /\ by = {p1} /\ more = 2 /\ hate[p1] = 1 /\ hate[p2] = 1
     /\ tally.kills = 0 /\ place[p2] = "game"

MCNext ==
  \/ \E c \in Conns : Login(c) /\ Opens(c) /\ Rosters
  \/ \E c \in Conns, n \in Names : CharacterCreate(c, n) /\ Creates(c) /\ Rosters
  \/ \E c \in Conns : GetCount(c) /\ Rosters
  \/ \E c \in Conns : FindAvailableSlot(c) /\ Rosters
  \/ \E c \in Conns : CreateCharacter(c) /\ Rosters
  \/ \E c \in Conns : CreateRefused(c) /\ Rosters
  \/ \E c \in Conns, n \in 1..MaxSlots : CharacterDelete(c, n) /\ Deletes(c) /\ Rosters
  \/ \E c \in Conns : DeleteCharacter(c) /\ Rosters
  \/ \E c \in Conns : PermanentlyDelete(c) /\ Rosters
  \/ \E c \in Conns : Rollback(c) /\ Rosters
  \/ \E c \in Conns : MarkForDeletion(c) /\ InLobby
  \/ \E c \in Conns, id \in Ids : SelectCharacter(c, id) /\ id \in 1..lastId /\ InLobby
  \/ \E c \in Conns : AddSelected(c) /\ InLobby
  \/ \E c \in Conns : EnterGame(c) /\ InLobby
  \/ \E c \in Conns : SaveShortcut(c) /\ InLobby
  \/ \E c \in Conns : ComeOfAge(c) /\ InLobby
  \/ \E c \in Conns : Restart(c) /\ InLobby
  \/ \E c \in Conns : GotoLobby(c) /\ InLobby
  \/ TimePasses /\ InLobby
  \/ \E p \in Players : SelectRow(p) /\ Plays(p) /\ Progresses
  \/ \E p \in Players : ReturnToLobby(p) /\ Leaves(p) /\ InHunt
  \/ \E p \in Players : EnterWithSkills(p) /\ Progresses
  \/ \E p \in Players : SaveOnLeaving(p) /\ Leaves(p) /\ Progresses
  \/ \E p \in Players : SaveFails(p) /\ Alone
  \/ \E p \in Players : RemoveSaved(p) /\ Progresses
  \/ \E p \in Players : Reward(p) /\ Progresses
  \/ \E p \in Players : CompareLevel(p) /\ Progresses
  \/ \E p \in Players, t \in Trees : Learn(p, t) /\ Alone
  \/ /\ Progresses
     /\ \E m \in Mobs, hate \in Hates, by \in Casters, more \in 0..2 :
          Hunts(hate, by, more) /\ Kill(m, hate, by, more)
  \/ InSpree /\ \E p \in Players, damage \in 1..MaxHate : damage = 1 /\ DieAgain(p, damage)
  \/ SendLearned /\ Alone
  \/ AutosaveAll /\ Alone
  \/ SaverWrites /\ Progresses
  \/ LearnerWrites /\ Alone
  \/ WriteFails /\ Alone
  \/ Crash /\ Alone

MCSpec == MCInit /\ [][MCNext]_mcvars
=============================================================================
