----------------------------- MODULE Characters -----------------------------
(***************************************************************************)
(* The characters of the accounts: creation, deletion, selection and the   *)
(* way back to the lobby (src/internal/gameserver: usecase/character.go,   *)
(* handlers/client/character.go, repo/postgres.go, the unique indexes of   *)
(* schema/migrations).                                                     *)
(*                                                                         *)
(* A connection runs one handler at a time; each of its steps is one query *)
(* or one transaction. A new login of an account kicks the connection it   *)
(* has, which still ends the handler it is in. What a kick saves is the    *)
(* business of Sessions: here it takes the character out of the world.     *)
(*                                                                         *)
(* Levels are young (below 20) and old; a name stands for its letters.     *)
(***************************************************************************)
EXTENDS Integers, FiniteSets

CONSTANTS
  Accounts,
  Conns,       \* the connections the clients will open
  AccountOf,   \* whose they are
  Names,
  Reserved,    \* the names validateCharacterName refuses
  MaxSlots,    \* the characters of an account, 7
  Week,        \* what an old character waits for its deletion
  MaxIds,      \* bound: the characters ever created
  MaxTime,     \* bound: the time that passes
  MaxRollbacks \* bound: the transactions whose statements fail

ASSUME CharactersAssumption ==
  /\ AccountOf \in [Conns -> Accounts] /\ Reserved \subseteq Names /\ Names # {}
  /\ MaxSlots \in Nat \ {0} /\ Week \in Nat \ {0}
  /\ MaxIds \in Nat /\ MaxTime \in Nat /\ MaxRollbacks \in Nat

VARIABLES
  table,     \* the characters table, by char_id
  owned,     \* the characters with rows in the items, skills or shortcuts table
  lastId,    \* the sequence of char_id
  inWorld,   \* the world registry: the copy made by CharacterSelect
  job,       \* the handler of each connection
  entered,   \* the connections in StateInGame
  kicked,    \* the connections without a session that are still in a handler
  now,
  verdicts   \* history: creations refused by the database, and what overlapped

cvars == <<table, owned, lastId, inWorld, job, entered, kicked, now, verdicts>>

Ids == 1..MaxIds
Row == [account: Accounts, name: Names, slot: 0..MaxSlots - 1, old: BOOLEAN,
        mark: 0..MaxTime + Week]
Steps == {"out", "idle", "count", "slot", "insert", "find", "purge", "mark", "add", "gone"}
NoJob == [at |-> "idle", id |-> 0, name |-> CHOOSE n \in Names : TRUE, slot |-> 0,
          row |-> <<>>, raced |-> FALSE]

RowsOf(a) == {id \in DOMAIN table : table[id].account = a}
InWorldOf(a) == {id \in DOMAIN inWorld : inWorld[id].account = a}

(* GetByAccount: ORDER BY char_slot, the characters with their positions. *)
GetByAccount(a) ==
  [id \in RowsOf(a) |-> Cardinality({i \in RowsOf(a) : table[i].slot <= table[id].slot})]

Without(f, S) == [x \in DOMAIN f \ S |-> f[x]]

(* models/character.go: CanBeDeleted and IsMarkedForDeletion. *)
CanBeDeleted(r) == r.old => r.mark > 0 /\ r.mark <= now
IsMarkedForDeletion(r) == r.mark > 0

CharactersInit ==
  /\ table = <<>> /\ owned = {} /\ lastId = 0 /\ inWorld = <<>>
  /\ job = [c \in Conns |-> [NoJob EXCEPT !.at = "out"]]
  /\ entered = {} /\ kicked = {} /\ now = 0
  /\ verdicts = [rollbacks |-> 0, refused |-> {}]

Receives(c) == job[c].at = "idle" /\ c \notin kicked \cup entered

(* The next step of the handler; without a session it was the last packet. *)
Step(c, j) == job' = [job EXCEPT ![c] = j]
Finish(c) == Step(c, [NoJob EXCEPT !.at = IF c \in kicked THEN "gone" ELSE "idle"])

(* A fatal handler error closes the connection; its cleanup takes the
   character of the account out of the world if the session was still its own. *)
Breaks(c) ==
  /\ Step(c, [NoJob EXCEPT !.at = "gone"])
  /\ inWorld' = IF c \in kicked THEN inWorld ELSE Without(inWorld, InWorldOf(AccountOf[c]))
  /\ entered' = entered \ {c}

-----------------------------------------------------------------------------
(* handleAuthLogin with kickExistingSession. *)
Login(c) ==
  LET older == {d \in Conns \ {c} : AccountOf[d] = AccountOf[c] /\ job[d].at \notin {"out", "gone"}}
  IN /\ job[c].at = "out"
     /\ job' = [d \in Conns |->
          CASE d = c -> NoJob
            [] d \in older /\ job[d].at = "idle" -> [NoJob EXCEPT !.at = "gone"]
            [] OTHER -> job[d]]
     /\ kicked' = kicked \cup older
     /\ entered' = entered \ older
     /\ inWorld' = Without(inWorld, InWorldOf(AccountOf[c]))
     /\ UNCHANGED <<table, owned, lastId, now, verdicts>>

-----------------------------------------------------------------------------
(* handleCharacterCreate: validateCharacterCreation, findAvailableSlot and the
   transaction. A refusal is answered, the connection goes on. *)

ValidName(n) == n \notin Reserved
IsNameTaken(n) == \E id \in DOMAIN table : table[id].name = n

CharacterCreate(c, n) ==
  /\ Receives(c)
  /\ ValidName(n) /\ ~IsNameTaken(n)
  /\ Step(c, [NoJob EXCEPT !.at = "count", !.name = n])
  /\ UNCHANGED <<table, owned, lastId, inWorld, entered, kicked, now, verdicts>>

GetCount(c) ==
  /\ job[c].at = "count"
  /\ IF Cardinality(RowsOf(AccountOf[c])) >= MaxSlots THEN Finish(c)
     ELSE Step(c, [job[c] EXCEPT !.at = "slot"])
  /\ UNCHANGED <<table, owned, lastId, inWorld, entered, kicked, now, verdicts>>

FreeSlots(a) == (0..MaxSlots - 1) \ {table[id].slot : id \in RowsOf(a)}
Lowest(S) == CHOOSE n \in S : \A m \in S : n <= m

FindAvailableSlot(c) ==
  /\ job[c].at = "slot"
  /\ IF FreeSlots(AccountOf[c]) = {} THEN Finish(c)
     ELSE Step(c, [job[c] EXCEPT !.at = "insert", !.slot = Lowest(FreeSlots(AccountOf[c]))])
  /\ UNCHANGED <<table, owned, lastId, inWorld, entered, kicked, now, verdicts>>

(* idx_characters_char_name_unique, idx_characters_account_slot and the check
   of char_slot. *)

(* Mutant: no index on account and slot. *)
AdmittedByName(r) == \A id \in DOMAIN table : table[id].name # r.name

Admitted(r) ==
  /\ r.slot \in 0..MaxSlots - 1
  /\ \A id \in DOMAIN table : /\ table[id].name # r.name
                              /\ <<table[id].account, table[id].slot>> # <<r.account, r.slot>>

NewRow(c) == [account |-> AccountOf[c], name |-> job[c].name, slot |-> job[c].slot,
              old |-> FALSE, mark |-> 0]

(* The row, its items and its skills commit together; the other creations in
   progress learn, for the history, that one came in between. *)
CreateCharacter(c) ==
  LET r == NewRow(c) IN
  /\ job[c].at = "insert" /\ Admitted(r) /\ lastId < MaxIds
  /\ lastId' = lastId + 1
  /\ table' = [id \in DOMAIN table \cup {lastId + 1} |-> IF id = lastId + 1 THEN r ELSE table[id]]
  /\ owned' = owned \cup {lastId + 1}
  /\ job' = [d \in Conns |->
       IF d = c THEN [NoJob EXCEPT !.at = IF c \in kicked THEN "gone" ELSE "idle"]
       ELSE [job[d] EXCEPT !.raced = @ \/ job[d].at \in {"count", "slot", "insert"}]]
  /\ UNCHANGED <<inWorld, entered, kicked, now, verdicts>>

(* The database refuses the row: answered with CreationFailed. *)
CreateRefused(c) ==
  /\ job[c].at = "insert" /\ ~Admitted(NewRow(c))
  /\ verdicts' = [verdicts EXCEPT !.refused = @ \cup {job[c].raced}]
  /\ Finish(c)
  /\ UNCHANGED <<table, owned, lastId, inWorld, entered, kicked, now>>

-----------------------------------------------------------------------------
(* handleCharacterDelete: the position in the list of now, not in the list the
   client was sent. *)

CharacterDelete(c, n) ==
  LET list == GetByAccount(AccountOf[c]) IN
  /\ Receives(c)
  /\ \E id \in DOMAIN list : list[id] = n /\ Step(c, [NoJob EXCEPT !.at = "find", !.id = id])
  /\ UNCHANGED <<table, owned, lastId, inWorld, entered, kicked, now, verdicts>>

DeleteCharacter(c) ==
  LET id == job[c].id IN
  /\ job[c].at = "find"
  /\ IF id \notin DOMAIN table THEN Breaks(c)
     ELSE /\ Step(c, [job[c] EXCEPT !.at = IF CanBeDeleted(table[id]) THEN "purge" ELSE "mark",
                                    !.row = table[id]])
          /\ UNCHANGED <<inWorld, entered>>
  /\ UNCHANGED <<table, owned, lastId, kicked, now, verdicts>>

PermanentlyDelete(c) ==
  /\ job[c].at = "purge"
  /\ table' = Without(table, {job[c].id})
  /\ owned' = owned \ {job[c].id}
  /\ Finish(c)
  /\ UNCHANGED <<lastId, inWorld, entered, kicked, now, verdicts>>

(* A statement of one of the two transactions fails: all of it is rolled back. *)

Rollback(c) ==
  /\ job[c].at \in {"insert", "purge"} /\ verdicts.rollbacks < MaxRollbacks
  /\ verdicts' = [verdicts EXCEPT !.rollbacks = @ + 1]
  /\ IF job[c].at = "purge" THEN Breaks(c) ELSE Finish(c) /\ UNCHANGED <<inWorld, entered>>
  /\ UNCHANGED <<table, owned, lastId, kicked, now>>

(* Update writes every column but the account and the name, if the row is there. *)
Update(id, r) == [x \in DOMAIN table |->
  IF x = id THEN [r EXCEPT !.account = table[x].account, !.name = table[x].name] ELSE table[x]]

MarkForDeletion(c) ==
  /\ job[c].at = "mark"
  /\ table' = Update(job[c].id, [job[c].row EXCEPT !.mark = now + Week])
  /\ Finish(c)
  /\ UNCHANGED <<owned, lastId, inWorld, entered, kicked, now, verdicts>>

-----------------------------------------------------------------------------
(* handleCharacterSelect: SelectCharacter, then AddPlayer with the row it read. *)

SelectCharacter(c, id) ==
  /\ Receives(c) /\ id \in Ids
  /\ IF \/ id \notin RowsOf(AccountOf[c])
        \/ IsMarkedForDeletion(table[id]) /\ ~CanBeDeleted(table[id])
     THEN Breaks(c)
     ELSE Step(c, [NoJob EXCEPT !.at = "add", !.id = id, !.row = table[id]])
          /\ UNCHANGED <<inWorld, entered>>
  /\ UNCHANGED <<table, owned, lastId, kicked, now, verdicts>>

AddSelected(c) ==
  /\ job[c].at = "add"
  /\ inWorld' = [id \in DOMAIN inWorld \cup {job[c].id} |->
                   IF id = job[c].id THEN job[c].row ELSE inWorld[id]]
  /\ Finish(c)
  /\ UNCHANGED <<table, owned, lastId, entered, kicked, now, verdicts>>

(* handleEnterWorld; the auto-get skills are granted if the row is still there:
   character_skills references characters. Without a character in the world the
   connection is in the game all the same. *)
EnterGame(c) ==
  /\ Receives(c)
  /\ IF InWorldOf(AccountOf[c]) = {} THEN UNCHANGED owned
     ELSE \E id \in InWorldOf(AccountOf[c]) : owned' = owned \cup ({id} \cap DOMAIN table)
  /\ entered' = entered \cup {c}
  /\ UNCHANGED <<table, lastId, inWorld, job, kicked, now, verdicts>>

(* handleRequestShortCutReg, under the same foreign key. *)
SaveShortcut(c) ==
  /\ c \in entered /\ job[c].at = "idle"
  /\ \E id \in InWorldOf(AccountOf[c]) : owned' = owned \cup ({id} \cap DOMAIN table)
  /\ UNCHANGED <<table, lastId, inWorld, job, entered, kicked, now, verdicts>>

(* applyLevelUp brings a character in the world to level 20. *)
ComeOfAge(c) ==
  /\ c \in entered
  /\ \E id \in InWorldOf(AccountOf[c]) : inWorld' = [inWorld EXCEPT ![id].old = TRUE]
  /\ UNCHANGED <<table, owned, lastId, job, entered, kicked, now, verdicts>>

(* RequestRestart, in the lobby and in the game: a character in the world is
   saved and leaves it. *)
Restart(c) ==
  /\ job[c].at = "idle"
  /\ IF InWorldOf(AccountOf[c]) = {} THEN UNCHANGED <<table, inWorld>>
     ELSE \E id \in InWorldOf(AccountOf[c]) :
            table' = Update(id, inWorld[id]) /\ inWorld' = Without(inWorld, {id})
  /\ entered' = entered \ {c}
  /\ UNCHANGED <<owned, lastId, job, kicked, now, verdicts>>

(* RequestGotoLobby removes the player without saving. *)
GotoLobby(c) ==
  /\ Receives(c)
  /\ \E id \in InWorldOf(AccountOf[c]) : inWorld' = Without(inWorld, {id})
  /\ UNCHANGED <<table, owned, lastId, job, entered, kicked, now, verdicts>>

TimePasses ==
  /\ now < MaxTime /\ now' = now + 1
  /\ UNCHANGED <<table, owned, lastId, inWorld, job, entered, kicked, verdicts>>

CharactersNext ==
  \/ \E c \in Conns :
       \/ Login(c)
       \/ \E n \in Names : CharacterCreate(c, n)
       \/ GetCount(c)
       \/ FindAvailableSlot(c)
       \/ CreateCharacter(c)
       \/ CreateRefused(c)
       \/ \E n \in 1..MaxSlots : CharacterDelete(c, n)
       \/ DeleteCharacter(c)
       \/ PermanentlyDelete(c)
       \/ Rollback(c)
       \/ MarkForDeletion(c)
       \/ \E id \in Ids : SelectCharacter(c, id)
       \/ AddSelected(c)
       \/ EnterGame(c)
       \/ SaveShortcut(c)
       \/ ComeOfAge(c)
       \/ Restart(c)
       \/ GotoLobby(c)
  \/ TimePasses

CharactersSpec == CharactersInit /\ [][CharactersNext]_cvars

-----------------------------------------------------------------------------
CharactersTypeOK ==
  /\ DOMAIN table \subseteq Ids /\ \A id \in DOMAIN table : table[id] \in Row
  /\ DOMAIN inWorld \subseteq Ids /\ \A id \in DOMAIN inWorld : inWorld[id] \in Row
  /\ lastId \in 0..MaxIds /\ owned \subseteq Ids /\ now \in 0..MaxTime
  /\ \A c \in Conns : job[c].at \in Steps /\ job[c].id \in 0..MaxIds /\ job[c].name \in Names
  /\ entered \subseteq Conns /\ kicked \subseteq Conns

(* However the creations of two connections or two accounts interleave between
   their checks and their transactions, names are unique, and an account has at
   most MaxSlots characters, each in a slot of its own: usecase/character.go
   checks, the indexes decide, and a whole-row Update never moves a character. *)
RosterSound ==
  /\ \A i, j \in DOMAIN table : i # j =>
       /\ table[i].name # table[j].name
       /\ <<table[i].account, table[i].slot>> # <<table[j].account, table[j].slot>>
  /\ \A a \in Accounts : Cardinality(RowsOf(a)) <= MaxSlots

(* A character and what belongs to it exist together: a creation that fails
   half way, a deletion that fails half way, and a deletion of the character
   that is entering the world leave no row without the other. *)
NoOrphans == owned = DOMAIN table

(* The database refuses a creation only if another one came between its checks
   and its transaction: what IsNameTaken, GetCount and findAvailableSlot let
   through agrees with the indexes. *)
RefusedForCause == FALSE \notin verdicts.refused

(* The characters of the accounts are sound: every variable has its type, names,
   slots and counts are within their rules, nothing is orphaned, and no creation
   is refused without cause. *)
AccountsSound == CharactersTypeOK /\ RosterSound /\ NoOrphans /\ RefusedForCause
=============================================================================
