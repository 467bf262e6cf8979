---------------------------- MODULE CareersProofs ---------------------------
(* What TLAPS proves of Characters and Growth, for any accounts, connections,
   names and slots, players, monsters, levels and skills. However creations,
   deletions, selections and kicks interleave, the characters of the accounts
   stay sound; whatever a player's connection, the game loop and the goroutines
   that write do to its character, and whatever is lost, its levels have their
   EXP, its skills their price, and no row of skills falls back. *)
EXTENDS Characters, Growth, SumProofs, SequenceTheorems

-----------------------------------------------------------------------------
(* Characters: the inductive invariant. *)

Jobs == [at : Steps, id : 0..MaxIds, name : Names, slot : 0..MaxSlots - 1,
         row : Row \union {<<>>}, raced : BOOLEAN]

TableHolds ==
  /\ lastId \in 0..MaxIds
  /\ DOMAIN table \subseteq 1..lastId /\ \A id \in DOMAIN table : table[id] \in Row

(* No character ever changes its slot, and no id is used twice: the copy in the
   world has the slot of its row, if the row is still there. *)
WorldHolds ==
  /\ DOMAIN inWorld \subseteq 1..lastId
  /\ \A id \in DOMAIN inWorld : /\ inWorld[id] \in Row
                                /\ id \in DOMAIN table => inWorld[id].slot = table[id].slot

(* What a handler has read is what it will find, but for a deletion: the row it
   holds has the slot of the table's, and the name and the slot of a creation
   are still free unless another creation came in between. *)
HoldsRow(j) ==
  /\ j.at \in {"find", "purge", "mark", "add"} => j.id \in 1..lastId
  /\ j.at \in {"mark", "add"} => /\ j.row \in Row
                                 /\ j.id \in DOMAIN table => j.row.slot = table[j.id].slot
HoldsPlace(a, j) ==
  /\ j.at \in {"count", "slot", "insert"} /\ ~j.raced => \A id \in DOMAIN table : table[id].name # j.name
  /\ j.at = "insert" /\ ~j.raced => \A id \in RowsOf(a) : table[id].slot # j.slot
JobsHold ==
  /\ job \in [Conns -> Jobs]
  /\ \A c \in Conns : HoldsRow(job[c]) /\ HoldsPlace(AccountOf[c], job[c])

RestHolds ==
  /\ entered \subseteq Conns /\ kicked \subseteq Conns /\ now \in 0..MaxTime
  /\ verdicts \in [rollbacks : Nat, refused : SUBSET BOOLEAN]

Distinct ==
  \A i, j \in DOMAIN table : i # j =>
    /\ table[i].name # table[j].name
    /\ <<table[i].account, table[i].slot>> # <<table[j].account, table[j].slot>>

CInv ==
  /\ TableHolds /\ WorldHolds /\ JobsHold /\ RestHolds
  /\ Distinct /\ NoOrphans /\ RefusedForCause

LEMMA SlotsBound ==
  ASSUME TableHolds, Distinct, NEW a
  PROVE  Cardinality(RowsOf(a)) <= MaxSlots
<1> DEFINE Places == 0..MaxSlots - 1
           slotOf == [id \in RowsOf(a) |-> table[id].slot]
<1>1. slotOf \in [RowsOf(a) -> Places]
  BY DEF TableHolds, RowsOf, Row
<1>2. slotOf \in Injection(RowsOf(a), Places)
  <2>1. \A i, j \in RowsOf(a) : slotOf[i] = slotOf[j] => i = j
    BY DEF Distinct, RowsOf
  <2> HIDE DEF slotOf
  <2> QED BY <1>1, <2>1 DEF Injection, IsInjective
<1>3. IsFiniteSet(Places) /\ Cardinality(Places) = MaxSlots
  BY FS_Interval, CharactersAssumption
<1> HIDE DEF slotOf, Places
<1>4. Cardinality(RowsOf(a)) <= Cardinality(Places)
  BY <1>2, <1>3, FS_Injection
<1> QED BY <1>3, <1>4

LEMMA CInvIsSound == CInv => AccountsSound
<1> SUFFICES ASSUME CInv PROVE AccountsSound
  OBVIOUS
<1>1. RosterSound
  BY SlotsBound DEF CInv, Distinct, RosterSound
<1>2. CharactersTypeOK
  <2>1. 1..lastId \subseteq Ids
    BY CharactersAssumption DEF CInv, TableHolds, Ids
  <2>2. owned \subseteq Ids /\ DOMAIN table \subseteq Ids /\ DOMAIN inWorld \subseteq Ids
    BY <2>1 DEF CInv, TableHolds, WorldHolds, NoOrphans
  <2>3. \A c \in Conns : job[c].at \in Steps /\ job[c].id \in 0..MaxIds /\ job[c].name \in Names
    BY DEF CInv, JobsHold, Jobs
  <2> QED BY <2>2, <2>3 DEF CInv, TableHolds, WorldHolds, RestHolds, CharactersTypeOK
<1> QED BY <1>1, <1>2 DEF CInv, AccountsSound

-----------------------------------------------------------------------------
(* Steps that create nobody. *)

LEMMA NoJobIsAJob == /\ NoJob \in Jobs /\ NoJob.at = "idle" /\ NoJob.id = 0 /\ ~NoJob.raced
                     /\ \A step \in Steps : /\ [NoJob EXCEPT !.at = step] \in Jobs
                                            /\ [NoJob EXCEPT !.at = step].at = step
<1>1. (CHOOSE n \in Names : TRUE) \in Names
  BY CharactersAssumption
<1>2. 0 \in 0..MaxSlots - 1 /\ 0 \in 0..MaxIds
  BY CharactersAssumption
<1>3. NoJob \in Jobs
  BY <1>1, <1>2 DEF NoJob, Jobs, Steps
<1> QED BY <1>3 DEF NoJob, Jobs, Steps

(* Who is, and stays, on the list keeps its name, its account and its slot. *)
Kept ==
  /\ DOMAIN table' \subseteq DOMAIN table
  /\ \A id \in DOMAIN table' : /\ table'[id].name = table[id].name
                               /\ table'[id].account = table[id].account
                               /\ table'[id].slot = table[id].slot

LEMMA KeptHolds ==
  ASSUME CInv, Kept, lastId' = lastId
  PROVE  /\ Distinct'
         /\ \A j \in Jobs : HoldsRow(j) => HoldsRow(j)'
         /\ \A a, j : HoldsPlace(a, j) => HoldsPlace(a, j)'
<1>1. Distinct'
  BY DEF CInv, Distinct, Kept
<1>2. \A j \in Jobs : HoldsRow(j) => HoldsRow(j)'
  BY DEF Kept, HoldsRow
<1>3. \A a, j : HoldsPlace(a, j) => HoldsPlace(a, j)'
  BY DEF Kept, HoldsPlace, RowsOf
<1> QED BY <1>1, <1>2, <1>3

(* One handler takes a step, or none does, and the rest holds as it held. *)
LEMMA StepKeeps ==
  ASSUME CInv, Kept, lastId' = lastId, owned' = DOMAIN table',
         \A id \in DOMAIN table' : table'[id] \in Row,
         WorldHolds', RestHolds', RefusedForCause',
         \/ job' = job
         \/ \E c \in Conns, j \in Jobs : Step(c, j) /\ HoldsRow(j) /\ HoldsPlace(AccountOf[c], j)
  PROVE  CInv'
<1>1. Distinct' /\ (\A j \in Jobs : HoldsRow(j) => HoldsRow(j)')
      /\ \A a, j : HoldsPlace(a, j) => HoldsPlace(a, j)'
  BY KeptHolds
<1>2. TableHolds'
  BY DEF CInv, TableHolds, Kept
<1>3. /\ job' \in [Conns -> Jobs]
      /\ \A c \in Conns : HoldsRow(job'[c]) /\ HoldsPlace(AccountOf[c], job'[c])
  <2>1. job \in [Conns -> Jobs] /\ \A c \in Conns : HoldsRow(job[c]) /\ HoldsPlace(AccountOf[c], job[c])
    BY DEF CInv, JobsHold
  <2>2. CASE job' = job
    BY <2>1, <2>2
  <2>3. CASE \E c \in Conns, j \in Jobs : Step(c, j) /\ HoldsRow(j) /\ HoldsPlace(AccountOf[c], j)
    <3>1. PICK c \in Conns, j \in Jobs : Step(c, j) /\ HoldsRow(j) /\ HoldsPlace(AccountOf[c], j)
      BY <2>3
    <3>2. job' \in [Conns -> Jobs] /\ job'[c] = j /\ \A d \in Conns : d # c => job'[d] = job[d]
      BY <2>1, <3>1 DEF Step
    <3> QED BY <2>1, <3>1, <3>2
  <2> QED BY <2>2, <2>3
<1>4. JobsHold'
  <2>1. \A c \in Conns : \E j \in Jobs : j = job'[c] /\ HoldsRow(j)' /\ HoldsPlace(AccountOf[c], j)'
    BY <1>1, <1>3
  <2> QED BY <1>3, <2>1 DEF JobsHold
<1> QED BY <1>1, <1>2, <1>4 DEF CInv, NoOrphans
Unoccupied == {[NoJob EXCEPT !.at = step] : step \in {"out", "idle", "gone"}}

LEMMA UnoccupiedHold ==
  /\ NoJob \in Unoccupied
  /\ \A step \in {"out", "idle", "gone"} : [NoJob EXCEPT !.at = step] \in Unoccupied
  /\ \A j \in Unoccupied : j \in Jobs /\ HoldsRow(j) /\ \A a : HoldsPlace(a, j)
<1>1. \A step \in {"out", "idle", "gone"} : [NoJob EXCEPT !.at = step] \in Unoccupied
  BY DEF Unoccupied
<1>2. NoJob = [NoJob EXCEPT !.at = "idle"]
  BY DEF NoJob
<1>3. \A j \in Unoccupied : j \in Jobs /\ j.at \in {"out", "idle", "gone"}
  <2>1. {"out", "idle", "gone"} \subseteq Steps
    BY DEF Steps
  <2>2. \A step \in {"out", "idle", "gone"} :
          [NoJob EXCEPT !.at = step] \in Jobs /\ [NoJob EXCEPT !.at = step].at = step
    BY <2>1, NoJobIsAJob
  <2> QED BY <2>2 DEF Unoccupied
<1> QED BY <1>1, <1>2, <1>3 DEF HoldsRow, HoldsPlace

LEMMA FinishIsStep ==
  ASSUME NEW c \in Conns, Finish(c)
  PROVE  \E j \in Jobs : Step(c, j) /\ HoldsRow(j) /\ HoldsPlace(AccountOf[c], j)
BY UnoccupiedHold DEF Finish

(* Some, or none, leave the world; the table keeps its rows. *)
LEMMA LeavingHolds ==
  ASSUME CInv, Kept, lastId' = lastId, NEW S, inWorld' = inWorld \/ inWorld' = Without(inWorld, S)
  PROVE  WorldHolds'
<1>1. /\ DOMAIN inWorld' \subseteq DOMAIN inWorld
      /\ \A id \in DOMAIN inWorld' : inWorld'[id] = inWorld[id]
  BY DEF Without
<1> QED BY <1>1 DEF CInv, WorldHolds, Kept

LEMMA BreakKeeps ==
  ASSUME CInv, NEW c \in Conns, Breaks(c), RestHolds', RefusedForCause',
         UNCHANGED <<table, owned, lastId, kicked>>
  PROVE  CInv'
<1>1. Kept
  BY DEF Kept
<1>2. WorldHolds'
  BY <1>1, LeavingHolds DEF Breaks
<1>3. \E j \in Jobs : Step(c, j) /\ HoldsRow(j) /\ HoldsPlace(AccountOf[c], j)
  BY UnoccupiedHold DEF Breaks
<1> QED BY <1>1, <1>2, <1>3, StepKeeps DEF CInv, TableHolds, NoOrphans

(* The steps of a handler that only read. *)
LEMMA ReadingKeeps ==
  ASSUME CInv, NEW c \in Conns,
         \E j \in Jobs : Step(c, j) /\ HoldsRow(j) /\ HoldsPlace(AccountOf[c], j),
         UNCHANGED <<table, owned, lastId, inWorld, entered, kicked, now, verdicts>>
  PROVE  CInv'
<1>1. Kept /\ RestHolds' /\ RefusedForCause'
  BY DEF CInv, Kept, RestHolds, RefusedForCause
<1>2. WorldHolds'
  BY DEF CInv, WorldHolds
<1> QED BY <1>1, <1>2, StepKeeps DEF CInv, TableHolds, NoOrphans

LEMMA CreatingSteps ==
  ASSUME CInv, NEW c \in Conns, (\E n \in Names : CharacterCreate(c, n)) \/ GetCount(c) \/ FindAvailableSlot(c)
  PROVE  CInv'
<1>1. job[c] \in Jobs /\ HoldsRow(job[c]) /\ HoldsPlace(AccountOf[c], job[c])
  BY DEF CInv, JobsHold
<1>2. ASSUME NEW n \in Names, CharacterCreate(c, n) PROVE CInv'
  <2> DEFINE j == [NoJob EXCEPT !.at = "count", !.name = n]
  <2>1. j \in Jobs /\ j.at = "count" /\ j.name = n
    BY NoJobIsAJob DEF Jobs, Steps
  <2>2. Step(c, j) /\ ~IsNameTaken(n)
    BY <1>2 DEF CharacterCreate
  <2> HIDE DEF j
  <2>3. HoldsRow(j) /\ HoldsPlace(AccountOf[c], j)
    BY <2>1, <2>2 DEF HoldsRow, HoldsPlace, IsNameTaken
  <2> QED BY <1>2, <2>1, <2>2, <2>3, ReadingKeeps DEF CharacterCreate
<1>3. CASE GetCount(c)
  <2> DEFINE j == [job[c] EXCEPT !.at = "slot"]
  <2>1. j \in Jobs /\ HoldsRow(j) /\ HoldsPlace(AccountOf[c], j)
    BY <1>1, <1>3 DEF GetCount, Jobs, Steps, HoldsRow, HoldsPlace
  <2>2. Finish(c) \/ Step(c, j)
    BY <1>3 DEF GetCount
  <2> HIDE DEF j
  <2> QED BY <1>3, <2>1, <2>2, FinishIsStep, ReadingKeeps DEF GetCount
<1>4. CASE FindAvailableSlot(c)
  <2> DEFINE free == FreeSlots(AccountOf[c])
             j == [job[c] EXCEPT !.at = "insert", !.slot = Lowest(free)]
  <2>1. CASE free = {}
    BY <1>4, <2>1, FinishIsStep, ReadingKeeps DEF FindAvailableSlot
  <2>2. CASE free # {}
    <3>1. Lowest(free) \in free
      <4>1. free \subseteq Nat
        BY CharactersAssumption DEF FreeSlots
      <4>2. \E n \in free : \A m \in free : n <= m
        <5> HIDE DEF free
        <5> QED BY <2>2, <4>1, SmallestExists
      <4> QED BY <4>2 DEF Lowest
    <3>2. Lowest(free) \in 0..MaxSlots - 1 /\ \A id \in RowsOf(AccountOf[c]) : table[id].slot # Lowest(free)
      BY <3>1 DEF FreeSlots
    <3> HIDE DEF free
    <3>3. j \in Jobs /\ HoldsRow(j) /\ HoldsPlace(AccountOf[c], j)
      BY <1>1, <1>4, <3>2 DEF FindAvailableSlot, Jobs, Steps, HoldsRow, HoldsPlace
    <3>4. Step(c, j)
      BY <1>4, <2>2 DEF FindAvailableSlot, free
    <3> HIDE DEF j
    <3> QED BY <1>4, <3>3, <3>4, ReadingKeeps DEF FindAvailableSlot
  <2> QED BY <2>1, <2>2
<1> QED BY <1>2, <1>3, <1>4
(* The database refuses only a creation that another one came in between of. *)
LEMMA RefusedKeeps ==
  ASSUME CInv, NEW c \in Conns, CreateRefused(c)
  PROVE  CInv'
<1>1. job[c] \in Jobs /\ HoldsPlace(AccountOf[c], job[c]) /\ job[c].at = "insert" /\ ~Admitted(NewRow(c))
  BY DEF CInv, JobsHold, CreateRefused
<1>2. NewRow(c).name = job[c].name /\ NewRow(c).slot = job[c].slot /\ NewRow(c).account = AccountOf[c]
      /\ job[c].slot \in 0..MaxSlots - 1 /\ job[c].raced \in BOOLEAN
  BY <1>1 DEF NewRow, Jobs
<1>3. job[c].raced
  <2> SUFFICES ASSUME ~job[c].raced PROVE Admitted(NewRow(c))
    BY <1>1
  <2>1. \A id \in DOMAIN table : table[id].name # job[c].name
    BY <1>1 DEF HoldsPlace
  <2>2. \A id \in DOMAIN table : <<table[id].account, table[id].slot>> # <<AccountOf[c], job[c].slot>>
    BY <1>1 DEF HoldsPlace, RowsOf
  <2> QED BY <1>2, <2>1, <2>2 DEF Admitted
<1>4. verdicts' = [verdicts EXCEPT !.refused = @ \union {job[c].raced}]
      /\ UNCHANGED <<table, owned, lastId, inWorld, entered, kicked, now>> /\ Finish(c)
  BY DEF CreateRefused
<1>5. RestHolds' /\ RefusedForCause'
  BY <1>2, <1>3, <1>4 DEF CInv, RestHolds, RefusedForCause
<1>6. Kept /\ WorldHolds'
  BY <1>4 DEF Kept, CInv, WorldHolds
<1> QED BY <1>4, <1>5, <1>6, FinishIsStep, StepKeeps DEF CInv, TableHolds, NoOrphans

(* The row that is created has a name and a slot nobody has, and an id nobody had;
   whoever else is creating has been raced. *)
LEMMA CreateKeeps ==
  ASSUME CInv, NEW c \in Conns, CreateCharacter(c)
  PROVE  CInv'
<1> DEFINE r == NewRow(c)
           new == lastId + 1
<1>1. /\ job[c] \in Jobs /\ lastId \in 0..MaxIds /\ lastId < MaxIds
      /\ DOMAIN table \subseteq 1..lastId /\ \A id \in DOMAIN table : table[id] \in Row
  BY DEF CInv, JobsHold, TableHolds, CreateCharacter
<1>2. r \in Row /\ r.name = job[c].name /\ r.slot = job[c].slot /\ r.account = AccountOf[c]
  BY <1>1, CharactersAssumption DEF NewRow, Row, Jobs
<1>3. /\ Admitted(r) /\ lastId' = new
      /\ table' = [id \in DOMAIN table \union {new} |-> IF id = new THEN r ELSE table[id]]
      /\ owned' = owned \union {new} /\ UNCHANGED <<inWorld, entered, kicked, now, verdicts>>
  BY DEF CreateCharacter
<1> HIDE DEF r
<1>4. new \notin DOMAIN table /\ new \in 1..MaxIds /\ lastId' \in 0..MaxIds /\ 1..lastId \subseteq 1..lastId'
      /\ new \in 1..lastId'
  BY <1>1, <1>3, CharactersAssumption
<1> HIDE DEF new
<1>5. DOMAIN table' = DOMAIN table \union {new} /\ table'[new] = r /\ \A id \in DOMAIN table : table'[id] = table[id]
  BY <1>3, <1>4
<1>6. TableHolds'
  BY <1>1, <1>2, <1>4, <1>5 DEF TableHolds
<1>7. WorldHolds'
  <2>1. \A id \in DOMAIN inWorld : id \in DOMAIN table' => id \in DOMAIN table
    <3>1. new \notin 1..lastId
      BY <1>1 DEF new
    <3> QED BY <1>5, <3>1 DEF CInv, WorldHolds
  <2> QED BY <1>3, <1>4, <1>5, <2>1 DEF CInv, WorldHolds
<1>8. Distinct'
  <2>1. \A i \in DOMAIN table : table'[i].name # r.name
                                /\ <<table'[i].account, table'[i].slot>> # <<r.account, r.slot>>
    BY <1>3, <1>5 DEF Admitted
  <2> QED BY <1>5, <2>1 DEF CInv, Distinct
<1>9. JobsHold'
  <2>1. /\ job \in [Conns -> Jobs]
        /\ \A d \in Conns : HoldsRow(job[d]) /\ HoldsPlace(AccountOf[d], job[d])
    BY DEF CInv, JobsHold
  <2>2. job' = [d \in Conns |->
          IF d = c THEN [NoJob EXCEPT !.at = IF c \in kicked THEN "gone" ELSE "idle"]
          ELSE [job[d] EXCEPT !.raced = @ \/ job[d].at \in {"count", "slot", "insert"}]]
    BY DEF CreateCharacter
  <2>3. \A d \in Conns : job'[d] \in Jobs /\ HoldsRow(job[d])' /\ HoldsPlace(AccountOf[d], job[d])'
    <3> TAKE d \in Conns
    <3>1. CASE d = c
      <4>1. job'[d] \in Unoccupied
        BY <2>2, <3>1, UnoccupiedHold
      <4>2. job'[d] \in Jobs /\ job'[d].at \notin {"count", "slot", "insert", "find", "purge", "mark", "add"}
        <5>1. \A j \in Unoccupied : j \in Jobs /\ j.at \notin {"count", "slot", "insert", "find", "purge", "mark", "add"}
          <6>1. {"out", "idle", "gone"} \subseteq Steps
            BY DEF Steps
          <6>2. \A step \in {"out", "idle", "gone"} :
                  [NoJob EXCEPT !.at = step] \in Jobs /\ [NoJob EXCEPT !.at = step].at = step
            BY <6>1, NoJobIsAJob
          <6> QED BY <6>2 DEF Unoccupied
        <5> QED BY <4>1, <5>1
      <4> QED BY <4>2 DEF HoldsRow, HoldsPlace
    <3>2. CASE d # c
      <4>1. job'[d] = [job[d] EXCEPT !.raced = @ \/ job[d].at \in {"count", "slot", "insert"}]
        BY <2>2, <3>2
      <4>2. /\ job[d] \in Jobs /\ job'[d] \in Jobs /\ job'[d].at = job[d].at
            /\ job'[d].id = job[d].id /\ job'[d].row = job[d].row
            /\ job[d].at \in {"count", "slot", "insert"} => job'[d].raced
        BY <2>1, <4>1 DEF Jobs
      <4>3. HoldsRow(job[d])'
        <5>1. new \notin 1..lastId
          BY <1>1 DEF new
        <5> QED BY <1>4, <1>5, <2>1, <4>2, <5>1 DEF HoldsRow
      <4>4. HoldsPlace(AccountOf[d], job[d])'
        BY <4>2 DEF HoldsPlace
      <4> QED BY <4>2, <4>3, <4>4
    <3> QED BY <3>1, <3>2
  <2> QED BY <2>2, <2>3 DEF JobsHold
<1> QED BY <1>3, <1>5, <1>6, <1>7, <1>8, <1>9 DEF CInv, NoOrphans, RestHolds, RefusedForCause
-----------------------------------------------------------------------------
(* Deletion. *)

LEMMA UpdateKeeps ==
  ASSUME CInv, NEW id, NEW r \in Row, id \in DOMAIN table => r.slot = table[id].slot, table' = Update(id, r)
  PROVE  Kept /\ DOMAIN table' = DOMAIN table /\ \A x \in DOMAIN table' : table'[x] \in Row
<1>1. DOMAIN table' = DOMAIN table
      /\ \A x \in DOMAIN table : table'[x] =
           IF x = id THEN [r EXCEPT !.account = table[x].account, !.name = table[x].name] ELSE table[x]
  BY DEF Update
<1>2. \A x \in DOMAIN table : table[x] \in Row
  BY DEF CInv, TableHolds
<1>3. ASSUME NEW x \in DOMAIN table PROVE /\ table'[x] \in Row /\ table'[x].name = table[x].name
        /\ table'[x].account = table[x].account /\ table'[x].slot = table[x].slot
  BY <1>1, <1>2, <1>3 DEF Row
<1> QED BY <1>1, <1>3 DEF Kept

LEMMA DeletingSteps ==
  ASSUME CInv, NEW c \in Conns,
         \/ \E n \in 1..MaxSlots : CharacterDelete(c, n)
         \/ DeleteCharacter(c) \/ PermanentlyDelete(c) \/ Rollback(c) \/ MarkForDeletion(c)
  PROVE  CInv'
<1>1. /\ job[c] \in Jobs /\ HoldsRow(job[c]) /\ HoldsPlace(AccountOf[c], job[c])
      /\ lastId \in 0..MaxIds /\ 1..lastId \subseteq 0..MaxIds
      /\ DOMAIN table \subseteq 1..lastId /\ \A id \in DOMAIN table : table[id] \in Row
  BY CharactersAssumption DEF CInv, JobsHold, TableHolds
<1>2. ASSUME NEW n \in 1..MaxSlots, CharacterDelete(c, n) PROVE CInv'
  <2>1. PICK id \in RowsOf(AccountOf[c]) : Step(c, [NoJob EXCEPT !.at = "find", !.id = id])
    BY <1>2 DEF CharacterDelete, GetByAccount
  <2> DEFINE j == [NoJob EXCEPT !.at = "find", !.id = id]
  <2>2. id \in 1..lastId
    BY <1>1, <2>1 DEF RowsOf
  <2>3. j \in Jobs /\ j.at = "find" /\ j.id = id
    BY <1>1, <2>2, NoJobIsAJob DEF Jobs, Steps
  <2>4. Step(c, j)
    BY <2>1
  <2> HIDE DEF j
  <2>5. HoldsRow(j) /\ HoldsPlace(AccountOf[c], j)
    BY <2>2, <2>3 DEF HoldsRow, HoldsPlace
  <2> QED BY <1>2, <2>3, <2>4, <2>5, ReadingKeeps DEF CharacterDelete
<1>3. CASE DeleteCharacter(c)
  <2>1. CASE job[c].id \notin DOMAIN table
    <3>1. Breaks(c) /\ UNCHANGED <<table, owned, lastId, kicked, now, verdicts>>
      BY <1>3, <2>1 DEF DeleteCharacter
    <3>2. RestHolds' /\ RefusedForCause'
      BY <3>1 DEF CInv, RestHolds, RefusedForCause, Breaks
    <3> QED BY <3>1, <3>2, BreakKeeps
  <2>2. CASE job[c].id \in DOMAIN table
    <3> DEFINE step == IF CanBeDeleted(table[job[c].id]) THEN "purge" ELSE "mark"
               j == [job[c] EXCEPT !.at = step, !.row = table[job[c].id]]
    <3>1. Step(c, j) /\ UNCHANGED <<table, owned, lastId, inWorld, entered, kicked, now, verdicts>>
      BY <1>3, <2>2 DEF DeleteCharacter
    <3>2. step \in {"purge", "mark"}
      OBVIOUS
    <3> HIDE DEF step
    <3>3. j \in Jobs /\ j.at = step /\ j.id = job[c].id /\ j.row = table[job[c].id]
      BY <1>1, <2>2, <3>2 DEF Jobs, Steps
    <3> HIDE DEF j
    <3>4. HoldsRow(j) /\ HoldsPlace(AccountOf[c], j)
      BY <1>1, <1>3, <2>2, <3>2, <3>3 DEF DeleteCharacter, HoldsRow, HoldsPlace
    <3> QED BY <3>1, <3>3, <3>4, ReadingKeeps
  <2> QED BY <2>1, <2>2
<1>4. CASE PermanentlyDelete(c)
  <2>1. /\ table' = Without(table, {job[c].id}) /\ owned' = owned \ {job[c].id} /\ Finish(c)
        /\ UNCHANGED <<lastId, inWorld, entered, kicked, now, verdicts>>
    BY <1>4 DEF PermanentlyDelete
  <2>2. DOMAIN table' = DOMAIN table \ {job[c].id} /\ \A x \in DOMAIN table' : table'[x] = table[x]
    BY <2>1 DEF Without
  <2>3. Kept /\ owned' = DOMAIN table' /\ \A x \in DOMAIN table' : table'[x] \in Row
    BY <1>1, <2>1, <2>2 DEF Kept, CInv, NoOrphans
  <2>4. WorldHolds' /\ RestHolds' /\ RefusedForCause'
    BY <2>1, <2>3, LeavingHolds DEF CInv, RestHolds, RefusedForCause
  <2> QED BY <2>1, <2>3, <2>4, FinishIsStep, StepKeeps
<1>5. CASE Rollback(c)
  <2>1. /\ verdicts' = [verdicts EXCEPT !.rollbacks = @ + 1]
        /\ UNCHANGED <<table, owned, lastId, kicked, now>>
        /\ Breaks(c) \/ (Finish(c) /\ UNCHANGED <<inWorld, entered>>)
    BY <1>5 DEF Rollback
  <2>2. RestHolds' /\ RefusedForCause'
    <3>1. verdicts \in [rollbacks : Nat, refused : SUBSET BOOLEAN]
      BY DEF CInv, RestHolds
    <3>2. verdicts' \in [rollbacks : Nat, refused : SUBSET BOOLEAN] /\ verdicts'.refused = verdicts.refused
      BY <2>1, <3>1
    <3>3. entered' \subseteq Conns
      BY <2>1 DEF CInv, RestHolds, Breaks
    <3> QED BY <2>1, <3>2, <3>3 DEF CInv, RestHolds, RefusedForCause
  <2>3. CASE Breaks(c)
    BY <2>1, <2>2, <2>3, BreakKeeps
  <2>4. CASE Finish(c) /\ UNCHANGED <<inWorld, entered>>
    <3>1. Kept /\ WorldHolds'
      BY <2>1, <2>4 DEF Kept, CInv, WorldHolds
    <3> QED BY <2>1, <2>2, <2>4, <3>1, FinishIsStep, StepKeeps DEF CInv, TableHolds, NoOrphans
  <2> QED BY <2>1, <2>3, <2>4
<1>6. CASE MarkForDeletion(c)
  <2> DEFINE r == [job[c].row EXCEPT !.mark = now + Week]
  <2>1. /\ table' = Update(job[c].id, r) /\ Finish(c)
        /\ UNCHANGED <<owned, lastId, inWorld, entered, kicked, now, verdicts>>
    BY <1>6 DEF MarkForDeletion
  <2>2. r \in Row /\ r.slot = job[c].row.slot
    <3>1. now \in 0..MaxTime /\ job[c].row \in Row
      BY <1>1, <1>6 DEF CInv, RestHolds, MarkForDeletion, HoldsRow
    <3>2. now + Week \in 0..MaxTime + Week
      BY <3>1, CharactersAssumption
    <3> QED BY <3>1, <3>2 DEF Row
  <2> HIDE DEF r
  <2>3. job[c].id \in DOMAIN table => r.slot = table[job[c].id].slot
    BY <1>1, <1>6, <2>2 DEF MarkForDeletion, HoldsRow
  <2>4. Kept /\ DOMAIN table' = DOMAIN table /\ \A x \in DOMAIN table' : table'[x] \in Row
    BY <2>1, <2>2, <2>3, UpdateKeeps
  <2>5. WorldHolds' /\ RestHolds' /\ RefusedForCause' /\ owned' = DOMAIN table'
    BY <2>1, <2>4, LeavingHolds DEF CInv, RestHolds, RefusedForCause, NoOrphans
  <2> QED BY <2>1, <2>4, <2>5, FinishIsStep, StepKeeps
<1> QED BY <1>2, <1>3, <1>4, <1>5, <1>6

-----------------------------------------------------------------------------
(* Selection and the game. *)

LEMMA SelectingSteps ==
  ASSUME CInv, NEW c \in Conns, (\E id \in Ids : SelectCharacter(c, id)) \/ AddSelected(c)
  PROVE  CInv'
<1>1. /\ job[c] \in Jobs /\ HoldsRow(job[c])
      /\ lastId \in 0..MaxIds /\ 1..lastId \subseteq 0..MaxIds
      /\ DOMAIN table \subseteq 1..lastId /\ \A id \in DOMAIN table : table[id] \in Row
  BY CharactersAssumption DEF CInv, JobsHold, TableHolds
<1>2. ASSUME NEW id \in Ids, SelectCharacter(c, id) PROVE CInv'
  <2> DEFINE j == [NoJob EXCEPT !.at = "add", !.id = id, !.row = table[id]]
  <2>1. CASE Breaks(c)
    <3>1. RestHolds' /\ RefusedForCause'
      BY <1>2, <2>1 DEF CInv, RestHolds, RefusedForCause, Breaks, SelectCharacter
    <3> QED BY <1>2, <2>1, <3>1, BreakKeeps DEF SelectCharacter
  <2>2. CASE id \in RowsOf(AccountOf[c]) /\ Step(c, j) /\ UNCHANGED <<inWorld, entered>>
    <3>1. id \in DOMAIN table /\ id \in 1..lastId
      BY <1>1, <2>2 DEF RowsOf
    <3>2. j \in Jobs /\ j.at = "add" /\ j.id = id /\ j.row = table[id]
      BY <1>1, <3>1, NoJobIsAJob DEF Jobs, Steps
    <3>3. Step(c, j)
      BY <2>2
    <3> HIDE DEF j
    <3>4. HoldsRow(j) /\ HoldsPlace(AccountOf[c], j)
      BY <1>1, <3>1, <3>2 DEF HoldsRow, HoldsPlace
    <3> QED BY <1>2, <2>2, <3>2, <3>3, <3>4, ReadingKeeps DEF SelectCharacter
  <2> QED BY <1>2, <2>1, <2>2 DEF SelectCharacter
<1>3. CASE AddSelected(c)
  <2> DEFINE id == job[c].id
  <2>1. /\ inWorld' = [x \in DOMAIN inWorld \union {id} |-> IF x = id THEN job[c].row ELSE inWorld[x]]
        /\ Finish(c) /\ UNCHANGED <<table, owned, lastId, entered, kicked, now, verdicts>>
    BY <1>3 DEF AddSelected
  <2>2. id \in 1..lastId /\ job[c].row \in Row /\ (id \in DOMAIN table => job[c].row.slot = table[id].slot)
    BY <1>1, <1>3 DEF AddSelected, HoldsRow
  <2> HIDE DEF id
  <2>3. WorldHolds'
    BY <2>1, <2>2 DEF CInv, WorldHolds
  <2>4. Kept /\ RestHolds' /\ RefusedForCause'
    BY <2>1 DEF CInv, Kept, RestHolds, RefusedForCause
  <2> QED BY <2>1, <2>3, <2>4, FinishIsStep, StepKeeps DEF CInv, TableHolds, NoOrphans
<1> QED BY <1>2, <1>3

(* The steps of a character in the world, and of the clock, in no handler. *)
LEMMA PlayingSteps ==
  ASSUME CInv,
         \/ TimePasses
         \/ \E c \in Conns : EnterGame(c) \/ SaveShortcut(c) \/ ComeOfAge(c) \/ Restart(c) \/ GotoLobby(c)
  PROVE  CInv'
<1>0. TableHolds /\ WorldHolds /\ RestHolds /\ NoOrphans /\ RefusedForCause
  BY DEF CInv
<1>1. CASE TimePasses
  <2>1. now' \in 0..MaxTime
    BY <1>0, <1>1, CharactersAssumption DEF TimePasses, RestHolds
  <2>2. Kept /\ WorldHolds' /\ RestHolds' /\ RefusedForCause'
    BY <1>0, <1>1, <2>1 DEF TimePasses, Kept, WorldHolds, RestHolds, RefusedForCause
  <2> QED BY <1>0, <1>1, <2>2, StepKeeps DEF TimePasses, TableHolds, NoOrphans
<1>2. ASSUME NEW c \in Conns, EnterGame(c) \/ SaveShortcut(c) PROVE CInv'
  <2>1. UNCHANGED <<table, lastId, inWorld, job, kicked, now, verdicts>> /\ entered' \subseteq Conns
    BY <1>0, <1>2 DEF EnterGame, SaveShortcut, RestHolds
  <2>2. owned' = DOMAIN table
    <3>1. owned' = owned \/ \E id : owned' = owned \union ({id} \intersect DOMAIN table)
      BY <1>2 DEF EnterGame, SaveShortcut
    <3> QED BY <1>0, <3>1 DEF NoOrphans
  <2>3. Kept /\ WorldHolds' /\ RestHolds' /\ RefusedForCause'
    BY <1>0, <2>1 DEF Kept, WorldHolds, RestHolds, RefusedForCause
  <2> QED BY <1>0, <2>1, <2>2, <2>3, StepKeeps DEF TableHolds
<1>3. ASSUME NEW c \in Conns, ComeOfAge(c) PROVE CInv'
  <2>1. PICK id \in DOMAIN inWorld : inWorld' = [inWorld EXCEPT ![id] = [inWorld[id] EXCEPT !.old = TRUE]]
    BY <1>3 DEF ComeOfAge, InWorldOf
  <2>2. UNCHANGED <<table, owned, lastId, job, entered, kicked, now, verdicts>>
    BY <1>3 DEF ComeOfAge
  <2> DEFINE r == [inWorld[id] EXCEPT !.old = TRUE]
  <2>3. r \in Row /\ r.slot = inWorld[id].slot
    BY <1>0 DEF WorldHolds, Row
  <2>3a. inWorld' = [inWorld EXCEPT ![id] = r]
    BY <2>1
  <2> HIDE DEF r
  <2>4. DOMAIN inWorld' = DOMAIN inWorld /\ inWorld'[id] = r
        /\ \A x \in DOMAIN inWorld : x # id => inWorld'[x] = inWorld[x]
    BY <2>3a
  <2>5. WorldHolds'
    BY <1>0, <2>2, <2>3, <2>4 DEF WorldHolds
  <2>6. Kept /\ RestHolds' /\ RefusedForCause'
    BY <1>0, <2>2 DEF Kept, RestHolds, RefusedForCause
  <2> QED BY <1>0, <2>2, <2>5, <2>6, StepKeeps DEF TableHolds, NoOrphans
<1>4. ASSUME NEW c \in Conns, Restart(c) PROVE CInv'
  <2>1. UNCHANGED <<owned, lastId, job, kicked, now, verdicts>> /\ entered' \subseteq Conns
    BY <1>0, <1>4 DEF Restart, RestHolds
  <2>2. /\ Kept /\ DOMAIN table' = DOMAIN table /\ \A x \in DOMAIN table' : table'[x] \in Row
        /\ \E T : inWorld' = inWorld \/ inWorld' = Without(inWorld, T)
    <3>1. CASE UNCHANGED <<table, inWorld>>
      BY <1>0, <3>1 DEF Kept, TableHolds
    <3>2. CASE \E id \in InWorldOf(AccountOf[c]) :
                 table' = Update(id, inWorld[id]) /\ inWorld' = Without(inWorld, {id})
      <4>1. PICK id \in DOMAIN inWorld :
                 table' = Update(id, inWorld[id]) /\ inWorld' = Without(inWorld, {id})
        BY <3>2 DEF InWorldOf
      <4>2. inWorld[id] \in Row /\ (id \in DOMAIN table => inWorld[id].slot = table[id].slot)
        BY <1>0 DEF WorldHolds
      <4> QED BY <4>1, <4>2, UpdateKeeps
    <3> QED BY <1>4, <3>1, <3>2 DEF Restart
  <2>3. WorldHolds' /\ RestHolds' /\ RefusedForCause'
    BY <1>0, <2>1, <2>2, LeavingHolds DEF RestHolds, RefusedForCause
  <2> QED BY <1>0, <2>1, <2>2, <2>3, StepKeeps DEF NoOrphans
<1>5. ASSUME NEW c \in Conns, GotoLobby(c) PROVE CInv'
  <2>1. UNCHANGED <<table, owned, lastId, job, entered, kicked, now, verdicts>>
        /\ \E T : inWorld' = Without(inWorld, T)
    BY <1>5 DEF GotoLobby
  <2>2. Kept /\ RestHolds' /\ RefusedForCause'
    BY <1>0, <2>1 DEF Kept, RestHolds, RefusedForCause
  <2>3. WorldHolds'
    BY <2>1, <2>2, LeavingHolds
  <2> QED BY <1>0, <2>1, <2>2, <2>3, StepKeeps DEF TableHolds, NoOrphans
<1> QED BY <1>1, <1>2, <1>3, <1>4, <1>5
(* A login ends the handlers of the idle connections it kicks, and no other. *)
LEMMA LoginKeeps ==
  ASSUME CInv, NEW c \in Conns, Login(c)
  PROVE  CInv'
<1> DEFINE older == {d \in Conns \ {c} : AccountOf[d] = AccountOf[c] /\ job[d].at \notin {"out", "gone"}}
<1>1. /\ \A d \in Conns : job'[d] = job[d] \/ job'[d] \in Unoccupied
      /\ job' \in [Conns -> {job'[d] : d \in Conns}]
      /\ kicked' = kicked \union older /\ entered' = entered \ older
      /\ inWorld' = Without(inWorld, InWorldOf(AccountOf[c]))
      /\ UNCHANGED <<table, owned, lastId, now, verdicts>>
  <2>1. job' = [d \in Conns |->
          CASE d = c -> NoJob
            [] d \in older /\ job[d].at = "idle" -> [NoJob EXCEPT !.at = "gone"]
            [] OTHER -> job[d]]
    BY DEF Login
  <2> HIDE DEF older
  <2>2. c \notin older
    BY DEF older
  <2>3. \A d \in Conns : job'[d] = job[d] \/ job'[d] = NoJob \/ job'[d] = [NoJob EXCEPT !.at = "gone"]
    BY <2>1, <2>2
  <2>4. job' \in [Conns -> {job'[d] : d \in Conns}]
    BY <2>1
  <2> QED BY <2>3, <2>4, UnoccupiedHold DEF Login, older
<1>2. Kept
  BY <1>1 DEF Kept
<1>3. WorldHolds' /\ RestHolds' /\ TableHolds' /\ Distinct' /\ RefusedForCause' /\ NoOrphans'
  BY <1>1, <1>2, LeavingHolds, KeptHolds DEF CInv, RestHolds, TableHolds, RefusedForCause, NoOrphans
<1>4. JobsHold'
  <2>1. \A d \in Conns : job'[d] \in Jobs /\ HoldsRow(job'[d]) /\ HoldsPlace(AccountOf[d], job'[d])
    BY <1>1, UnoccupiedHold DEF CInv, JobsHold
  <2>2. \A d \in Conns : HoldsRow(job[d])' /\ HoldsPlace(AccountOf[d], job[d])'
    <3>1. \A d \in Conns : \E j \in Jobs : j = job'[d] /\ HoldsRow(j) /\ HoldsPlace(AccountOf[d], j)
      BY <2>1
    <3>2. \A d \in Conns : \E j \in Jobs : j = job'[d] /\ HoldsRow(j)' /\ HoldsPlace(AccountOf[d], j)'
      BY <1>1, <1>2, <3>1, KeptHolds
    <3> QED BY <3>2
  <2> QED BY <1>1, <2>1, <2>2 DEF JobsHold
<1> QED BY <1>3, <1>4 DEF CInv

LEMMA CharactersStart == CharactersInit => CInv
<1> SUFFICES ASSUME CharactersInit PROVE CInv
  OBVIOUS
<1>1. DOMAIN table = {} /\ DOMAIN inWorld = {} /\ lastId \in 0..MaxIds /\ now \in 0..MaxTime
  BY CharactersAssumption DEF CharactersInit
<1>2. TableHolds /\ WorldHolds /\ Distinct /\ NoOrphans
  BY <1>1 DEF CharactersInit, TableHolds, WorldHolds, Distinct, NoOrphans
<1>3. JobsHold
  BY UnoccupiedHold DEF CharactersInit, JobsHold
<1>4. RestHolds /\ RefusedForCause
  BY <1>1 DEF CharactersInit, RestHolds, RefusedForCause
<1> QED BY <1>2, <1>3, <1>4 DEF CInv

LEMMA CharactersSteps == CInv /\ [CharactersNext]_cvars => CInv'
<1> SUFFICES ASSUME CInv, [CharactersNext]_cvars PROVE CInv'
  OBVIOUS
<1>1. CASE CharactersNext
  BY <1>1, LoginKeeps, CreatingSteps, CreateKeeps, RefusedKeeps, DeletingSteps, SelectingSteps, PlayingSteps
     DEF CharactersNext
<1>2. CASE UNCHANGED cvars
  <2>1. Kept /\ WorldHolds' /\ RestHolds' /\ RefusedForCause'
    BY <1>2 DEF cvars, CInv, Kept, WorldHolds, RestHolds, RefusedForCause
  <2> QED BY <1>2, <2>1, StepKeeps DEF cvars, CInv, TableHolds, NoOrphans
<1> QED BY <1>1, <1>2

-----------------------------------------------------------------------------
(* However the creations and deletions of any number of connections and accounts
   interleave between their checks and their transactions, names are unique, an
   account has at most MaxSlots characters, each in a slot of its own, no row is
   orphaned, and the database refuses a creation only when another one came in
   between (usecase/character.go, repo/postgres.go and the unique indexes). *)
THEOREM AccountsStaySound == CharactersSpec => []AccountsSound
BY CInvIsSound, CharactersStart, CharactersSteps, PTL DEF CharactersSpec

-----------------------------------------------------------------------------
(* Growth: the inductive invariant. *)

Exact(r) == r.level = Capped(LevelForExp(r.exp))

Rows == [who: Players, what: Progress]
Learns == [who: Players, skill: SkillIds, level: Nat]
Queues == Seq(Learns)
Pages == [exp: Nat, sp: Nat, level: 1..MaxLevel, known: Levels]
Tallies == [kills: Nat, faults: Nat, given: Nat, before: Nat, late: SUBSET Players,
            earned: [Players -> Nat], taken: [Players -> SUBSET Trees]]
Bounties == [mob: Mobs, hate: {<<>>} \union [Players -> Nat], left: SUBSET Players,
             deaths: Nat, by: SUBSET Players, more: 0..2]

GrowthTyped ==
  /\ GrowthTypeOK
  /\ bounty \in Bounties
  /\ paying \in {Nothing} \union [who: Players, skill: SkillIds, level: Nat]
  /\ tally \in Tallies

(* No row, page or snapshot is ahead of its EXP; one that was not taken between EXP
   and level is exact. The loop compares one level at a time. *)
LevelsHold ==
  /\ \A p, q \in fresh : p = q
  /\ \A p \in Players : /\ Fits(live[p]) /\ Fits(row[p])
                        /\ p \notin tally.late => Exact(row[p])
                        /\ InMemory(p) /\ p \notin fresh \cup tally.late => Exact(live[p])
  /\ \A i \in DOMAIN saves : /\ Fits(saves[i].what)
                             /\ saves[i].who \notin tally.late => Exact(saves[i].what)

(* Everything learned that is still to be written: what waits in learnCh, then what
   the loop is sending to it. *)
Due == IF paying = Nothing THEN learned ELSE Append(learned, paying)
MeantFor(e, p, s) == e.who = p /\ e.skill = s
Owed(due, p) == \E i \in DOMAIN due : due[i].who = p

(* What is due for a skill rises, from above what the table holds. *)
RowsRise(due, held, p) ==
  \A s \in SkillIds : \A i \in DOMAIN due : MeantFor(due[i], p, s) =>
    /\ held[s] <= due[i].level
    /\ \A j \in DOMAIN due : i <= j /\ MeantFor(due[j], p, s) => due[i].level <= due[j].level

(* The highest level that is written or due is the one the character knows. *)
EndsAt(due, held, known, p) ==
  \A s \in SkillIds :
    /\ held[s] <= known[s]
    /\ \A i \in DOMAIN due : MeantFor(due[i], p, s) => due[i].level <= known[s]
    /\ \/ held[s] = known[s]
       \/ \E i \in DOMAIN due : MeantFor(due[i], p, s) /\ due[i].level = known[s]

(* Nobody is selected while something is due; in the world, and until everything is
   written, the end of what is due is what the player knows. *)
SkillsOf(p) ==
  /\ RowsRise(Due, skills[p], p)
  /\ place[p] = "selected" => ~Owed(Due, p)
  /\ place[p] \in {"game", "saved"} \/ Owed(Due, p) => EndsAt(Due, skills[p], live[p].known, p)
RowsHold == \A p \in Players \ tally.late : SkillsOf(p)

(* The SP and the skills that count for a player: those in memory, or those in the
   tables once everything due is written. *)
Purse(p) == IF place[p] = "lobby" THEN row[p].sp ELSE live[p].sp
Knows(p) == IF place[p] \in {"game", "saved"} \/ Owed(Due, p) THEN live[p].known ELSE skills[p]
PaidOf(p) == Purse(p) + CostOf(tally.taken[p]) = tally.earned[p] /\ Owns(p, Knows(p))
PaidHolds == \A p \in Players \ tally.late : PaidOf(p)

(* What was given at the deaths before is within the monster's EXP for each; what is
   given at this one, and what the hate still to reward may claim, is within it once
   more, in parts of the whole hate. *)
SharesHold ==
  \/ tally.before = 0 /\ tally.given = 0 /\ bounty.left = {} /\ bounty.more = 0
  \/ /\ bounty.deaths \in Nat \ {0}
     /\ tally.before <= (bounty.deaths - 1) * bounty.mob.exp
     /\ bounty.hate \in [Players -> Nat] /\ Total(bounty.hate) > 0
     /\ tally.given * Total(bounty.hate) + bounty.mob.exp * SumFunctionOnSet(bounty.hate, bounty.left)
          <= bounty.mob.exp * Total(bounty.hate)

-----------------------------------------------------------------------------
(* Levels, penalties and shares. *)

(* The table has a greatest level that fits any EXP. *)
LEMMA LevelOfExp ==
  ASSUME NEW exp \in Nat
  PROVE  /\ LevelForExp(exp) \in DOMAIN ExpTable
         /\ ExpTable[LevelForExp(exp)] <= exp
         /\ \A k \in DOMAIN ExpTable : ExpTable[k] <= exp => k <= LevelForExp(exp)
<1> DEFINE Reached == {l \in DOMAIN ExpTable : ExpTable[l] <= exp}
           Missing == {Len(ExpTable) - l : l \in Reached}
<1>1. /\ DOMAIN ExpTable = 1..Len(ExpTable) /\ Len(ExpTable) \in Nat
      /\ \A l \in DOMAIN ExpTable : ExpTable[l] \in Nat
      /\ 1 \in Reached
  BY GrowthAssumption
<1>2. Missing \subseteq Nat /\ Missing # {}
  BY <1>1
<1>3. PICK n \in Missing : \A m \in Missing : n <= m
  BY <1>2, SmallestExists
<1>4. PICK l \in Reached : n = Len(ExpTable) - l
  BY <1>3
<1>5. ASSUME NEW k \in Reached
      PROVE  k <= l
  <2>1. Len(ExpTable) - k \in Missing
    OBVIOUS
  <2>2. Len(ExpTable) - l <= Len(ExpTable) - k
    BY <1>3, <1>4, <2>1
  <2> QED
    BY <1>1, <2>2
<1>6. \E j \in DOMAIN ExpTable :
        /\ ExpTable[j] <= exp
        /\ \A k \in DOMAIN ExpTable : ExpTable[k] <= exp => k <= j
  BY <1>4, <1>5
<1> QED
  BY <1>6 DEF LevelForExp

(* The level compared is one a character may have, at any EXP. *)
LEMMA LevelsAreCapped ==
  ASSUME NEW exp \in Nat, NEW more \in Nat, exp <= more
  PROVE  /\ Capped(LevelForExp(exp)) \in 1..MaxLevel
         /\ Capped(LevelForExp(exp)) <= Capped(LevelForExp(more))
<1>1. /\ DOMAIN ExpTable = 1..Len(ExpTable) /\ Len(ExpTable) \in Nat /\ MaxLevel \in Nat \ {0}
      /\ \A l \in DOMAIN ExpTable : ExpTable[l] \in Nat
  BY GrowthAssumption
<1>2. /\ LevelForExp(exp) \in 1..Len(ExpTable) /\ LevelForExp(more) \in 1..Len(ExpTable)
      /\ LevelForExp(exp) <= LevelForExp(more)
  <2>1. LevelForExp(exp) \in DOMAIN ExpTable /\ ExpTable[LevelForExp(exp)] <= exp
    BY LevelOfExp
  <2>2. ExpTable[LevelForExp(exp)] <= more
    BY <1>1, <2>1
  <2>3. LevelForExp(exp) <= LevelForExp(more) /\ LevelForExp(more) \in DOMAIN ExpTable
    BY <2>1, <2>2, LevelOfExp
  <2> QED
    BY <1>1, <2>1, <2>3
<1> QED
  BY <1>1, <1>2 DEF Capped

(* A character starts without EXP at level 1. *)
LEMMA BeginnersLevel == Capped(LevelForExp(0)) = 1
<1>1. /\ DOMAIN ExpTable = 1..Len(ExpTable) /\ Len(ExpTable) \in Nat /\ MaxLevel \in Nat \ {0}
      /\ \A l \in DOMAIN ExpTable : ExpTable[l] \in Nat /\ (l > 1 => ExpTable[l] > 0)
  BY GrowthAssumption
<1>2. LevelForExp(0) \in 1..Len(ExpTable) /\ ~(LevelForExp(0) > 1)
  BY <1>1, LevelOfExp
<1> QED
  BY <1>1, <1>2 DEF Capped

(* Pow(b) multiplies once for every level of difference. *)
LEMMA PowRecurs ==
  ASSUME NEW b
  PROVE  Pow(b) = [n \in 0..MaxLevel |-> IF n = 0 THEN 1 ELSE b * Pow(b)[n - 1]]
<1> DEFINE Upto(g, m) == g = [n \in 0..m |-> IF n = 0 THEN 1 ELSE b * g[n - 1]]
           T == {m \in Nat : \E g : Upto(g, m)}
<1>1. 0 \in T
  <2>1. Upto([n \in 0..0 |-> 1], 0)
    OBVIOUS
  <2> HIDE DEF Upto
  <2> QED
    BY <2>1
<1>2. ASSUME NEW m \in Nat, m \in T
      PROVE  m + 1 \in T
  <2>1. PICK g : Upto(g, m)
    BY <1>2
  <2> DEFINE h == [n \in 0..m + 1 |-> IF n = 0 THEN 1 ELSE b * g[n - 1]]
  <2>2. \A n \in 0..m : h[n] = g[n]
    BY <2>1
  <2>3. Upto(h, m + 1)
    BY <2>2, SMTT(30)
  <2> HIDE DEF Upto, h
  <2> QED
    BY <2>3
<1>3. Nat \subseteq T
  <2> HIDE DEF T
  <2> QED
    BY <1>1, <1>2, AllNumbers
<1>4. \E g : Upto(g, MaxLevel)
  BY <1>3, GrowthAssumption
<1> QED
  BY <1>4 DEF Pow

LEMMA TimesMonotonic ==
  ASSUME NEW a \in Nat, NEW b \in Nat, NEW c \in Nat, a <= b
  PROVE  a * c <= b * c /\ a * c \in Nat /\ b * c \in Nat
OBVIOUS

(* 5^n <= 6^n: the fraction of the penalty is at most one. *)
LEMMA PowsGrow ==
  ASSUME NEW n \in 0..MaxLevel
  PROVE  /\ Pow(5)[n] \in Nat /\ Pow(6)[n] \in Nat \ {0}
         /\ Pow(5)[n] <= Pow(6)[n]
<1> DEFINE Good(m) == /\ Pow(5)[m] \in Nat /\ Pow(6)[m] \in Nat \ {0}
                      /\ Pow(5)[m] <= Pow(6)[m]
           T == {m \in Nat : m <= MaxLevel => Good(m)}
<1>0. MaxLevel \in Nat
  BY GrowthAssumption
<1>1. 0 \in T
  BY <1>0, PowRecurs
<1>2. ASSUME NEW m \in Nat, m \in T
      PROVE  m + 1 \in T
  <2>1. CASE m + 1 <= MaxLevel
    <3>1. Pow(5)[m + 1] = 5 * Pow(5)[m]
      BY <1>0, <2>1, PowRecurs
    <3>2. Pow(6)[m + 1] = 6 * Pow(6)[m]
      BY <1>0, <2>1, PowRecurs
    <3>3. Good(m)
      BY <1>0, <1>2, <2>1
    <3>4. Good(m + 1)
      BY <3>1, <3>2, <3>3
    <3> QED
      BY <3>4
  <2>2. CASE ~(m + 1 <= MaxLevel)
    BY <2>2
  <2> QED
    BY <2>1, <2>2
<1>3. Nat \subseteq T
  <2> HIDE DEF T
  <2> QED
    BY <1>1, <1>2, AllNumbers
<1> QED
  BY <1>0, <1>3

LEMMA Quotient ==
  ASSUME NEW a \in Nat, NEW c \in Nat \ {0}
  PROVE  a \div c \in Nat /\ (a \div c) * c <= a
OBVIOUS

LEMMA QuotientBelow ==
  ASSUME NEW a \in Nat, NEW b \in Nat, NEW c \in Nat \ {0}, a <= b * c
  PROVE  a \div c <= b
<1> DEFINE q == a \div c
<1>1. q \in Nat /\ q * c <= a
  BY Quotient
<1> HIDE DEF q
<1>2. SUFFICES ASSUME q >= b + 1 PROVE FALSE
  BY <1>1 DEF q
<1>3. (b + 1) * c <= q * c
  BY <1>1, <1>2, TimesMonotonic
<1>4. (b + 1) * c = b * c + c
  OBVIOUS
<1> QED
  BY <1>1, <1>3, <1>4

(* LevelPenalty never adds to an amount. *)
LEMMA PenaltyLowers ==
  ASSUME NEW amount \in Nat, NEW level \in 1..MaxLevel, NEW mob \in Mobs
  PROVE  LevelPenalty(amount, level, mob) \in Nat /\ LevelPenalty(amount, level, mob) <= amount
<1> DEFINE d == (level - mob.level) - 5
<1>1. mob.level \in Nat /\ MaxLevel \in Nat
  BY GrowthAssumption
<1>2. CASE level - mob.level <= 5
  BY <1>2 DEF LevelPenalty
<1>3. CASE ~(level - mob.level <= 5)
  <2>1. d \in 0..MaxLevel
    BY <1>1, <1>3
  <2> DEFINE a == Pow(5)[d]
             b == Pow(6)[d]
  <2>2. a \in Nat /\ b \in Nat \ {0} /\ a <= b
    BY <2>1, PowsGrow
  <2>3. LevelPenalty(amount, level, mob) = (amount * a) \div b
    BY <1>3 DEF LevelPenalty
  <2> HIDE DEF a, b
  <2>4. amount * a \in Nat /\ amount * a <= amount * b
    BY <2>2, TimesMonotonic
  <2> QED
    BY <2>2, <2>3, <2>4, Quotient, QuotientBelow
<1> QED
  BY <1>2, <1>3

-----------------------------------------------------------------------------
(* Types. *)

(* A share is at most the part of the EXP that the hate is of all hate. *)
LEMMA ShareIsPart ==
  ASSUME GrowthTyped, SharesHold, NEW p \in bounty.left, NEW amount \in Nat
  PROVE  /\ p \in Players /\ bounty.hate \in [Players -> Nat] /\ Total(bounty.hate) \in Nat \ {0}
         /\ Share(amount, p) \in Nat
         /\ Share(amount, p) * Total(bounty.hate) <= amount * bounty.hate[p]
<1>1. /\ p \in Players /\ bounty.hate \in [Players -> Nat] /\ Total(bounty.hate) > 0
      /\ live[p].level \in 1..MaxLevel /\ bounty.mob \in Mobs
  BY DEF GrowthTyped, GrowthTypeOK, SharesHold, Bounties
<1>2. Total(bounty.hate) \in Nat
  BY <1>1, GrowthAssumption, SumIsNat DEF Total
<1> DEFINE whole == LevelPenalty(amount * bounty.hate[p], live[p].level, bounty.mob)
           total == Total(bounty.hate)
<1>3. amount * bounty.hate[p] \in Nat
  BY <1>1, TimesMonotonic
<1>4. whole \in Nat /\ whole <= amount * bounty.hate[p]
  BY <1>1, <1>3, PenaltyLowers
<1>5. total \in Nat \ {0}
  BY <1>1, <1>2
<1>6. Share(amount, p) = whole \div total
  BY DEF Share
<1> HIDE DEF whole, total
<1>7. whole \div total \in Nat /\ (whole \div total) * total <= whole
  BY <1>4, <1>5, Quotient
<1>8. (whole \div total) * total \in Nat
  BY <1>5, <1>7
<1> QED
  BY <1>1, <1>3, <1>4, <1>5, <1>6, <1>7, <1>8 DEF total

(* What is sent to a channel keeps its type and its room, in front of it what waited. *)
LEMMA QueueTakes ==
  ASSUME saves \in Seq(Rows), Len(saves) <= SaveRoom, NEW new \in Seq(Rows)
  PROVE  /\ Enqueue(saves, new) \in Seq(Rows) /\ Len(Enqueue(saves, new)) <= SaveRoom
         /\ \A i \in DOMAIN Enqueue(saves, new) :
              \/ i \in DOMAIN saves /\ Enqueue(saves, new)[i] = saves[i]
              \/ \E j \in DOMAIN new : Enqueue(saves, new)[i] = new[j]
<1> DEFINE all == saves \o new
<1>1. /\ all \in Seq(Rows) /\ Len(all) = Len(saves) + Len(new)
      /\ \A i \in 1..Len(all) : all[i] = IF i <= Len(saves) THEN saves[i] ELSE new[i - Len(saves)]
  BY ConcatProperties
<1>2. ASSUME NEW i \in 1..Len(all)
      PROVE  \/ i \in DOMAIN saves /\ all[i] = saves[i]
             \/ \E j \in DOMAIN new : all[i] = new[j]
  <2>1. CASE i <= Len(saves)
    BY <1>1, <2>1
  <2>2. CASE ~(i <= Len(saves))
    <3>1. i - Len(saves) \in DOMAIN new /\ all[i] = new[i - Len(saves)]
      BY <1>1, <2>2
    <3> QED
      BY <3>1
  <2> QED
    BY <2>1, <2>2
<1> HIDE DEF all
<1>3. CASE Len(all) <= SaveRoom
  BY <1>1, <1>2, <1>3 DEF Enqueue, all
<1>4. CASE ~(Len(all) <= SaveRoom)
  <2>1. SaveRoom \in Nat \ {0}
    BY GrowthAssumption
  <2>2. Enqueue(saves, new) = SubSeq(all, 1, SaveRoom)
    BY <1>4 DEF Enqueue, all
  <2>3. /\ SubSeq(all, 1, SaveRoom) \in Seq(Rows) /\ Len(SubSeq(all, 1, SaveRoom)) = SaveRoom
        /\ \A i \in 1..SaveRoom : SubSeq(all, 1, SaveRoom)[i] = all[i]
    BY <1>1, <1>4, <2>1
  <2> QED
    BY <1>1, <1>2, <1>4, <2>1, <2>2, <2>3
<1> QED
  BY <1>1, <1>3, <1>4

(* An autosave adds snapshots of players in the world to what waits. *)
LEMMA SnapshotsAre ==
  ASSUME GrowthTyped,
         \E order \in SetToSeqs({p \in Players : InMemory(p)}) :
           saves' = Enqueue(saves, [i \in DOMAIN order |-> Snapshot(order[i])])
  PROVE  /\ saves' \in Seq(Rows) /\ Len(saves') <= SaveRoom
         /\ \A i \in DOMAIN saves' :
              \/ i \in DOMAIN saves /\ saves'[i] = saves[i]
              \/ \E p \in Players : InMemory(p) /\ saves'[i] = Snapshot(p)
<1> DEFINE S == {p \in Players : InMemory(p)}
<1>1. PICK order \in SetToSeqs(S) :
        saves' = Enqueue(saves, [i \in DOMAIN order |-> Snapshot(order[i])])
  OBVIOUS
<1> DEFINE new == [i \in DOMAIN order |-> Snapshot(order[i])]
<1>2. Cardinality(S) \in Nat
  BY GrowthAssumption, FS_Subset, FS_CardinalityType
<1>3. DOMAIN order = 1..Cardinality(S) /\ \A i \in DOMAIN order : order[i] \in S
  BY DEF SetToSeqs
<1>4. \A p \in Players : Snapshot(p) \in Rows
  BY DEF GrowthTyped, GrowthTypeOK, Snapshot, Stored, Progress, Rows
<1>5. \A i \in DOMAIN new : order[i] \in S /\ new[i] = Snapshot(order[i]) /\ new[i] \in Rows
  BY <1>3, <1>4
<1>6. new \in Seq(Rows)
  <2>1. new \in [1..Cardinality(S) -> Rows]
    BY <1>3, <1>5
  <2> HIDE DEF new
  <2> QED
    BY <1>2, <2>1, SeqDef
<1>7. saves \in Seq(Rows) /\ Len(saves) <= SaveRoom
  BY DEF GrowthTyped, GrowthTypeOK, Rows
<1> HIDE DEF new
<1>8. saves' = Enqueue(saves, new)
  BY <1>1 DEF new
<1>9. /\ saves' \in Seq(Rows) /\ Len(saves') <= SaveRoom
      /\ \A i \in DOMAIN saves' : \/ i \in DOMAIN saves /\ saves'[i] = saves[i]
                                  \/ \E j \in DOMAIN new : saves'[i] = new[j]
  BY <1>6, <1>7, <1>8, QueueTakes
<1>10. \A j \in DOMAIN new : order[j] \in Players /\ InMemory(order[j]) /\ new[j] = Snapshot(order[j])
  BY <1>5
<1> QED
  BY <1>9, <1>10

(* The entries of the class tree are typed. *)
LEMMA EntriesAreTyped ==
  \A t \in Trees : t.skill \in SkillIds /\ t.level \in Nat \ {0} /\ t.get \in Nat
                     /\ t.cost \in Nat /\ t.npc \in BOOLEAN
BY GrowthAssumption DEF TreeEntry

(* A grant is a level of an entry that is granted, or none. *)
LEMMA GrantsAreLevels ==
  ASSUME NEW level \in Nat
  PROVE  /\ AutoGetSkills(level) \in Levels
         /\ \A s \in SkillIds :
              \/ AutoGetSkills(level)[s] = 0
              \/ \E u \in Trees : u.skill = s /\ ~u.npc /\ AutoGetSkills(level)[s] = u.level
<1> DEFINE best(s) == {t.level : t \in {u \in Trees : u.skill = s /\ ~u.npc /\ level >= u.get}}
<1>1. ASSUME NEW s \in SkillIds, best(s) # {}
      PROVE  \E k \in best(s) : \A l \in best(s) : l <= k
  <2> DEFINE f == [t \in Trees |-> t.level]
             n == SumFunctionOnSet(f, Trees)
  <2>1. IsFiniteSet(Trees) /\ \A t \in Trees : f[t] \in Nat
    BY GrowthAssumption, EntriesAreTyped
  <2>2. best(s) \in SUBSET Nat
    BY EntriesAreTyped
  <2>3. n \in Nat /\ \A b \in best(s) : b <= n
    <3>1. ASSUME NEW t \in Trees
          PROVE  f[t] <= n
      <4>1. n = f[t] + SumFunctionOnSet(f, Trees \ {t})
        BY <2>1, SumTakesOut
      <4>2. SumFunctionOnSet(f, Trees \ {t}) \in Nat
        BY <2>1, SumIsNat, FS_RemoveElement
      <4> QED
        BY <2>1, <4>1, <4>2
    <3>2. n \in Nat
      BY <2>1, SumIsNat
    <3> QED
      BY <3>1, <3>2
  <2> HIDE DEF n
  <2> DEFINE gaps == {n - b : b \in best(s)}
  <2> HIDE DEF best
  <2>4. gaps \in SUBSET Nat /\ gaps # {}
    BY <1>1, <2>2, <2>3
  <2>5. PICK g \in gaps : \A h \in gaps : g <= h
    BY <2>4, SmallestExists
  <2>6. PICK k \in best(s) : g = n - k
    BY <2>5
  <2>7. ASSUME NEW l \in best(s)
        PROVE  l <= k
    <3>1. n - l \in gaps
      OBVIOUS
    <3>2. n - k <= n - l
      BY <2>5, <2>6, <3>1
    <3>3. n \in Nat /\ k \in Nat /\ l \in Nat
      BY <2>2, <2>3, <2>6
    <3> QED
      BY <3>2, <3>3
  <2> QED
    BY <2>7
<1>2. ASSUME NEW s \in SkillIds
      PROVE  \/ AutoGetSkills(level)[s] = 0
             \/ AutoGetSkills(level)[s] \in best(s)
  <2>1. AutoGetSkills(level)[s] = IF best(s) = {} THEN 0
                                  ELSE CHOOSE l \in best(s) : \A k \in best(s) : k <= l
    BY DEF AutoGetSkills
  <2> HIDE DEF best
  <2> QED
    BY <1>1, <2>1
<1>3. \A s \in SkillIds : best(s) \subseteq Nat
  BY EntriesAreTyped
<1>4. \A s \in SkillIds : AutoGetSkills(level)[s] \in Nat
  <2> HIDE DEF best
  <2> QED
    BY <1>2, <1>3
<1>5. AutoGetSkills(level) = [s \in SkillIds |-> AutoGetSkills(level)[s]]
  BY DEF AutoGetSkills
<1>6. AutoGetSkills(level) \in Levels
  BY <1>4, <1>5, SMTT(30) DEF Levels
<1> QED
  BY <1>2, <1>6

(* Reconciliation only raises levels. *)
LEMMA ReconciledIsLevels ==
  ASSUME GrowthTyped, NEW p \in Players
  PROVE  /\ Reconciled(p) \in Levels
         /\ \A s \in SkillIds : skills[p][s] \in Nat /\ skills[p][s] <= Reconciled(p)[s]
<1>1. skills[p] \in Levels /\ live[p].level \in Nat
  <2>1. live[p].level \in 1..MaxLevel /\ skills[p] \in Levels
    BY DEF GrowthTyped, GrowthTypeOK
  <2> QED
    BY <2>1, GrowthAssumption
<1> DEFINE auto == AutoGetSkills(live[p].level)
<1>2. auto \in Levels
  BY <1>1, GrantsAreLevels
<1>3. Reconciled(p) = [s \in SkillIds |-> IF skills[p][s] < auto[s] THEN auto[s] ELSE skills[p][s]]
  BY DEF Reconciled
<1> HIDE DEF auto
<1> QED
  BY <1>1, <1>2, <1>3 DEF Levels

LEMMA TallyChanges ==
  ASSUME NEW r \in Tallies
  PROVE  /\ [r EXCEPT !.faults = @ + 1] \in Tallies
         /\ \A S \in SUBSET Players :
              /\ [r EXCEPT !.late = @ \union S] \in Tallies
              /\ [r EXCEPT !.faults = @ + 1, !.late = @ \union S] \in Tallies
         /\ [r EXCEPT !.kills = @ + 1, !.given = 0, !.before = 0] \in Tallies
         /\ [r EXCEPT !.before = @ + r.given, !.given = 0] \in Tallies
         /\ \A p \in Players, t \in Trees : [r EXCEPT !.taken[p] = @ \union {t}] \in Tallies
         /\ \A p \in Players, n, k \in Nat :
              [r EXCEPT !.given = @ + n, !.earned[p] = @ + k] \in Tallies
<1>1. /\ r.kills + 1 \in Nat /\ r.faults + 1 \in Nat /\ r.given \in Nat /\ r.late \in SUBSET Players
      /\ r.before + r.given \in Nat
      /\ r.earned \in [Players -> Nat] /\ r.taken \in [Players -> SUBSET Trees]
  BY DEF Tallies
<1>2. ASSUME NEW n \in Nat, NEW S \in SUBSET Players
      PROVE  [r EXCEPT !.faults = n, !.late = S] \in Tallies
  BY DEF Tallies
<1>3. ASSUME NEW n \in Nat
      PROVE  [r EXCEPT !.faults = n] \in Tallies
  BY DEF Tallies
<1>4. ASSUME NEW S \in SUBSET Players
      PROVE  [r EXCEPT !.late = S] \in Tallies
  BY DEF Tallies
<1>5. ASSUME NEW n \in Nat
      PROVE  [r EXCEPT !.kills = n, !.given = 0, !.before = 0] \in Tallies
  BY DEF Tallies
<1>51. ASSUME NEW n \in Nat
      PROVE  [r EXCEPT !.before = n, !.given = 0] \in Tallies
  BY DEF Tallies
<1>52. ASSUME NEW f \in [Players -> SUBSET Trees]
      PROVE  [r EXCEPT !.taken = f] \in Tallies
  BY DEF Tallies
<1>6. ASSUME NEW f \in [Players -> Nat], NEW n \in Nat
      PROVE  [r EXCEPT !.given = n, !.earned = f] \in Tallies
  BY DEF Tallies
<1>7. [r EXCEPT !.faults = r.faults + 1] \in Tallies
  BY <1>1, <1>3
<1>8. ASSUME NEW S \in SUBSET Players
      PROVE  /\ [r EXCEPT !.late = r.late \union S] \in Tallies
             /\ [r EXCEPT !.faults = r.faults + 1, !.late = r.late \union S] \in Tallies
  <2>1. r.late \union S \in SUBSET Players
    BY <1>1
  <2> QED
    BY <1>1, <1>2, <1>4, <2>1
<1>9. [r EXCEPT !.kills = r.kills + 1, !.given = 0, !.before = 0] \in Tallies
  BY <1>1, <1>5
<1>10. [r EXCEPT !.before = r.before + r.given, !.given = 0] \in Tallies
  BY <1>1, <1>51
<1>11. ASSUME NEW p \in Players, NEW t \in Trees
       PROVE  [r EXCEPT !.taken[p] = @ \union {t}] \in Tallies
  <2> DEFINE f == [r.taken EXCEPT ![p] = @ \union {t}]
  <2>1. f \in [Players -> SUBSET Trees]
    BY <1>1
  <2>2. [r EXCEPT !.taken[p] = @ \union {t}] = [r EXCEPT !.taken = f]
    BY DEF Tallies
  <2> HIDE DEF f
  <2> QED
    BY <1>52, <2>1, <2>2
<1>12. ASSUME NEW p \in Players, NEW n \in Nat, NEW k \in Nat
       PROVE  [r EXCEPT !.given = @ + n, !.earned[p] = @ + k] \in Tallies
  <2> DEFINE f == [r.earned EXCEPT ![p] = @ + k]
  <2>1. f \in [Players -> Nat] /\ r.given + n \in Nat
    BY <1>1
  <2>2. [r EXCEPT !.given = @ + n, !.earned[p] = @ + k] = [r EXCEPT !.given = r.given + n, !.earned = f]
    BY DEF Tallies
  <2> HIDE DEF f
  <2> QED
    BY <1>6, <2>1, <2>2
<1> QED
  BY <1>7, <1>8, <1>9, <1>10, <1>11, <1>12

LEMMA PageGrows ==
  ASSUME NEW f \in [Players -> Pages], NEW p \in Players, NEW n \in Nat, NEW k \in Nat
  PROVE  [f EXCEPT ![p].exp = @ + n, ![p].sp = @ + k] \in [Players -> Pages]
<1>1. f[p] \in Pages /\ f[p].exp + n \in Nat /\ f[p].sp + k \in Nat
  BY DEF Pages
<1> DEFINE page == [f[p] EXCEPT !.exp = @ + n, !.sp = @ + k]
<1>2. page \in Pages
  <2>1. \A x, y \in Nat : [f[p] EXCEPT !.exp = x, !.sp = y] \in Pages
    BY <1>1 DEF Pages
  <2> QED
    BY <1>1, <2>1
<1>3. [f EXCEPT ![p].exp = @ + n, ![p].sp = @ + k] = [f EXCEPT ![p] = page]
  BY <1>1 DEF Pages
<1> QED
  BY <1>2, <1>3

LEMMA PageLearns ==
  ASSUME NEW f \in [Players -> Pages], NEW p \in Players, NEW c, f[p].sp - c \in Nat,
         NEW s \in SkillIds, NEW l \in Nat
  PROVE  [f EXCEPT ![p].sp = @ - c, ![p].known[s] = l] \in [Players -> Pages]
<1>1. f[p] \in Pages /\ f[p].known \in Levels
  BY DEF Pages
<1> DEFINE known == [f[p].known EXCEPT ![s] = l]
           page == [f[p] EXCEPT !.sp = @ - c, !.known = known]
<1>2. known \in Levels
  BY <1>1 DEF Levels
<1> HIDE DEF known
<1>3. page \in Pages
  BY <1>1, <1>2 DEF Pages
<1>4. [f EXCEPT ![p].sp = @ - c, ![p].known[s] = l] = [f EXCEPT ![p] = page]
  BY <1>1 DEF Pages, known
<1> QED
  BY <1>3, <1>4

LEMMA InitIsTyped == GrowthInit => GrowthTyped
<1> SUFFICES ASSUME GrowthInit PROVE GrowthTyped
  OBVIOUS
<1>1. MaxLevel \in Nat \ {0} /\ SaveRoom \in Nat \ {0} /\ Unskilled \in Levels
  BY GrowthAssumption DEF Unskilled, Levels
<1>2. (CHOOSE m \in Mobs : TRUE) \in Mobs
  BY GrowthAssumption
<1>3. live \in [Players -> Pages]
  BY <1>1 DEF GrowthInit, Pages
<1>4. row \in [Players -> Progress] /\ skills \in [Players -> Levels]
  BY <1>1 DEF GrowthInit, Progress
<1>5. tally \in Tallies
  BY DEF GrowthInit, Tallies
<1>6. bounty \in Bounties
  BY <1>2 DEF GrowthInit, Bounties
<1> QED
  BY <1>1, <1>3, <1>4, <1>5, <1>6 DEF GrowthInit, GrowthTyped, GrowthTypeOK, Pages, Tallies

(* Every step keeps the types; a reward needs the hate to add up to something. *)
LEMMA TypesKept ==
  ASSUME GrowthTyped, SharesHold, GrowthNext
  PROVE  GrowthTyped'
<1>0. /\ live \in [Players -> Pages] /\ row \in [Players -> Progress]
      /\ skills \in [Players -> Levels]
      /\ place \in [Players -> {"lobby", "selected", "game", "saved"}]
      /\ saves \in Seq(Rows) /\ Len(saves) <= SaveRoom
      /\ learned \in Seq(Learns) /\ Len(learned) <= SaveRoom
      /\ fresh \subseteq Players
      /\ bounty \in Bounties
      /\ paying \in {Nothing} \union Learns
      /\ tally \in Tallies
  BY DEF GrowthTyped, GrowthTypeOK, Pages, Rows, Learns, Tallies
<1>01. SaveRoom \in Nat \ {0} /\ MaxLevel \in Nat \ {0}
  BY GrowthAssumption
<1> SUFFICES
      /\ live' \in [Players -> Pages] /\ row' \in [Players -> Progress]
      /\ skills' \in [Players -> Levels]
      /\ place' \in [Players -> {"lobby", "selected", "game", "saved"}]
      /\ saves' \in Seq(Rows) /\ Len(saves') <= SaveRoom
      /\ learned' \in Seq(Learns) /\ Len(learned') <= SaveRoom
      /\ fresh' \subseteq Players
      /\ bounty' \in Bounties
      /\ paying' \in {Nothing} \union Learns
      /\ tally' \in Tallies
  BY DEF GrowthTyped, GrowthTypeOK, Pages, Rows, Learns, Tallies, Bounties
<1>03. /\ [tally EXCEPT !.faults = @ + 1] \in Tallies
       /\ \A S \in SUBSET Players :
            /\ [tally EXCEPT !.late = @ \union S] \in Tallies
            /\ [tally EXCEPT !.faults = @ + 1, !.late = @ \union S] \in Tallies
       /\ [tally EXCEPT !.kills = @ + 1, !.given = 0, !.before = 0] \in Tallies
       /\ [tally EXCEPT !.before = @ + tally.given, !.given = 0] \in Tallies
       /\ \A p \in Players, t \in Trees : [tally EXCEPT !.taken[p] = @ \union {t}] \in Tallies
       /\ \A p \in Players, n, k \in Nat :
            [tally EXCEPT !.given = @ + n, !.earned[p] = @ + k] \in Tallies
  BY <1>0, TallyChanges
<1>02. ASSUME NEW p \in Players
       PROVE  /\ Late(p) \in Tallies
              /\ Stored(p) \in Progress
  BY <1>0, <1>03 DEF Late, Stored, Progress, Pages
<1>1. ASSUME NEW p \in Players, SelectRow(p) PROVE UNCHANGED <<row, skills, saves, learned, bounty, fresh, paying>>
        /\ live' \in [Players -> Pages] /\ tally' \in Tallies
        /\ place' \in [Players -> {"lobby", "selected", "game", "saved"}]
  <2>1. [exp |-> row[p].exp, sp |-> row[p].sp, level |-> row[p].level, known |-> Unskilled] \in Pages
    BY <1>0 DEF Progress, Pages, Unskilled, Levels
  <2> QED
    BY <1>0, <1>1, <1>02, <2>1 DEF SelectRow
<1>2. ASSUME NEW p \in Players, ReturnToLobby(p) \/ RemoveSaved(p) PROVE
        /\ UNCHANGED <<live, row, skills, saves, learned, bounty, fresh, paying>>
        /\ tally' \in Tallies
        /\ place' \in [Players -> {"lobby", "selected", "game", "saved"}]
  BY <1>0, <1>2, <1>02 DEF ReturnToLobby, RemoveSaved
<1>3. ASSUME NEW p \in Players, EnterWithSkills(p) PROVE
        /\ UNCHANGED <<row, saves, learned, bounty, fresh, paying>>
        /\ live' \in [Players -> Pages] /\ skills' \in [Players -> Levels] /\ tally' \in Tallies
        /\ place' \in [Players -> {"lobby", "selected", "game", "saved"}]
  <2>1. Reconciled(p) \in Levels
    BY ReconciledIsLevels
  <2>2. live' = [live EXCEPT ![p].known = Reconciled(p)]
    BY <1>3 DEF EnterWithSkills
  <2>3. live' \in [Players -> Pages]
    <3>1. live[p] \in Pages
      BY <1>0
    <3>2. [live[p] EXCEPT !.known = Reconciled(p)] \in Pages
      BY <2>1, <3>1 DEF Pages
    <3>3. live' = [live EXCEPT ![p] = [live[p] EXCEPT !.known = Reconciled(p)]]
      BY <1>0, <2>2
    <3> QED
      BY <1>0, <3>2, <3>3
  <2> QED
    BY <1>0, <1>3, <1>02, <2>1, <2>3 DEF EnterWithSkills
<1>4. ASSUME NEW p \in Players, SaveOnLeaving(p) PROVE
        /\ UNCHANGED <<live, skills, saves, learned, bounty, fresh, paying>>
        /\ row' \in [Players -> Progress] /\ tally' \in Tallies
        /\ place' \in [Players -> {"lobby", "selected", "game", "saved"}]
  BY <1>0, <1>4, <1>02 DEF SaveOnLeaving
<1>5. ASSUME NEW p \in Players, SaveFails(p) PROVE
        /\ UNCHANGED <<live, row, skills, saves, learned, bounty, fresh, paying>>
        /\ tally' \in Tallies
        /\ place' \in [Players -> {"lobby", "selected", "game", "saved"}]
  BY <1>0, <1>03, <1>5 DEF SaveFails
<1>6. ASSUME NEW p \in Players, Reward(p) PROVE
        /\ UNCHANGED <<place, row, skills, saves, learned, paying>>
        /\ live' \in [Players -> Pages] /\ fresh' \subseteq Players /\ tally' \in Tallies
        /\ bounty' \in Bounties
  <2>1. p \in bounty.left /\ bounty.mob \in Mobs
    BY <1>0, <1>6 DEF Reward, Bounties
  <2>2. bounty.mob.exp \in Nat /\ bounty.mob.sp \in Nat
    BY <2>1, GrowthAssumption
  <2>3. Share(bounty.mob.exp, p) \in Nat /\ Share(bounty.mob.sp, p) \in Nat
    BY <2>1, <2>2, ShareIsPart
  <2>6. bounty' \in Bounties
    <3>1. bounty' = [bounty EXCEPT !.left = @ \ {p}]
      BY <1>6 DEF Reward
    <3> QED
      BY <1>0, <3>1 DEF Bounties
  <2>4. CASE InMemory(p)
    <3>1. /\ live' = [live EXCEPT ![p].exp = @ + Share(bounty.mob.exp, p),
                                  ![p].sp  = @ + Share(bounty.mob.sp, p)]
          /\ fresh' = {p}
          /\ tally' = [tally EXCEPT !.given = @ + Share(bounty.mob.exp, p),
                                    !.earned[p] = @ + Share(bounty.mob.sp, p)]
      BY <1>6, <2>4 DEF Reward
    <3>2. live' \in [Players -> Pages]
      BY <1>0, <2>3, <3>1, PageGrows
    <3>3. tally' \in Tallies
      BY <1>03, <2>3, <3>1
    <3> QED
      BY <1>0, <1>6, <2>6, <3>1, <3>2, <3>3 DEF Reward
  <2>5. CASE ~InMemory(p)
    BY <1>0, <1>6, <2>5, <2>6 DEF Reward
  <2> QED
    BY <2>4, <2>5
<1>7. ASSUME NEW p \in Players, CompareLevel(p) PROVE
        /\ UNCHANGED <<place, row, skills, learned, bounty, paying, tally>>
        /\ live' \in [Players -> Pages] /\ fresh' \subseteq Players
        /\ saves' \in Seq(Rows) /\ Len(saves') <= SaveRoom
  <2> DEFINE level == Capped(LevelForExp(live[p].exp))
             new == <<[Snapshot(p) EXCEPT !.what.level = level]>>
  <2>1. level \in 1..MaxLevel
    BY <1>0, LevelsAreCapped DEF Pages
  <2>2. new \in Seq(Rows)
    BY <1>02, <2>1, SMTT(30) DEF Snapshot, Rows, Progress
  <2>3. Enqueue(saves, new) \in Seq(Rows) /\ Len(Enqueue(saves, new)) <= SaveRoom
    BY <1>0, <2>2, QueueTakes
  <2>4. [live EXCEPT ![p].level = level] \in [Players -> Pages]
    <3> HIDE DEF level
    <3>0. live[p] \in Pages
      BY <1>0
    <3>1. [live[p] EXCEPT !.level = level] \in Pages
      BY <2>1, <3>0 DEF Pages
    <3> QED
      BY <1>0, <3>1
  <2> QED
    BY <1>0, <1>7, <2>3, <2>4 DEF CompareLevel
<1>8. ASSUME NEW p \in Players, NEW t \in Trees, Learn(p, t) PROVE
        /\ UNCHANGED <<place, row, skills, saves, learned, bounty, fresh>>
        /\ live' \in [Players -> Pages] /\ paying' \in Learns /\ tally' \in Tallies
  <2>1. /\ live' = [live EXCEPT ![p].sp = @ - t.cost, ![p].known[t.skill] = t.level]
        /\ live[p].sp >= t.cost
    BY <1>8 DEF Learn, Meets
  <2>2. live[p].sp - t.cost \in Nat
    BY <1>0, <2>1, EntriesAreTyped DEF Pages
  <2>3. live' \in [Players -> Pages]
    BY <1>0, <2>1, <2>2, EntriesAreTyped, PageLearns
  <2>4. tally' \in Tallies
    BY <1>03, <1>8 DEF Learn
  <2> QED
    BY <1>8, <2>3, <2>4, EntriesAreTyped DEF Learn, Learns
<1>9. ASSUME NEW m \in Mobs, NEW hate \in Hates, NEW by \in Casters, NEW more \in 0..2,
             Kill(m, hate, by, more) PROVE
        /\ UNCHANGED <<live, place, row, skills, saves, learned, fresh, paying>>
        /\ bounty' \in Bounties /\ tally' \in Tallies
  <2>1. hate \in [Players -> Nat] /\ by \in SUBSET Players /\ Attackers(m, hate) \in SUBSET Players
    BY DEF Hates, Casters, Attackers
  <2>2. bounty' = [mob |-> m, hate |-> hate, left |-> Attackers(m, hate), deaths |-> 1,
                    by |-> by, more |-> more]
    BY <1>9 DEF Kill
  <2>3. tally' \in Tallies
    BY <1>03, <1>9 DEF Kill
  <2>4. bounty' \in Bounties
    BY <2>1, <2>2 DEF Bounties
  <2> QED
    BY <1>9, <2>3, <2>4 DEF Kill
<1>91. ASSUME NEW p \in Players, NEW damage \in 1..MaxHate, DieAgain(p, damage) PROVE
        /\ UNCHANGED <<live, place, row, skills, saves, learned, fresh, paying>>
        /\ bounty' \in Bounties /\ tally' \in Tallies
  <2> DEFINE hate == [bounty.hate EXCEPT ![p] = @ + damage]
             left == Attackers(bounty.mob, hate)
  <2>1. bounty.hate \in [Players -> Nat] /\ bounty.more \in 1..2 /\ bounty.deaths + 1 \in Nat
    BY <1>0, <1>91 DEF DieAgain, SharesHold, Bounties
  <2>2. hate \in [Players -> Nat] /\ left \in SUBSET Players /\ bounty.more - 1 \in 0..2
    BY <2>1 DEF Attackers
  <2>3. bounty' = [bounty EXCEPT !.hate = hate, !.left = left, !.deaths = @ + 1, !.more = @ - 1]
    BY <1>91 DEF DieAgain
  <2> HIDE DEF hate, left
  <2>4. bounty' \in Bounties
    BY <1>0, <2>1, <2>2, <2>3 DEF Bounties
  <2>5. tally' \in Tallies
    BY <1>03, <1>91 DEF DieAgain
  <2> QED
    BY <1>91, <2>4, <2>5 DEF DieAgain
<1>10. ASSUME SendLearned PROVE
        /\ UNCHANGED <<live, place, row, skills, saves, bounty, fresh, tally>>
        /\ learned' \in Seq(Learns) /\ Len(learned') <= SaveRoom /\ paying' = Nothing
  BY <1>0, <1>01, <1>10 DEF SendLearned
<1>11. ASSUME AutosaveAll PROVE
        /\ UNCHANGED <<live, place, row, skills, learned, bounty, fresh, paying, tally>>
        /\ saves' \in Seq(Rows) /\ Len(saves') <= SaveRoom
  <2>1. \E order \in SetToSeqs({p \in Players : InMemory(p)}) :
           saves' = Enqueue(saves, [i \in DOMAIN order |-> Snapshot(order[i])])
    BY <1>11 DEF AutosaveAll
  <2> QED
    BY <1>11, <2>1, SnapshotsAre DEF AutosaveAll
<1>12. ASSUME SaverWrites PROVE
        /\ UNCHANGED <<live, place, skills, learned, bounty, fresh, paying>>
        /\ saves' \in Seq(Rows) /\ Len(saves') <= SaveRoom
        /\ row' \in [Players -> Progress] /\ tally' \in Tallies
  <2>1. Head(saves) \in Rows /\ saves' = Tail(saves) /\ saves # <<>>
    BY <1>0, <1>12 DEF SaverWrites
  <2>2. saves' \in Seq(Rows) /\ Len(saves') <= SaveRoom
    BY <1>0, <1>01, <2>1
  <2> QED
    BY <1>0, <1>12, <1>02, <2>1, <2>2 DEF SaverWrites, Rows
<1>13. ASSUME LearnerWrites PROVE
        /\ UNCHANGED <<live, place, row, saves, bounty, fresh, paying, tally>>
        /\ learned' \in Seq(Learns) /\ Len(learned') <= SaveRoom
        /\ skills' \in [Players -> Levels]
  <2>1. Head(learned) \in Learns /\ learned' = Tail(learned) /\ learned # <<>>
    BY <1>0, <1>13 DEF LearnerWrites
  <2>2. learned' \in Seq(Learns) /\ Len(learned') <= SaveRoom
    BY <1>0, <1>01, <2>1
  <2> QED
    BY <1>0, <1>13, <2>1, <2>2 DEF LearnerWrites, Learns, Levels
<1>14. ASSUME WriteFails PROVE
        /\ UNCHANGED <<live, place, row, skills, bounty, fresh, paying>>
        /\ saves' \in Seq(Rows) /\ Len(saves') <= SaveRoom
        /\ learned' \in Seq(Learns) /\ Len(learned') <= SaveRoom
        /\ tally' \in Tallies
  <2>1. CASE saves # <<>> /\ saves' = Tail(saves) /\ UNCHANGED learned
             /\ tally' = [tally EXCEPT !.faults = @ + 1]
    <3>1. tally' \in Tallies
      BY <1>03, <2>1
    <3>2. saves' \in Seq(Rows) /\ Len(saves') <= SaveRoom
      BY <1>0, <1>01, <2>1
    <3> QED
      BY <1>0, <1>14, <2>1, <3>1, <3>2 DEF WriteFails
  <2>2. CASE learned # <<>> /\ learned' = Tail(learned) /\ UNCHANGED saves
             /\ tally' = [Late(Head(learned).who) EXCEPT !.faults = @ + 1]
    <3>1. Head(learned) \in Learns
      BY <1>0, <2>2
    <3>2. Late(Head(learned).who) \in Tallies
      BY <1>02, <3>1 DEF Learns
    <3>3. tally' \in Tallies
      BY <2>2, <3>2, TallyChanges
    <3>4. learned' \in Seq(Learns) /\ Len(learned') <= SaveRoom
      BY <1>0, <1>01, <2>2
    <3> QED
      BY <1>0, <1>14, <2>2, <3>3, <3>4 DEF WriteFails
  <2> QED
    BY <1>14, <2>1, <2>2 DEF WriteFails
<1>15. ASSUME Crash PROVE
        /\ UNCHANGED <<live, row, skills>>
        /\ place' \in [Players -> {"lobby", "selected", "game", "saved"}]
        /\ saves' = <<>> /\ learned' = <<>> /\ fresh' = {} /\ paying' = Nothing
        /\ bounty' \in Bounties
        /\ tally' \in Tallies
  <2>1. /\ bounty' = [bounty EXCEPT !.left = {}, !.more = 0] /\ UNCHANGED <<live, row, skills>>
        /\ place' = [p \in Players |-> "lobby"]
        /\ saves' = <<>> /\ learned' = <<>> /\ fresh' = {} /\ paying' = Nothing
    BY <1>15 DEF Crash
  <2>2. bounty' \in Bounties
    <3>1. \A S \in SUBSET Players, n \in 0..2 : [bounty EXCEPT !.left = S, !.more = n] \in Bounties
      BY <1>0 DEF Bounties
    <3>2. {} \in SUBSET Players /\ 0 \in 0..2
      OBVIOUS
    <3> QED
      BY <2>1, <3>1, <3>2
  <2>3. tally' \in Tallies
    <3> DEFINE S == {p \in Players : \/ Pending(p)
                                     \/ InMemory(p) /\ row[p] # Stored(p)
                                     \/ place[p] \in {"game", "saved"} /\ skills[p] # live[p].known}
    <3>1. tally' = [tally EXCEPT !.faults = @ + 1, !.late = @ \union S]
      BY <1>15 DEF Crash
    <3>2. S \in SUBSET Players
      OBVIOUS
    <3> HIDE DEF S
    <3> QED
      BY <1>03, <3>1, <3>2
  <2> QED
    BY <2>1, <2>2, <2>3
<1> QED
  <2>1. CASE \E p \in Players : \/ SelectRow(p) \/ ReturnToLobby(p) \/ RemoveSaved(p)
                                \/ EnterWithSkills(p) \/ SaveOnLeaving(p) \/ SaveFails(p)
    BY <1>0, <1>1, <1>2, <1>3, <1>4, <1>5, <2>1
  <2>2. CASE \E p \in Players : \/ Reward(p) \/ CompareLevel(p) \/ \E t \in Trees : Learn(p, t)
    BY <1>0, <1>6, <1>7, <1>8, <2>2
  <2>3. CASE \/ \E m \in Mobs, hate \in Hates, by \in Casters, more \in 0..2 : Kill(m, hate, by, more)
             \/ \E p \in Players, damage \in 1..MaxHate : DieAgain(p, damage)
             \/ SendLearned \/ AutosaveAll \/ SaverWrites
    BY <1>0, <1>9, <1>91, <1>10, <1>11, <1>12, <2>3
  <2>4. CASE LearnerWrites \/ WriteFails
    BY <1>0, <1>13, <1>14, <2>4
  <2>5. CASE Crash
    <3>1. /\ <<>> \in Seq(Rows) /\ Len(<<>>) <= SaveRoom /\ <<>> \in Seq(Learns)
          /\ {} \subseteq Players
      BY <1>01
    <3> QED
      BY <1>0, <1>15, <2>5, <3>1
  <2> QED
    BY <2>1, <2>2, <2>3, <2>4, <2>5 DEF GrowthNext

(* A queue of rows, and one that has lost its head. *)
LEMMA TailIsOf ==
  ASSUME NEW S, NEW q \in Seq(S), q # <<>>
  PROVE  /\ Head(q) = q[1] /\ 1 \in DOMAIN q /\ Head(q) \in S
         /\ DOMAIN Tail(q) = 1..Len(q) - 1 /\ Len(q) \in Nat
         /\ \A i \in DOMAIN Tail(q) : i + 1 \in DOMAIN q /\ Tail(q)[i] = q[i + 1]
<1>1. Len(q) \in Nat /\ Len(q) > 0 /\ DOMAIN q = 1..Len(q)
  OBVIOUS
<1>2. Tail(q) \in Seq(S) /\ Len(Tail(q)) = Len(q) - 1
  OBVIOUS
<1>3. \A i \in 1..Len(q) - 1 : Tail(q)[i] = q[i + 1]
  OBVIOUS
<1> QED
  BY <1>1, <1>2, <1>3

(* The monster dies, for the first time or once more. *)
Dies == \/ \E m \in Mobs, hate \in Hates, by \in Casters, more \in 0..2 : Kill(m, hate, by, more)
        \/ \E p \in Players, damage \in 1..MaxHate : DieAgain(p, damage)

(* A death changes what is to be shared out, and nothing else. *)
LEMMA DeathsLeave ==
  ASSUME tally \in Tallies, Dies
  PROVE  /\ UNCHANGED <<live, place, row, skills, saves, learned, fresh, paying>>
         /\ tally'.late = tally.late /\ tally'.earned = tally.earned /\ tally'.taken = tally.taken
         /\ tally'.given = 0
<1>1. ASSUME NEW m \in Mobs, NEW hate \in Hates, NEW by \in Casters, NEW more \in 0..2,
             Kill(m, hate, by, more)
      PROVE  /\ UNCHANGED <<live, place, row, skills, saves, learned, fresh, paying>>
             /\ tally'.late = tally.late /\ tally'.earned = tally.earned /\ tally'.taken = tally.taken
             /\ tally'.given = 0
  BY <1>1 DEF Kill, Tallies
<1>2. ASSUME NEW p \in Players, NEW damage \in 1..MaxHate, DieAgain(p, damage)
      PROVE  /\ UNCHANGED <<live, place, row, skills, saves, learned, fresh, paying>>
             /\ tally'.late = tally.late /\ tally'.earned = tally.earned /\ tally'.taken = tally.taken
             /\ tally'.given = 0
  BY <1>2 DEF DieAgain, Tallies
<1> QED
  BY <1>1, <1>2 DEF Dies

(* Once something of a player was lost or overtaken, it stays so recorded. *)
LEMMA LateGrows ==
  ASSUME GrowthTyped, GrowthNext
  PROVE  tally.late \subseteq tally'.late
<1>0. tally \in Tallies
  BY DEF GrowthTyped, Tallies
<1>01. saves \in Seq(Rows) /\ learned \in Seq(Learns)
  BY DEF GrowthTyped, GrowthTypeOK, Rows, Learns
<1>1. \A p \in Players : tally.late \subseteq Late(p).late
  BY <1>0 DEF Late, Tallies
<1>2. ASSUME NEW p \in Players,
             \/ SelectRow(p) \/ ReturnToLobby(p) \/ RemoveSaved(p) \/ EnterWithSkills(p) \/ SaveOnLeaving(p)
      PROVE  tally.late \subseteq tally'.late
  BY <1>1, <1>2 DEF SelectRow, ReturnToLobby, RemoveSaved, EnterWithSkills, SaveOnLeaving
<1>3. ASSUME NEW p \in Players, SaveFails(p)
      PROVE  tally.late \subseteq tally'.late
  BY <1>0, <1>3 DEF SaveFails, Tallies
<1>4. ASSUME NEW p \in Players, Reward(p)
      PROVE  tally.late \subseteq tally'.late
  <2>1. CASE InMemory(p)
    BY <1>0, <1>4, <2>1 DEF Reward, Tallies
  <2>2. CASE ~InMemory(p)
    BY <1>4, <2>2 DEF Reward
  <2> QED
    BY <2>1, <2>2
<1>5. ASSUME NEW p \in Players, CompareLevel(p) \/ \E t \in Trees : Learn(p, t)
      PROVE  tally.late \subseteq tally'.late
  BY <1>0, <1>5 DEF CompareLevel, Learn, Tallies
<1>6. CASE Dies
  BY <1>0, <1>6, DeathsLeave
<1>7. CASE SendLearned \/ AutosaveAll \/ LearnerWrites
  BY <1>7 DEF SendLearned, AutosaveAll, LearnerWrites
<1>8. CASE SaverWrites
  <2>1. Head(saves) \in Rows
    BY <1>01, <1>8, TailIsOf DEF SaverWrites
  <2> QED
    BY <1>1, <1>8, <2>1 DEF SaverWrites, Rows
<1>9. CASE WriteFails
  <2>1. CASE tally' = [tally EXCEPT !.faults = @ + 1]
    BY <1>0, <2>1 DEF Tallies
  <2>2. CASE learned # <<>> /\ tally' = [Late(Head(learned).who) EXCEPT !.faults = @ + 1]
    <3>1. Head(learned) \in Learns
      BY <1>01, <2>2, TailIsOf
    <3>2. tally.late \subseteq Late(Head(learned).who).late
      BY <1>1, <3>1 DEF Learns
    <3>3. Late(Head(learned).who) \in Tallies
      BY <1>0, <3>1, TallyChanges DEF Late, Learns
    <3> QED
      BY <2>2, <3>2, <3>3 DEF Tallies
  <2> QED
    BY <1>9, <2>1, <2>2 DEF WriteFails
<1>10. CASE Crash
  BY <1>0, <1>10 DEF Crash, Tallies
<1> QED
  BY <1>2, <1>3, <1>4, <1>5, <1>6, <1>7, <1>8, <1>9, <1>10 DEF GrowthNext, Dies

-----------------------------------------------------------------------------
(* Levels. *)

LEMMA InitLevels == GrowthInit => LevelsHold
<1> SUFFICES ASSUME GrowthInit PROVE LevelsHold
  OBVIOUS
<1>1. /\ \A p \in Players : /\ live[p].exp = 0 /\ live[p].level = 1
                            /\ row[p].exp = 0 /\ row[p].level = 1
      /\ DOMAIN saves = {}
      /\ fresh = {}
  BY DEF GrowthInit
<1> QED
  BY <1>1, BeginnersLevel DEF LevelsHold, Fits, Exact

(* Steps that give no EXP and no level, write no row and take no snapshot. *)
LEMMA LevelsUndisturbed ==
  ASSUME LevelsHold, tally.late \subseteq tally'.late, UNCHANGED row,
         fresh' \subseteq fresh,
         \A i \in DOMAIN saves' : \E j \in DOMAIN saves : saves'[i] = saves[j],
         \A p \in Players :
           /\ live'[p].exp = live[p].exp /\ live'[p].level = live[p].level
           /\ InMemory(p)' => InMemory(p) /\ (p \in fresh => p \in fresh')
  PROVE  LevelsHold'
<1>1. ASSUME NEW p \in Players
      PROVE  /\ Fits(live[p])' /\ Fits(row[p])'
             /\ p \notin tally'.late => Exact(row[p])'
             /\ InMemory(p)' /\ p \notin fresh' \cup tally'.late => Exact(live[p])'
  BY DEF LevelsHold, Fits, Exact
<1>2. ASSUME NEW i \in DOMAIN saves'
      PROVE  Fits(saves'[i].what) /\ (saves'[i].who \notin tally'.late => Exact(saves'[i].what))
  <2>1. PICK j \in DOMAIN saves : saves'[i] = saves[j]
    OBVIOUS
  <2> QED
    BY <2>1 DEF LevelsHold
<1> QED
  BY <1>1, <1>2 DEF LevelsHold, Fits, Exact

(* No step leaves a level without its EXP. *)
LEMMA LevelsKept ==
  ASSUME GrowthTyped, SharesHold, LevelsHold, GrowthNext
  PROVE  LevelsHold'
<1>0. /\ live \in [Players -> Pages] /\ row \in [Players -> Progress]
      /\ place \in [Players -> {"lobby", "selected", "game", "saved"}]
      /\ saves \in Seq(Rows) /\ learned \in Seq(Learns)
      /\ Len(saves) <= SaveRoom
  BY DEF GrowthTyped, GrowthTypeOK, Pages, Rows, Learns
<1>01. tally.late \subseteq tally'.late
  BY LateGrows
<1>02. \A i \in DOMAIN saves : \E j \in DOMAIN saves : saves[i] = saves[j]
  OBVIOUS
<1>03. saves # <<>> => \A i \in DOMAIN Tail(saves) : \E j \in DOMAIN saves : Tail(saves)[i] = saves[j]
  BY <1>0, TailIsOf
<1> DEFINE Held(p) == /\ Fits(live'[p]) /\ Fits(row'[p])
                      /\ p \notin tally'.late => Exact(row'[p])
                      /\ InMemory(p)' /\ p \notin fresh' \cup tally'.late => Exact(live'[p])
           Passed(i) == /\ Fits(saves'[i].what)
                        /\ saves'[i].who \notin tally'.late => Exact(saves'[i].what)
<1>04. (\A p, q \in fresh' : p = q) /\ (\A p \in Players : Held(p)) /\ (\A i \in DOMAIN saves' : Passed(i)) => LevelsHold'
  BY DEF LevelsHold
<1>05. \A p \in Players :
         /\ UNCHANGED <<live[p], row[p], place[p]>> /\ p \notin fresh \ fresh' => Held(p)
  BY <1>01 DEF LevelsHold, InMemory
<1>07. \A p, q \in fresh : p = q
  BY DEF LevelsHold
<1>06. UNCHANGED saves => \A i \in DOMAIN saves' : Passed(i)
  BY <1>01 DEF LevelsHold
<1> HIDE DEF Passed
<1>1. ASSUME NEW p \in Players, SelectRow(p) PROVE LevelsHold'
  <2>1. /\ live' = [live EXCEPT ![p] = [exp |-> row[p].exp, sp |-> row[p].sp,
                                       level |-> row[p].level, known |-> Unskilled]]
        /\ place' = [place EXCEPT ![p] = "selected"] /\ UNCHANGED <<row, saves, fresh>>
    BY <1>1 DEF SelectRow
  <2>2. live'[p].exp = row[p].exp /\ live'[p].level = row[p].level
    BY <1>0, <2>1
  <2>3. Held(p)
    BY <1>01, <2>1, <2>2 DEF LevelsHold, Fits, Exact
  <2>4. \A q \in Players \ {p} : Held(q)
    BY <1>0, <1>05, <2>1
  <2> QED
    BY <1>04, <1>06, <1>07, <2>1, <2>3, <2>4
<1>2. ASSUME NEW p \in Players, ReturnToLobby(p) \/ RemoveSaved(p) \/ SaveFails(p)
      PROVE  LevelsHold'
  <2>1. UNCHANGED <<live, row, saves, fresh>>
    BY <1>2 DEF ReturnToLobby, RemoveSaved, SaveFails
  <2>2. \A q \in Players : InMemory(q)' => InMemory(q)
    BY <1>0, <1>2 DEF ReturnToLobby, RemoveSaved, SaveFails, InMemory
  <2> QED
    BY <1>01, <1>02, <2>1, <2>2, LevelsUndisturbed
<1>3. ASSUME NEW p \in Players, EnterWithSkills(p) PROVE LevelsHold'
  <2>1. /\ live' = [live EXCEPT ![p].known = Reconciled(p)] /\ UNCHANGED <<row, saves, fresh>>
        /\ place[p] = "selected" /\ place' = [place EXCEPT ![p] = "game"]
    BY <1>3 DEF EnterWithSkills
  <2>2. \A q \in Players : live'[q].exp = live[q].exp /\ live'[q].level = live[q].level
    BY <1>0, <2>1 DEF Pages
  <2>3. \A q \in Players : InMemory(q)' => InMemory(q)
    BY <1>0, <2>1 DEF InMemory
  <2> QED
    BY <1>01, <1>02, <2>1, <2>2, <2>3, LevelsUndisturbed
<1>4. ASSUME NEW p \in Players, SaveOnLeaving(p) PROVE LevelsHold'
  <2>1. /\ place[p] = "game" /\ place' = [place EXCEPT ![p] = "saved"]
        /\ row' = [row EXCEPT ![p] = Stored(p)]
        /\ tally' = IF fresh = {p} THEN Late(p) ELSE tally
        /\ UNCHANGED <<live, saves, fresh>>
    BY <1>4 DEF SaveOnLeaving
  <2>2. row'[p].exp = live[p].exp /\ row'[p].level = live[p].level
    BY <1>0, <2>1 DEF Stored
  <2>3. Held(p)
    <3>1. Fits(live'[p]) /\ Fits(row'[p])
      BY <2>1, <2>2 DEF LevelsHold, Fits
    <3>2. ASSUME p \notin tally'.late
          PROVE  Exact(live[p])
      <4>1. p \notin fresh
        <5>1. SUFFICES ASSUME p \in fresh PROVE FALSE
          OBVIOUS
        <5>2. tally' = Late(p)
          BY <1>07, <2>1, <5>1
        <5>3. p \in Late(p).late
          BY DEF Late, GrowthTyped
        <5> QED
          BY <3>2, <5>2, <5>3
      <4> QED
        BY <1>01, <2>1, <3>2, <4>1 DEF LevelsHold, InMemory
    <3> QED
      BY <2>1, <2>2, <3>1, <3>2 DEF Exact
  <2>4. \A q \in Players \ {p} : Held(q)
    BY <1>0, <1>05, <2>1
  <2> QED
    BY <1>04, <1>06, <1>07, <2>1, <2>3, <2>4
<1>5. ASSUME NEW p \in Players, Reward(p) PROVE LevelsHold'
  <2>1. /\ p \in bounty.left /\ UNCHANGED <<place, row, saves>>
        /\ bounty.mob.exp \in Nat /\ bounty.mob.sp \in Nat
    BY <1>5, GrowthAssumption DEF Reward, GrowthTyped, Bounties
  <2>2. CASE ~InMemory(p)
    <3>1. UNCHANGED <<live, fresh>>
      BY <1>5, <2>2 DEF Reward
    <3> QED
      BY <1>01, <1>02, <2>1, <3>1, LevelsUndisturbed DEF InMemory
  <2>3. CASE InMemory(p)
    <3> DEFINE n == Share(bounty.mob.exp, p)
               k == Share(bounty.mob.sp, p)
    <3>1. fresh = {} /\ fresh' = {p}
          /\ live' = [live EXCEPT ![p].exp = @ + n, ![p].sp = @ + k]
      BY <1>5, <2>3 DEF Reward
    <3>2. n \in Nat
      BY <2>1, ShareIsPart
    <3> HIDE DEF n, k
    <3>3. live[p] \in Pages /\ live'[p].exp = live[p].exp + n /\ live'[p].level = live[p].level
      BY <1>0, <3>1 DEF Pages
    <3>4. live[p].exp \in Nat /\ live[p].exp + n \in Nat /\ live[p].exp <= live[p].exp + n
          /\ live[p].level \in 1..MaxLevel /\ MaxLevel \in Nat
      BY <3>2, <3>3, GrowthAssumption DEF Pages
    <3>5. /\ Capped(LevelForExp(live[p].exp)) <= Capped(LevelForExp(live[p].exp + n))
          /\ Capped(LevelForExp(live[p].exp)) \in 1..MaxLevel
          /\ Capped(LevelForExp(live[p].exp + n)) \in 1..MaxLevel
      BY <3>4, LevelsAreCapped
    <3>6. live[p].level <= Capped(LevelForExp(live[p].exp))
      BY DEF LevelsHold, Fits
    <3>7. Fits(live'[p])
      BY <3>3, <3>4, <3>5, <3>6 DEF Fits
    <3>8. Held(p)
      BY <1>01, <2>1, <3>1, <3>7 DEF LevelsHold
    <3>9. \A q \in Players \ {p} : Held(q)
      BY <1>0, <1>05, <2>1, <3>1
    <3> QED
      BY <1>04, <1>06, <2>1, <3>1, <3>8, <3>9
  <2> QED
    BY <2>2, <2>3
<1>6. ASSUME NEW p \in Players, CompareLevel(p) PROVE LevelsHold'
  <2> DEFINE level == Capped(LevelForExp(live[p].exp))
             new == [Snapshot(p) EXCEPT !.what.level = level]
  <2>1. fresh = {p} /\ fresh' = {} /\ UNCHANGED <<place, row, tally>>
    BY <1>6 DEF CompareLevel
  <2>2. /\ live[p] \in Pages /\ live[p].exp \in Nat /\ live[p].level \in 1..MaxLevel
        /\ level \in 1..MaxLevel /\ MaxLevel \in Nat
    <3>1. live[p] \in Pages /\ live[p].exp \in Nat /\ live[p].level \in 1..MaxLevel /\ MaxLevel \in Nat
      BY <1>0, GrowthAssumption DEF Pages
    <3> QED
      BY <3>1, LevelsAreCapped
  <2>3. CASE ~(level > live[p].level)
    <3>1. UNCHANGED <<live, saves>>
      BY <1>6, <2>3 DEF CompareLevel
    <3>2. live[p].level <= level
      BY DEF LevelsHold, Fits
    <3>3. Exact(live[p])
      BY <2>2, <2>3, <3>2 DEF Exact
    <3>4. Held(p)
      BY <1>01, <2>1, <3>1, <3>3 DEF LevelsHold
    <3>5. \A q \in Players \ {p} : Held(q)
      BY <1>05, <2>1, <3>1
    <3> QED
      BY <1>04, <1>06, <2>1, <3>1, <3>4, <3>5
  <2>4. CASE level > live[p].level
    <3>1. /\ live' = [live EXCEPT ![p].level = level] /\ saves' = Enqueue(saves, <<new>>)
      BY <1>6, <2>4 DEF CompareLevel
    <3> HIDE DEF level
    <3>2. live'[p].exp = live[p].exp /\ live'[p].level = level
      BY <1>0, <2>2, <3>1 DEF Pages
    <3>3. Fits(live'[p]) /\ Exact(live'[p])
      BY <2>2, <3>2 DEF Fits, Exact, level
    <3>4. Held(p)
      BY <1>01, <2>1, <3>3 DEF LevelsHold
    <3>5. \A q \in Players \ {p} : Held(q)
      BY <1>0, <1>05, <2>1, <3>1
    <3>6. new.what.exp = live[p].exp /\ new.what.level = level
      BY DEF Snapshot, Stored
    <3>7. new \in Rows
      BY <1>0, <2>2 DEF Snapshot, Stored, Rows, Progress, Pages
    <3> HIDE DEF new
    <3>8. Fits(new.what) /\ Exact(new.what)
      BY <2>2, <3>6 DEF Fits, Exact, level
    <3>9. ASSUME NEW i \in DOMAIN saves'
          PROVE  Passed(i)
      <4>1. <<new>> \in Seq(Rows) /\ DOMAIN <<new>> = {1} /\ <<new>>[1] = new
        BY <3>7
      <4>2. \/ i \in DOMAIN saves /\ saves'[i] = saves[i]
            \/ \E j \in DOMAIN <<new>> : saves'[i] = <<new>>[j]
        BY <1>0, <3>1, <4>1, QueueTakes
      <4>3. CASE i \in DOMAIN saves /\ saves'[i] = saves[i]
        BY <1>01, <4>3 DEF LevelsHold, Passed
      <4>4. CASE saves'[i] = new
        BY <3>8, <4>4 DEF Passed
      <4> QED
        BY <4>1, <4>2, <4>3, <4>4
    <3> QED
      BY <1>04, <2>1, <3>4, <3>5, <3>9
  <2> QED
    BY <2>3, <2>4
<1>7. ASSUME NEW p \in Players, NEW t \in Trees, Learn(p, t) PROVE LevelsHold'
  <2>1. /\ UNCHANGED <<place, row, saves, fresh>>
        /\ live' = [live EXCEPT ![p].sp = @ - t.cost, ![p].known[t.skill] = t.level]
    BY <1>7 DEF Learn
  <2>2. \A q \in Players : live'[q].exp = live[q].exp /\ live'[q].level = live[q].level
    BY <1>0, <2>1 DEF Pages
  <2> QED
    BY <1>01, <1>02, <2>1, <2>2, LevelsUndisturbed DEF InMemory
<1>8. CASE Dies \/ SendLearned \/ LearnerWrites
  <2>1. UNCHANGED <<live, place, row, saves, fresh>>
    BY <1>8, DeathsLeave DEF SendLearned, LearnerWrites, GrowthTyped
  <2> QED
    BY <1>01, <1>02, <2>1, LevelsUndisturbed DEF InMemory
<1>9. CASE AutosaveAll
  <2>1. fresh = {} /\ UNCHANGED <<live, place, row, fresh, tally>>
        /\ \E order \in SetToSeqs({p \in Players : InMemory(p)}) :
             saves' = Enqueue(saves, [i \in DOMAIN order |-> Snapshot(order[i])])
    BY <1>9 DEF AutosaveAll, LoopIsFree, Awarded
  <2>2. ASSUME NEW p \in Players, InMemory(p)
        PROVE  /\ Fits(Snapshot(p).what)
               /\ Snapshot(p).who \notin tally.late => Exact(Snapshot(p).what)
    <3>1. /\ Snapshot(p).who = p /\ Snapshot(p).what.exp = live[p].exp
          /\ Snapshot(p).what.level = live[p].level
      BY DEF Snapshot, Stored
    <3> QED
      BY <2>1, <2>2, <3>1 DEF LevelsHold, Fits, Exact
  <2>3. ASSUME NEW i \in DOMAIN saves'
        PROVE  Passed(i)
    <3>1. \/ i \in DOMAIN saves /\ saves'[i] = saves[i]
          \/ \E p \in Players : InMemory(p) /\ saves'[i] = Snapshot(p)
      BY <2>1, SnapshotsAre
    <3>2. CASE i \in DOMAIN saves /\ saves'[i] = saves[i]
      BY <1>01, <3>2 DEF LevelsHold, Passed
    <3>3. ASSUME NEW p \in Players, InMemory(p), saves'[i] = Snapshot(p)
          PROVE  Passed(i)
      BY <2>1, <2>2, <3>3 DEF Passed
    <3> QED
      BY <3>1, <3>2, <3>3
  <2>4. \A q \in Players : Held(q)
    BY <1>05, <2>1
  <2> QED
    BY <1>04, <2>1, <2>3, <2>4
<1>10. CASE SaverWrites
  <2>0. saves # <<>>
    BY <1>10 DEF SaverWrites
  <2>2. PICK s \in Rows : s = Head(saves) /\ s = saves[1] /\ 1 \in DOMAIN saves
    BY <1>0, <2>0, TailIsOf
  <2>1. /\ saves # <<>> /\ saves' = Tail(saves) /\ row' = [row EXCEPT ![s.who] = s.what]
        /\ UNCHANGED <<live, place, fresh>>
    BY <1>10, <2>2 DEF SaverWrites
  <2>3. s.who \in Players /\ Fits(s.what) /\ (s.who \notin tally.late => Exact(s.what))
    BY <2>2 DEF LevelsHold, Rows
  <2>4. \A q \in Players \ {s.who} : Held(q)
    BY <1>0, <1>05, <2>1
  <2>5. Held(s.who)
    <3>1. row'[s.who] = s.what
      BY <1>0, <2>1, <2>3
    <3>2. Fits(live'[s.who]) /\ (InMemory(s.who)' /\ s.who \notin fresh' \cup tally'.late => Exact(live'[s.who]))
      BY <1>01, <2>1, <2>3 DEF LevelsHold, InMemory
    <3> QED
      BY <1>01, <2>3, <3>1, <3>2
  <2>6. ASSUME NEW i \in DOMAIN saves'
        PROVE  Passed(i)
    <3>1. PICK j \in DOMAIN saves : saves'[i] = saves[j]
      BY <1>03, <2>1
    <3> QED
      BY <1>01, <3>1 DEF LevelsHold, Passed
  <2> QED
    BY <1>04, <1>07, <2>1, <2>4, <2>5, <2>6
<1>11. CASE WriteFails
  <2>1. UNCHANGED <<live, place, row, fresh>> /\ \/ saves' = saves
                                                 \/ saves # <<>> /\ saves' = Tail(saves)
    BY <1>11 DEF WriteFails
  <2>2. \A i \in DOMAIN saves' : \E j \in DOMAIN saves : saves'[i] = saves[j]
    BY <1>02, <1>03, <2>1
  <2> QED
    BY <1>01, <2>1, <2>2, LevelsUndisturbed DEF InMemory
<1>12. CASE Crash
  <2>1. UNCHANGED <<live, row>> /\ saves' = <<>> /\ fresh' = {} /\ \A p \in Players : ~InMemory(p)'
    BY <1>12 DEF Crash, InMemory
  <2>2. DOMAIN saves' = {}
    BY <2>1
  <2> QED
    BY <1>01, <2>1, <2>2, LevelsUndisturbed
<1> QED
  BY <1>1, <1>2, <1>3, <1>4, <1>5, <1>6, <1>7, <1>8, <1>9, <1>10, <1>11, <1>12 DEF GrowthNext, Dies

-----------------------------------------------------------------------------
(* Shares of the reward. *)

(* One reward more stays within what its hate claimed. *)
LEMMA ShareFits ==
  ASSUME NEW g \in Nat, NEW n \in Nat, NEW t \in Nat, NEW e \in Nat, NEW h \in Nat, NEW l \in Nat,
         n * t <= e * h, g * t + e * (h + l) <= e * t
  PROVE  (g + n) * t + e * l <= e * t /\ g * t + e * l <= e * t
<1>1. (g + n) * t = g * t + n * t /\ e * (h + l) = e * h + e * l
  OBVIOUS
<1>2. g * t \in Nat /\ n * t \in Nat /\ e * h \in Nat /\ e * l \in Nat /\ e * t \in Nat
  OBVIOUS
<1>3. (g + n) * t + e * l = (g * t + n * t) + e * l
  BY <1>1
<1>4. g * t + (e * h + e * l) <= e * t
  BY <1>1
<1>5. (g * t + n * t) + e * l <= e * t /\ g * t + e * l <= e * t
  BY <1>2, <1>4
<1> QED
  BY <1>3, <1>5

LEMMA SharesAreParts ==
  ASSUME NEW g \in Nat, NEW t \in Nat \ {0}, NEW e \in Nat, NEW l \in Nat, g * t + e * l <= e * t
  PROVE  g <= e
<1>1. SUFFICES ASSUME e + 1 <= g PROVE FALSE
  OBVIOUS
<1>2. (e + 1) * t <= g * t /\ g * t \in Nat
  BY <1>1, TimesMonotonic
<1>3. (e + 1) * t = e * t + t
  OBVIOUS
<1>4. e * l \in Nat /\ e * t \in Nat
  OBVIOUS
<1> QED
  BY <1>2, <1>3, <1>4

(* Hate adds up, and without one attacker to that much less. *)
LEMMA HateAddsUp ==
  ASSUME NEW hate \in [Players -> Nat], NEW S \in SUBSET Players
  PROVE  /\ IsFiniteSet(S) /\ SumFunctionOnSet(hate, S) \in Nat
         /\ Total(hate) \in Nat /\ SumFunctionOnSet(hate, S) <= Total(hate)
         /\ \A p \in S : SumFunctionOnSet(hate, S) = hate[p] + SumFunctionOnSet(hate, S \ {p})
<1>1. IsFiniteSet(Players) /\ IsFiniteSet(S)
  BY GrowthAssumption, FS_Subset
<1>2. /\ \A p \in Players : hate[p] \in Nat
      /\ \A p \in S : hate[p] \in Nat
  OBVIOUS
<1>3. SumFunctionOnSet(hate, S) \in Nat /\ SumFunctionOnSet(hate, Players) \in Nat
  BY <1>1, <1>2, SumIsNat
<1>4. SumFunctionOnSet(hate, S) <= SumFunctionOnSet(hate, Players)
  BY <1>1, <1>2, SumOfSome
<1>5. \A p \in S : SumFunctionOnSet(hate, S) = hate[p] + SumFunctionOnSet(hate, S \ {p})
  BY <1>1, <1>2, SumTakesOut
<1> QED
  BY <1>1, <1>3, <1>4, <1>5 DEF Total

LEMMA InitShares == GrowthInit => SharesHold
BY DEF GrowthInit, SharesHold

BountyIsLeft ==
  bounty' = bounty /\ tally'.given = tally.given /\ tally'.before = tally.before

(* Every step but a death, a reward and a crash leaves the bounty as it is. *)
LEMMA BountyWaits ==
  ASSUME GrowthTyped, GrowthNext
  PROVE  \/ BountyIsLeft
         \/ \E p \in Players : Reward(p)
         \/ Dies
         \/ Crash
<1>0. tally \in Tallies /\ saves \in Seq(Rows) /\ learned \in Seq(Learns)
  BY DEF GrowthTyped, GrowthTypeOK, Rows, Learns, Tallies
<1>1. \A p : Late(p).given = tally.given /\ Late(p).before = tally.before
  BY <1>0 DEF Late, Tallies
<1>2. ASSUME NEW p \in Players,
             \/ SelectRow(p) \/ ReturnToLobby(p) \/ RemoveSaved(p) \/ EnterWithSkills(p) \/ SaveOnLeaving(p)
      PROVE  BountyIsLeft
  BY <1>1, <1>2 DEF SelectRow, ReturnToLobby, RemoveSaved, EnterWithSkills, SaveOnLeaving, BountyIsLeft
<1>3. ASSUME NEW p \in Players, SaveFails(p)
      PROVE  BountyIsLeft
  BY <1>0, <1>3 DEF SaveFails, Tallies, BountyIsLeft
<1>4. ASSUME NEW p \in Players, CompareLevel(p) \/ \E t \in Trees : Learn(p, t)
      PROVE  BountyIsLeft
  BY <1>0, <1>4 DEF CompareLevel, Learn, Tallies, BountyIsLeft
<1>5. ASSUME SendLearned \/ AutosaveAll \/ LearnerWrites \/ SaverWrites
      PROVE  BountyIsLeft
  BY <1>1, <1>5 DEF SendLearned, AutosaveAll, LearnerWrites, SaverWrites, BountyIsLeft
<1>6. ASSUME WriteFails
      PROVE  BountyIsLeft
  <2>1. bounty' = bounty
    BY <1>6 DEF WriteFails
  <2>2. ASSUME NEW r \in Tallies
        PROVE  [r EXCEPT !.faults = @ + 1].given = r.given /\ [r EXCEPT !.faults = @ + 1].before = r.before
    BY DEF Tallies
  <2>3. CASE tally' = [tally EXCEPT !.faults = @ + 1]
    BY <1>0, <2>1, <2>2, <2>3 DEF BountyIsLeft
  <2>4. CASE learned # <<>> /\ tally' = [Late(Head(learned).who) EXCEPT !.faults = @ + 1]
    <3>0. Head(learned) \in Learns
      BY <1>0, <2>4, TailIsOf
    <3>1. PICK p \in Players : p = Head(learned).who
      BY <3>0 DEF Learns
    <3>2. Late(p) \in Tallies
      <4>1. \A S \in SUBSET Players : [tally EXCEPT !.late = @ \union S] \in Tallies
        BY <1>0, TallyChanges
      <4>2. {p} \in SUBSET Players
        OBVIOUS
      <4> QED
        BY <4>1, <4>2 DEF Late
    <3> QED
      BY <1>1, <2>1, <2>2, <2>4, <3>1, <3>2 DEF BountyIsLeft
  <2> QED
    BY <1>6, <2>3, <2>4 DEF WriteFails
<1> QED
  BY <1>2, <1>3, <1>4, <1>5, <1>6 DEF GrowthNext, Dies

(* At a death nothing is given yet, and all hate of the attackers may claim its part. *)
LEMMA SharesOpen ==
  ASSUME NEW m \in Mobs, NEW hate \in [Players -> Nat]
  PROVE  0 * Total(hate) + m.exp * SumFunctionOnSet(hate, Attackers(m, hate)) <= m.exp * Total(hate)
<1> DEFINE e == m.exp
           l == SumFunctionOnSet(hate, Attackers(m, hate))
           t == Total(hate)
<1>1. Attackers(m, hate) \in SUBSET Players /\ e \in Nat
  BY GrowthAssumption DEF Attackers
<1>2. l \in Nat /\ t \in Nat /\ l <= t
  BY <1>1, HateAddsUp
<1> HIDE DEF e, l, t
<1>3. l * e <= t * e
  BY <1>1, <1>2, TimesMonotonic
<1>4. 0 * t = 0 /\ l * e = e * l /\ t * e = e * t /\ e * l \in Nat /\ e * t \in Nat
  BY <1>1, <1>2
<1>5. 0 * t + e * l <= e * t
  BY <1>3, <1>4
<1> QED
  BY <1>5 DEF e, l, t

(* What is given at one death is at most the EXP of the monster. *)
LEMMA GivenFits ==
  ASSUME GrowthTyped, SharesHold
  PROVE  tally.given <= bounty.mob.exp
<1>0. /\ tally.given \in Nat /\ bounty.left \in SUBSET Players /\ bounty.mob.exp \in Nat
  BY GrowthAssumption DEF GrowthTyped, Tallies, Bounties
<1>1. CASE tally.given = 0
  BY <1>0, <1>1
<1>2. CASE tally.given # 0
  <2>1. bounty.hate \in [Players -> Nat] /\ Total(bounty.hate) > 0
    BY <1>2 DEF SharesHold
  <2>2. SumFunctionOnSet(bounty.hate, bounty.left) \in Nat /\ Total(bounty.hate) \in Nat
    BY <1>0, <2>1, HateAddsUp
  <2>3. tally.given * Total(bounty.hate) + bounty.mob.exp * SumFunctionOnSet(bounty.hate, bounty.left)
          <= bounty.mob.exp * Total(bounty.hate)
    BY <1>2 DEF SharesHold
  <2>4. Total(bounty.hate) \in Nat \ {0}
    BY <2>1, <2>2
  <2> QED
    BY <1>0, <2>2, <2>3, <2>4, SharesAreParts
<1> QED
  BY <1>1, <1>2

(* One death more is worth the monster's EXP once more. *)
LEMMA OnceMore ==
  ASSUME NEW d \in Nat \ {0}, NEW e \in Nat, NEW b \in Nat, NEW g \in Nat, b <= (d - 1) * e, g <= e
  PROVE  b + g <= d * e
<1>1. d - 1 \in Nat /\ (d - 1) * e \in Nat
  OBVIOUS
<1>2. d * e = (d - 1) * e + e
  BY <1>1
<1> QED
  BY <1>1, <1>2

(* A death opens a bounty, a reward takes its part of it, a crash drops it. *)
LEMMA SharesKept ==
  ASSUME GrowthTyped, SharesHold, GrowthNext
  PROVE  SharesHold'
<1>0. /\ tally \in Tallies /\ tally.given \in Nat /\ tally.before \in Nat
      /\ bounty \in Bounties /\ bounty.left \in SUBSET Players
      /\ bounty.mob \in Mobs /\ bounty.mob.exp \in Nat
  BY GrowthAssumption DEF GrowthTyped, Tallies, Bounties
<1>1. CASE BountyIsLeft
  BY <1>1 DEF SharesHold, Total, BountyIsLeft
<1>2. ASSUME NEW p \in Players, Reward(p)
      PROVE  SharesHold'
  <2> DEFINE e == bounty.mob.exp
             n == Share(e, p)
             h == bounty.hate
             t == Total(h)
             l == SumFunctionOnSet(h, bounty.left)
             rest == SumFunctionOnSet(h, bounty.left \ {p})
  <2>1. p \in bounty.left /\ bounty' = [bounty EXCEPT !.left = @ \ {p}]
    BY <1>2 DEF Reward
  <2>2. /\ bounty'.hate = h /\ bounty'.mob.exp = e /\ bounty'.left = bounty.left \ {p}
        /\ bounty'.deaths = bounty.deaths
    BY <1>0, <2>1 DEF Bounties
  <2>3. /\ h \in [Players -> Nat] /\ t \in Nat \ {0} /\ n \in Nat /\ n * t <= e * h[p]
        /\ tally.given * t + e * l <= e * t /\ h[p] \in Nat
        /\ bounty.deaths \in Nat \ {0} /\ tally.before <= (bounty.deaths - 1) * e
    <3>1. h \in [Players -> Nat] /\ t \in Nat \ {0} /\ n \in Nat /\ n * t <= e * h[p]
      BY <1>0, <2>1, ShareIsPart
    <3>2. /\ tally.given * t + e * l <= e * t
          /\ bounty.deaths \in Nat \ {0} /\ tally.before <= (bounty.deaths - 1) * e
      BY <2>1 DEF SharesHold
    <3> QED
      BY <3>1, <3>2
  <2>4. l = h[p] + rest /\ rest \in Nat
    BY <1>0, <2>1, <2>3, HateAddsUp
  <2>5. tally'.given \in {tally.given, tally.given + n} /\ tally'.before = tally.before
    <3>1. CASE InMemory(p)
      BY <1>0, <1>2, <3>1 DEF Reward, Tallies
    <3>2. CASE ~InMemory(p)
      BY <1>2, <3>2 DEF Reward
    <3> QED
      BY <3>1, <3>2
  <2> HIDE DEF e, n, h, t, l, rest
  <2>6. (tally.given + n) * t + e * rest <= e * t /\ tally.given * t + e * rest <= e * t
    BY <1>0, <2>3, <2>4, ShareFits DEF e
  <2>7. tally'.given * t + e * rest <= e * t
    BY <2>5, <2>6
  <2>8. bounty'.hate \in [Players -> Nat] /\ Total(bounty'.hate) = t /\ t > 0
    BY <2>2, <2>3 DEF t
  <2>9. SumFunctionOnSet(bounty'.hate, bounty'.left) = rest
    BY <2>2 DEF rest, h
  <2>10. bounty'.deaths \in Nat \ {0} /\ tally'.before <= (bounty'.deaths - 1) * bounty'.mob.exp
    BY <2>2, <2>3, <2>5
  <2> QED
    BY <2>2, <2>7, <2>8, <2>9, <2>10 DEF SharesHold, Total
<1>3. ASSUME NEW m \in Mobs, NEW hate \in Hates, NEW by \in Casters, NEW more \in 0..2,
             Kill(m, hate, by, more)
      PROVE  SharesHold'
  <2>1. /\ bounty'.mob = m /\ bounty'.hate = hate /\ bounty'.left = Attackers(m, hate)
        /\ bounty'.deaths = 1 /\ Total(hate) > 0
    BY <1>3 DEF Kill
  <2>2. tally'.given = 0 /\ tally'.before = 0
    BY <1>0, <1>3 DEF Kill, Tallies
  <2>3. hate \in [Players -> Nat] /\ m.exp \in Nat
    BY GrowthAssumption DEF Hates
  <2>4. 0 * Total(hate) + m.exp * SumFunctionOnSet(hate, Attackers(m, hate)) <= m.exp * Total(hate)
    BY <2>3, SharesOpen
  <2>5. 0 <= (1 - 1) * m.exp
    BY <2>3
  <2> QED
    BY <2>1, <2>2, <2>3, <2>4, <2>5 DEF SharesHold, Total
<1>4. ASSUME NEW p \in Players, NEW damage \in 1..MaxHate, DieAgain(p, damage)
      PROVE  SharesHold'
  <2> DEFINE m == bounty.mob
             hate == [bounty.hate EXCEPT ![p] = @ + damage]
  <2>1. /\ bounty.deaths \in Nat \ {0} /\ tally.before <= (bounty.deaths - 1) * m.exp
        /\ bounty.hate \in [Players -> Nat]
    BY <1>4 DEF DieAgain, SharesHold
  <2>2. /\ bounty' = [bounty EXCEPT !.hate = hate, !.left = Attackers(m, hate),
                                    !.deaths = @ + 1, !.more = @ - 1]
        /\ tally' = [tally EXCEPT !.before = @ + tally.given, !.given = 0]
    BY <1>4 DEF DieAgain
  <2>3. tally'.given = 0 /\ tally'.before = tally.before + tally.given
    BY <1>0, <2>2 DEF Tallies
  <2>4. hate \in [Players -> Nat] /\ hate[p] > 0
    BY <2>1
  <2> HIDE DEF hate
  <2>5. /\ bounty'.mob = m /\ bounty'.hate = hate /\ bounty'.left = Attackers(m, hate)
        /\ bounty'.deaths = bounty.deaths + 1
    BY <1>0, <2>2 DEF Bounties
  <2>6. Total(hate) > 0
    <3>1. /\ SumFunctionOnSet(hate, {p}) = hate[p] + SumFunctionOnSet(hate, {p} \ {p})
          /\ SumFunctionOnSet(hate, {p}) <= Total(hate) /\ Total(hate) \in Nat
      BY <2>4, HateAddsUp
    <3>2. SumFunctionOnSet(hate, {p} \ {p}) = 0
      <4>1. {p} \ {p} = {}
        OBVIOUS
      <4> QED
        BY <4>1, SumEmpty
    <3> QED
      BY <2>4, <3>1, <3>2
  <2>7. 0 * Total(hate) + m.exp * SumFunctionOnSet(hate, Attackers(m, hate)) <= m.exp * Total(hate)
    BY <1>0, <2>4, SharesOpen
  <2>8. tally.before + tally.given <= bounty.deaths * m.exp
    <3>1. tally.given <= m.exp
      BY GivenFits
    <3> QED
      BY <1>0, <2>1, <3>1, OnceMore
  <2>9. bounty.deaths + 1 \in Nat \ {0} /\ (bounty.deaths + 1) - 1 = bounty.deaths
    BY <2>1
  <2>10. bounty'.deaths \in Nat \ {0} /\ tally'.before <= (bounty'.deaths - 1) * bounty'.mob.exp
    BY <2>3, <2>5, <2>8, <2>9
  <2> QED
    BY <2>3, <2>4, <2>5, <2>6, <2>7, <2>10 DEF SharesHold, Total
<1>5. CASE Crash
  <2>1. /\ bounty' = [bounty EXCEPT !.left = {}, !.more = 0]
        /\ tally'.given = tally.given /\ tally'.before = tally.before
    BY <1>0, <1>5 DEF Crash, Tallies
  <2>2. /\ bounty'.hate = bounty.hate /\ bounty'.mob = bounty.mob /\ bounty'.left = {}
        /\ bounty'.more = 0 /\ bounty'.deaths = bounty.deaths
    BY <1>0, <2>1 DEF Bounties
  <2>3. CASE tally.before = 0 /\ tally.given = 0
    BY <2>1, <2>2, <2>3 DEF SharesHold
  <2>4. CASE ~(tally.before = 0 /\ tally.given = 0)
    <3> DEFINE e == bounty.mob.exp
               h == bounty.hate
               t == Total(h)
               l == SumFunctionOnSet(h, bounty.left)
    <3>1. /\ h \in [Players -> Nat] /\ t > 0 /\ tally.given * t + e * l <= e * t
          /\ bounty.deaths \in Nat \ {0} /\ tally.before <= (bounty.deaths - 1) * e
      BY <2>4 DEF SharesHold
    <3>2. l \in Nat /\ t \in Nat
      BY <1>0, <3>1, HateAddsUp
    <3>3. SumFunctionOnSet(h, {}) = 0
      BY SumEmpty
    <3> HIDE DEF e, h, t, l
    <3>4. tally.given * t + e * 0 <= e * t
      <4>1. tally.given \in Nat /\ e \in Nat /\ t \in Nat /\ l \in Nat
        BY <1>0, <3>2 DEF e
      <4>2. tally.given * t \in Nat /\ e * l \in Nat /\ e * 0 = 0 /\ e * t \in Nat
        BY <4>1
      <4> QED
        BY <3>1, <4>2
    <3>5. /\ bounty'.hate \in [Players -> Nat] /\ Total(bounty'.hate) = t /\ bounty'.mob.exp = e
          /\ SumFunctionOnSet(bounty'.hate, bounty'.left) = 0
      BY <2>2, <3>1, <3>3 DEF e, h, t
    <3> QED
      BY <2>1, <2>2, <3>1, <3>4, <3>5 DEF SharesHold, Total
  <2> QED
    BY <2>3, <2>4
<1> QED
  BY <1>1, <1>2, <1>3, <1>4, <1>5, BountyWaits DEF Dies

(* All parts together are at most the whole, at each death. *)
LEMMA SharesImplyShared ==
  ASSUME GrowthTyped, SharesHold
  PROVE  RewardShared
<1>0. /\ tally.given \in Nat /\ tally.before \in Nat /\ bounty.mob.exp \in Nat
      /\ bounty.deaths \in Nat
  BY GrowthAssumption DEF GrowthTyped, Tallies, Bounties
<1>1. CASE tally.before = 0 /\ tally.given = 0
  <2>1. 0 <= bounty.deaths * bounty.mob.exp
    BY <1>0
  <2> QED
    BY <1>1, <2>1 DEF RewardShared
<1>2. CASE ~(tally.before = 0 /\ tally.given = 0)
  <2>1. bounty.deaths \in Nat \ {0} /\ tally.before <= (bounty.deaths - 1) * bounty.mob.exp
    BY <1>2 DEF SharesHold
  <2> QED
    BY <1>0, <2>1, GivenFits, OnceMore DEF RewardShared
<1> QED
  BY <1>1, <1>2

-----------------------------------------------------------------------------
(* Skills on their way to the table. *)

(* What is due is typed, and pending. *)
LEMMA DueIs ==
  ASSUME GrowthTyped
  PROVE  /\ Due \in Queues /\ (\A p \in Players : Owed(Due, p) => Pending(p))
         /\ paying # Nothing => paying \in Learns /\ DOMAIN Due = 1..Len(learned) + 1
                                /\ Due[Len(learned) + 1] = paying
         /\ Len(learned) \in Nat /\ DOMAIN learned = 1..Len(learned)
         /\ \A i \in DOMAIN learned : i \in DOMAIN Due /\ Due[i] = learned[i]
<1>1. learned \in Queues /\ paying \in {Nothing} \union Learns
  BY DEF GrowthTyped, GrowthTypeOK, Learns, Queues
<1>2. Len(learned) \in Nat /\ DOMAIN learned = 1..Len(learned)
  BY <1>1 DEF Queues
<1>3. CASE paying = Nothing
  BY <1>1, <1>2, <1>3 DEF Due, Owed, Pending
<1>4. CASE paying # Nothing
  <2>1. /\ paying \in Learns /\ Due \in Queues /\ DOMAIN Due = 1..Len(learned) + 1
        /\ Due[Len(learned) + 1] = paying /\ \A i \in DOMAIN learned : Due[i] = learned[i]
    BY <1>1, <1>2, <1>4, AppendProperties DEF Due, Queues
  <2>2. \A i \in DOMAIN Due : i \in DOMAIN learned \/ i = Len(learned) + 1
    BY <1>2, <2>1
  <2>3. \A p \in Players : Owed(Due, p) => Pending(p)
    BY <1>4, <2>1, <2>2 DEF Owed, Pending
  <2> QED
    BY <1>2, <2>1, <2>3
<1> QED
  BY <1>3, <1>4

(* What is written or lost is the first that was due. *)
LEMMA HeadIsDue ==
  ASSUME GrowthTyped, GrowthTyped', learned # <<>>, learned' = Tail(learned), paying' = paying
  PROVE  Due # <<>> /\ Due' = Tail(Due) /\ Head(Due) = Head(learned)
<1>1. learned \in Queues /\ learned' \in Queues /\ paying \in {Nothing} \union Learns
  BY DEF GrowthTyped, GrowthTypeOK, Learns, Queues
<1>2. CASE paying = Nothing
  BY <1>1, <1>2 DEF Due
<1>3. CASE paying # Nothing
  <2>1. Due = Append(learned, paying) /\ Due' = Append(Tail(learned), paying) /\ paying \in Learns
    BY <1>1, <1>3 DEF Due
  <2> QED
    BY <1>1, <2>1 DEF Queues
<1> QED
  BY <1>2, <1>3

(* The queue after its head has gone. *)
LEMMA QueueShifts ==
  ASSUME NEW d \in Queues, d # <<>>
  PROVE  /\ Head(d) \in Learns /\ 1 \in DOMAIN d /\ d[1] = Head(d)
         /\ \A i \in DOMAIN Tail(d) : /\ i \in Nat /\ i + 1 \in DOMAIN d
                                      /\ Tail(d)[i] = d[i + 1]
         /\ \A i \in DOMAIN d : /\ i \in Nat /\ i >= 1 /\ d[i] \in Learns
                                /\ i # 1 => i - 1 \in DOMAIN Tail(d) /\ Tail(d)[i - 1] = d[i]
<1>1. /\ Head(d) = d[1] /\ 1 \in DOMAIN d /\ Len(d) \in Nat
      /\ DOMAIN Tail(d) = 1..Len(d) - 1
      /\ \A i \in DOMAIN Tail(d) : i + 1 \in DOMAIN d /\ Tail(d)[i] = d[i + 1]
      /\ DOMAIN d = 1..Len(d) /\ \A i \in DOMAIN d : d[i] \in Learns
  BY TailIsOf DEF Queues
<1>2. ASSUME NEW i \in DOMAIN d, i # 1
      PROVE  i - 1 \in DOMAIN Tail(d) /\ Tail(d)[i - 1] = d[i]
  <2>1. i - 1 \in DOMAIN Tail(d) /\ (i - 1) + 1 = i
    BY <1>1, <1>2
  <2> QED
    BY <1>1, <2>1
<1> QED
  BY <1>1, <1>2

(* The queue loses its head, and the row of its owner becomes what it said; what
   was someone else's does not concern p. *)
LEMMA RowsRiseOn ==
  ASSUME NEW d \in Queues, d # <<>>, NEW p, NEW held \in Levels, NEW next \in Levels,
         RowsRise(d, held, p),
         \A s \in SkillIds : next[s] = IF MeantFor(Head(d), p, s) THEN Head(d).level ELSE held[s]
  PROVE  RowsRise(Tail(d), next, p) /\ \A s \in SkillIds : held[s] <= next[s]
<1>1. ASSUME NEW s \in SkillIds, NEW i \in DOMAIN Tail(d), MeantFor(Tail(d)[i], p, s)
      PROVE  next[s] <= Tail(d)[i].level
  <2>1. /\ i \in Nat /\ i + 1 \in DOMAIN d /\ Tail(d)[i] = d[i + 1]
        /\ 1 \in DOMAIN d /\ d[1] = Head(d) /\ 1 <= i + 1
    BY QueueShifts
  <2>2. CASE MeantFor(Head(d), p, s)
    <3>1. Head(d).level <= d[i + 1].level
      BY <1>1, <2>1, <2>2 DEF RowsRise
    <3> QED
      BY <2>1, <2>2, <3>1
  <2>3. CASE ~MeantFor(Head(d), p, s)
    BY <1>1, <2>1, <2>3 DEF RowsRise
  <2> QED
    BY <2>2, <2>3
<1>2. ASSUME NEW s \in SkillIds, NEW i \in DOMAIN Tail(d), MeantFor(Tail(d)[i], p, s),
             NEW j \in DOMAIN Tail(d), i <= j, MeantFor(Tail(d)[j], p, s)
      PROVE  Tail(d)[i].level <= Tail(d)[j].level
  <2>1. /\ i + 1 \in DOMAIN d /\ Tail(d)[i] = d[i + 1]
        /\ j + 1 \in DOMAIN d /\ Tail(d)[j] = d[j + 1] /\ i + 1 <= j + 1
    BY <1>2, QueueShifts
  <2> QED
    BY <1>2, <2>1 DEF RowsRise
<1>3. ASSUME NEW s \in SkillIds
      PROVE  held[s] <= next[s]
  <2>1. CASE MeantFor(Head(d), p, s)
    BY <2>1, QueueShifts DEF RowsRise
  <2>2. CASE ~MeantFor(Head(d), p, s)
    BY <2>2 DEF Levels
  <2> QED
    BY <2>1, <2>2
<1> QED
  BY <1>1, <1>2, <1>3 DEF RowsRise

(* Whatever leaves the queue is written: its end stays what the player knows. *)
LEMMA EndsOn ==
  ASSUME NEW d \in Queues, d # <<>>, NEW p, NEW held \in Levels, NEW next \in Levels,
         NEW known \in Levels, EndsAt(d, held, known, p), RowsRise(d, held, p),
         \A s \in SkillIds : next[s] = IF MeantFor(Head(d), p, s) THEN Head(d).level ELSE held[s]
  PROVE  EndsAt(Tail(d), next, known, p)
<1> SUFFICES ASSUME NEW s \in SkillIds
             PROVE  /\ next[s] <= known[s]
                    /\ \A i \in DOMAIN Tail(d) : MeantFor(Tail(d)[i], p, s) => Tail(d)[i].level <= known[s]
                    /\ \/ next[s] = known[s]
                       \/ \E i \in DOMAIN Tail(d) : MeantFor(Tail(d)[i], p, s) /\ Tail(d)[i].level = known[s]
  BY DEF EndsAt
<1>1. /\ 1 \in DOMAIN d /\ d[1] = Head(d)
      /\ \A i \in DOMAIN d : MeantFor(d[i], p, s) => d[i].level <= known[s]
      /\ held[s] <= known[s] /\ held[s] \in Nat /\ known[s] \in Nat /\ next[s] \in Nat
  BY QueueShifts DEF EndsAt, Levels
<1>2. next[s] <= known[s]
  BY <1>1
<1>3. \A i \in DOMAIN Tail(d) : MeantFor(Tail(d)[i], p, s) => Tail(d)[i].level <= known[s]
  <2>1. \A i \in DOMAIN Tail(d) : i + 1 \in DOMAIN d /\ Tail(d)[i] = d[i + 1]
    BY QueueShifts
  <2> QED
    BY <1>1, <2>1
<1>4. CASE held[s] = known[s]
  <2>1. held[s] <= next[s]
    BY RowsRiseOn
  <2>2. next[s] = known[s]
    BY <1>1, <1>2, <1>4, <2>1
  <2> QED
    BY <1>2, <1>3, <2>2
<1>5. ASSUME NEW i \in DOMAIN d, MeantFor(d[i], p, s), d[i].level = known[s]
      PROVE  \/ next[s] = known[s]
             \/ \E j \in DOMAIN Tail(d) : MeantFor(Tail(d)[j], p, s) /\ Tail(d)[j].level = known[s]
  <2>1. CASE i = 1
    BY <1>1, <1>5, <2>1
  <2>2. CASE i # 1
    <3>1. i - 1 \in DOMAIN Tail(d) /\ Tail(d)[i - 1] = d[i]
      BY <2>2, QueueShifts
    <3> QED
      BY <1>5, <3>1
  <2> QED
    BY <2>1, <2>2
<1> QED
  BY <1>2, <1>3, <1>4, <1>5 DEF EndsAt

(* The loop adds a level above what the player knows. *)
LEMMA RowsRiseTo ==
  ASSUME NEW d \in Queues, NEW e \in Learns, NEW held \in Levels, NEW known \in Levels, NEW next \in Levels,
         RowsRise(d, held, e.who), EndsAt(d, held, known, e.who), known[e.skill] <= e.level,
         \A s \in SkillIds : next[s] = IF s = e.skill THEN e.level ELSE known[s]
  PROVE  RowsRise(Append(d, e), held, e.who) /\ EndsAt(Append(d, e), held, next, e.who)
<1> DEFINE n == Len(d) + 1
           new == Append(d, e)
           p == e.who
<1>1. /\ n \in Nat /\ DOMAIN new = 1..n /\ new[n] = e
      /\ \A i \in DOMAIN d : new[i] = d[i] /\ d[i] \in Learns /\ i < n
      /\ \A i \in DOMAIN new : i \in Nat /\ (i = n \/ i \in DOMAIN d)
      /\ \A i \in DOMAIN d : i \in DOMAIN new /\ i \in Nat
      /\ n \in DOMAIN new
  BY AppendProperties DEF Queues
<1>2. \A i \in DOMAIN d : d[i].level \in Nat
  BY <1>1 DEF Learns
<1>3. e.skill \in SkillIds /\ e.level \in Nat
  BY DEF Learns
<1>4. \A s \in SkillIds : held[s] \in Nat /\ known[s] \in Nat /\ next[s] \in Nat
  BY DEF Levels
<1> HIDE DEF n, new
<1>5. ASSUME NEW s \in SkillIds, MeantFor(e, p, s)
      PROVE  /\ held[s] <= e.level
             /\ \A i \in DOMAIN d : MeantFor(d[i], p, s) => d[i].level <= e.level
  <2>1. s = e.skill /\ known[s] <= e.level
    BY <1>5 DEF MeantFor
  <2>2. held[s] <= known[s] /\ \A i \in DOMAIN d : MeantFor(d[i], p, s) => d[i].level <= known[s]
    BY DEF EndsAt
  <2> QED
    BY <1>2, <1>3, <1>4, <2>1, <2>2
<1>6. ASSUME NEW s \in SkillIds, NEW i \in DOMAIN new, MeantFor(new[i], p, s)
      PROVE  held[s] <= new[i].level
  BY <1>1, <1>5, <1>6 DEF RowsRise
<1>7. ASSUME NEW s \in SkillIds, NEW i \in DOMAIN new, MeantFor(new[i], p, s),
             NEW j \in DOMAIN new, i <= j, MeantFor(new[j], p, s)
      PROVE  new[i].level <= new[j].level
  <2>1. CASE j = n
    <3>1. CASE i = n
      BY <1>1, <1>3, <2>1, <3>1
    <3>2. CASE i \in DOMAIN d
      BY <1>1, <1>5, <1>7, <2>1, <3>2
    <3> QED
      BY <1>1, <3>1, <3>2
  <2>2. CASE j \in DOMAIN d
    <3>1. i \in DOMAIN d
      BY <1>1, <1>7, <2>2
    <3> QED
      BY <1>1, <1>7, <2>2, <3>1 DEF RowsRise
  <2> QED
    BY <1>1, <2>1, <2>2
<1>8. RowsRise(new, held, p)
  BY <1>6, <1>7 DEF RowsRise
<1>9. ASSUME NEW s \in SkillIds
      PROVE  /\ held[s] <= next[s]
             /\ \A i \in DOMAIN new : MeantFor(new[i], p, s) => new[i].level <= next[s]
             /\ \/ held[s] = next[s]
                \/ \E i \in DOMAIN new : MeantFor(new[i], p, s) /\ new[i].level = next[s]
  <2>1. /\ held[s] <= known[s] /\ \A i \in DOMAIN d : MeantFor(d[i], p, s) => d[i].level <= known[s]
        /\ \/ held[s] = known[s]
           \/ \E i \in DOMAIN d : MeantFor(d[i], p, s) /\ d[i].level = known[s]
    BY DEF EndsAt
  <2>2. CASE s = e.skill
    <3>1. MeantFor(new[n], p, s) /\ new[n].level = next[s] /\ next[s] = e.level
      BY <1>1, <2>2 DEF MeantFor
    <3>2. \A i \in DOMAIN new : MeantFor(new[i], p, s) => new[i].level <= next[s]
      BY <1>1, <1>3, <1>5, <3>1
    <3>3. held[s] <= next[s]
      BY <1>1, <1>5, <3>1
    <3> QED
      BY <1>1, <3>1, <3>2, <3>3
  <2>3. CASE s # e.skill
    <3>1. next[s] = known[s] /\ ~MeantFor(e, p, s)
      BY <2>3 DEF MeantFor
    <3>2. \A i \in DOMAIN new : MeantFor(new[i], p, s) => i \in DOMAIN d
      BY <1>1, <3>1
    <3>3. \A i \in DOMAIN new : MeantFor(new[i], p, s) => new[i].level <= next[s]
      BY <1>1, <2>1, <3>1, <3>2
    <3>4. \A i \in DOMAIN d : MeantFor(d[i], p, s) => i \in DOMAIN new /\ new[i] = d[i]
      BY <1>1
    <3> QED
      BY <2>1, <3>1, <3>3, <3>4
  <2> QED
    BY <2>2, <2>3
<1>10. EndsAt(new, held, next, p)
  BY <1>9 DEF EndsAt
<1> QED
  BY <1>8, <1>10 DEF new

LEMMA InitRows == GrowthInit => RowsHold
<1> SUFFICES ASSUME GrowthInit PROVE RowsHold
  OBVIOUS
<1>1. Due = <<>> /\ \A p \in Players : place[p] = "lobby"
  BY DEF GrowthInit, Due
<1>2. DOMAIN Due = {}
  BY <1>1
<1> QED
  BY <1>1, <1>2 DEF RowsHold, SkillsOf, RowsRise, Owed

(* A step that touches neither queue nor skills of a player leaves its rows sound. *)
LEMMA RowsUndisturbed ==
  ASSUME NEW p \in Players, SkillsOf(p), UNCHANGED <<skills[p], Due>>,
         live'[p].known = live[p].known,
         place'[p] = "selected" => place[p] = "selected",
         place'[p] \in {"game", "saved"} => place[p] \in {"game", "saved"}
  PROVE  SkillsOf(p)'
BY DEF SkillsOf

(* So does the goroutine that writes or loses the head of the queue. *)
LEMMA RowsGoOn ==
  ASSUME NEW p \in Players, SkillsOf(p), Due \in Queues, Due # <<>>, Due' = Tail(Due),
         skills \in [Players -> Levels], skills' \in [Players -> Levels], live[p].known \in Levels,
         UNCHANGED <<live, place>>,
         \A s \in SkillIds :
           skills'[p][s] = IF MeantFor(Head(Due), p, s) THEN Head(Due).level ELSE skills[p][s]
  PROVE  SkillsOf(p)' /\ \A s \in SkillIds : skills[p][s] <= skills'[p][s]
<1>1. RowsRise(Due, skills[p], p) /\ skills[p] \in Levels /\ skills'[p] \in Levels
  BY DEF SkillsOf
<1>2. RowsRise(Tail(Due), skills'[p], p) /\ \A s \in SkillIds : skills[p][s] <= skills'[p][s]
  BY <1>1, RowsRiseOn
<1>3. EndsAt(Due, skills[p], live[p].known, p) => EndsAt(Tail(Due), skills'[p], live[p].known, p)
  BY <1>1, EndsOn
<1>4. Owed(Tail(Due), p) => Owed(Due, p)
  BY QueueShifts DEF Owed
<1> QED
  BY <1>2, <1>3, <1>4 DEF SkillsOf

(* No step mixes up what is written and what is due. *)
LEMMA RowsKept ==
  ASSUME GrowthTyped, GrowthTyped', RowsHold, GrowthNext
  PROVE  RowsHold'
<1>0. /\ live \in [Players -> Pages] /\ live' \in [Players -> Pages]
      /\ skills \in [Players -> Levels] /\ skills' \in [Players -> Levels]
      /\ place \in [Players -> {"lobby", "selected", "game", "saved"}]
      /\ Due \in Queues /\ learned \in Queues /\ tally \in Tallies
      /\ \A p \in Players : Owed(Due, p) => Pending(p)
      /\ \A p \in Players : live[p].known \in Levels
  <2>1. Due \in Queues /\ \A p \in Players : Owed(Due, p) => Pending(p)
    BY DueIs
  <2> QED
    BY <2>1 DEF GrowthTyped, GrowthTypeOK, Pages, Learns, Queues, Tallies
<1>01. tally.late \subseteq tally'.late
  BY LateGrows
<1>02. \A p \in Players \ tally'.late : SkillsOf(p)
  BY <1>01 DEF RowsHold
<1>03. \A p \in Players : p \in Late(p).late
  BY <1>0 DEF Late, Tallies
<1>04. UNCHANGED <<learned, paying>> => Due' = Due
  BY DEF Due
<1>1. ASSUME NEW p \in Players, SelectRow(p) PROVE RowsHold'
  <2>1. /\ place' = [place EXCEPT ![p] = "selected"] /\ UNCHANGED <<skills, learned, paying>>
        /\ \A q \in Players \ {p} : live'[q] = live[q]
        /\ tally' = IF Pending(p) THEN Late(p) ELSE tally
    BY <1>0, <1>1 DEF SelectRow
  <2>2. ASSUME p \notin tally'.late
        PROVE  SkillsOf(p)'
    <3>1. ~Owed(Due, p)
      BY <1>0, <1>03, <2>1, <2>2
    <3> QED
      BY <1>0, <1>02, <1>04, <2>1, <2>2, <3>1 DEF SkillsOf
  <2>3. \A q \in Players \ (tally'.late \union {p}) : SkillsOf(q)'
    BY <1>0, <1>02, <1>04, <2>1, RowsUndisturbed
  <2> QED
    BY <2>2, <2>3 DEF RowsHold
<1>2. ASSUME NEW p \in Players,
             \/ ReturnToLobby(p) \/ SaveOnLeaving(p) \/ SaveFails(p) \/ RemoveSaved(p)
      PROVE  RowsHold'
  <2>1. UNCHANGED <<live, skills, learned, paying>>
    BY <1>2 DEF ReturnToLobby, SaveOnLeaving, SaveFails, RemoveSaved
  <2>2. \A q \in Players : /\ place'[q] # "selected" \/ place[q] = "selected"
                           /\ place'[q] \in {"game", "saved"} => place[q] \in {"game", "saved"}
    BY <1>0, <1>2 DEF ReturnToLobby, SaveOnLeaving, SaveFails, RemoveSaved
  <2> QED
    BY <1>02, <1>04, <2>1, <2>2, RowsUndisturbed DEF RowsHold
<1>3. ASSUME NEW p \in Players, EnterWithSkills(p) PROVE RowsHold'
  <2>1. /\ place[p] = "selected" /\ place' = [place EXCEPT ![p] = "game"] /\ UNCHANGED <<learned, paying>>
        /\ skills' = [skills EXCEPT ![p] = Reconciled(p)]
        /\ live' = [live EXCEPT ![p].known = Reconciled(p)]
    BY <1>3 DEF EnterWithSkills
  <2>2. ASSUME p \notin tally'.late
        PROVE  SkillsOf(p)'
    <3>1. ~Owed(Due, p)
      BY <1>02, <2>1, <2>2 DEF SkillsOf
    <3>2. skills'[p] = live'[p].known /\ skills'[p] \in Levels
      BY <1>0, <2>1 DEF Pages
    <3>3. \A i \in DOMAIN Due, s \in SkillIds : ~MeantFor(Due[i], p, s)
      BY <3>1 DEF Owed, MeantFor
    <3>4. RowsRise(Due, skills'[p], p)
      BY <3>3 DEF RowsRise
    <3>5. EndsAt(Due, skills'[p], live'[p].known, p)
      BY <3>2, <3>3 DEF EndsAt, Levels
    <3> QED
      BY <1>0, <1>04, <2>1, <3>4, <3>5 DEF SkillsOf
  <2>3. \A q \in Players \ (tally'.late \union {p}) : SkillsOf(q)'
    BY <1>0, <1>02, <1>04, <2>1, RowsUndisturbed
  <2> QED
    BY <2>2, <2>3 DEF RowsHold
<1>4. ASSUME NEW p \in Players, Reward(p) \/ CompareLevel(p) PROVE RowsHold'
  <2>1. UNCHANGED <<place, skills, learned, paying>>
    BY <1>4 DEF Reward, CompareLevel
  <2>2. \A q \in Players : live'[q].known = live[q].known
    BY <1>0, <1>4 DEF Reward, CompareLevel, Pages
  <2> QED
    BY <1>02, <1>04, <2>1, <2>2, RowsUndisturbed DEF RowsHold
<1>5. ASSUME NEW p \in Players, NEW t \in Trees, Learn(p, t) PROVE RowsHold'
  <2> DEFINE e == [who |-> p, skill |-> t.skill, level |-> t.level]
  <2>1. /\ place[p] \in {"game", "saved"} /\ paying = Nothing /\ live[p].known[t.skill] < t.level
        /\ live' = [live EXCEPT ![p].sp = @ - t.cost, ![p].known[t.skill] = t.level]
        /\ paying' = e /\ UNCHANGED <<place, skills, learned>>
    BY <1>5 DEF Learn, LoopIsFree, Meets
  <2>2. /\ e \in Learns /\ e.who = p /\ e.skill = t.skill /\ e.level = t.level /\ e # Nothing
        /\ t.skill \in SkillIds /\ t.level \in Nat
    BY EntriesAreTyped DEF Learns, Nothing
  <2> HIDE DEF e
  <2>3. Due' = Append(Due, e)
    BY <2>1, <2>2 DEF Due
  <2>4. /\ \A s \in SkillIds : live'[p].known[s] = IF s = t.skill THEN t.level ELSE live[p].known[s]
        /\ \A q \in Players \ {p} : live'[q] = live[q]
    BY <1>0, <2>1, <2>2 DEF Pages, Levels
  <2>5. ASSUME p \notin tally'.late
        PROVE  SkillsOf(p)'
    <3>1. RowsRise(Due, skills[p], p) /\ EndsAt(Due, skills[p], live[p].known, p)
      BY <1>02, <2>1, <2>5 DEF SkillsOf
    <3>2. live[p].known \in Levels /\ live'[p].known \in Levels /\ skills[p] \in Levels
      BY <1>0 DEF Pages
    <3>3. live[p].known[t.skill] <= t.level
      BY <2>1, <2>2, <3>2 DEF Levels
    <3>4. RowsRise(Append(Due, e), skills[p], p) /\ EndsAt(Append(Due, e), skills[p], live'[p].known, p)
      <4>1. /\ RowsRise(Due, skills[p], e.who) /\ EndsAt(Due, skills[p], live[p].known, e.who)
            /\ live[p].known[e.skill] <= e.level
            /\ \A s \in SkillIds : live'[p].known[s] = IF s = e.skill THEN e.level ELSE live[p].known[s]
        BY <2>2, <2>4, <3>1, <3>3
      <4>2. RowsRise(Append(Due, e), skills[p], e.who) /\ EndsAt(Append(Due, e), skills[p], live'[p].known, e.who)
        BY <1>0, <2>2, <3>2, <4>1, RowsRiseTo
      <4> QED
        BY <2>2, <4>2
    <3> QED
      BY <2>1, <2>3, <3>4 DEF SkillsOf
  <2>6. ASSUME NEW q \in Players \ {p}, SkillsOf(q)
        PROVE  SkillsOf(q)'
    <3>1. /\ \A i \in DOMAIN Due : i \in DOMAIN Due' /\ Due'[i] = Due[i]
          /\ \A i \in DOMAIN Due' : Due'[i].who = q => i \in DOMAIN Due
      BY <1>0, <2>2, <2>3, AppendProperties DEF Queues
    <3>2. Owed(Due', q) => Owed(Due, q)
      BY <3>1 DEF Owed
    <3>3. \A i \in DOMAIN Due', s \in SkillIds : MeantFor(Due'[i], q, s) => i \in DOMAIN Due
      BY <3>1 DEF MeantFor
    <3>4. RowsRise(Due, skills[q], q) => RowsRise(Due', skills[q], q)
      BY <3>1, <3>3 DEF RowsRise
    <3>5. EndsAt(Due, skills[q], live[q].known, q) => EndsAt(Due', skills[q], live[q].known, q)
      BY <3>1, <3>3 DEF EndsAt
    <3> QED
      BY <2>1, <2>4, <2>6, <3>2, <3>4, <3>5 DEF SkillsOf
  <2> QED
    BY <1>02, <2>5, <2>6 DEF RowsHold
<1>6. CASE Dies \/ AutosaveAll \/ SaverWrites
  <2>1. UNCHANGED <<live, place, skills, learned, paying>>
    BY <1>0, <1>6, DeathsLeave DEF AutosaveAll, SaverWrites
  <2> QED
    BY <1>02, <1>04, <2>1, RowsUndisturbed DEF RowsHold
<1>7. CASE SendLearned
  <2>1. UNCHANGED <<live, place, skills>> /\ Due' = Due
    BY <1>7 DEF SendLearned, Due
  <2> QED
    BY <1>02, <2>1, RowsUndisturbed DEF RowsHold
<1>8. CASE LearnerWrites
  <2>1. /\ learned # <<>> /\ learned' = Tail(learned) /\ UNCHANGED <<live, place, paying>>
        /\ skills' = [skills EXCEPT ![Head(learned).who][Head(learned).skill] = Head(learned).level]
    BY <1>8 DEF LearnerWrites
  <2>2. Due # <<>> /\ Due' = Tail(Due) /\ Head(Due) = Head(learned)
    BY <2>1, HeadIsDue
  <2>3. PICK e \in Learns : e = Head(Due)
    BY <1>0, <2>2, QueueShifts
  <2>4. skills' = [skills EXCEPT ![e.who][e.skill] = e.level]
    BY <2>1, <2>2, <2>3
  <2>5. \A p \in Players, s \in SkillIds :
          skills'[p][s] = IF MeantFor(e, p, s) THEN e.level ELSE skills[p][s]
    BY <1>0, <2>4 DEF MeantFor, Levels, Learns
  <2>6. ASSUME NEW p \in Players \ tally'.late
        PROVE  SkillsOf(p)'
    BY <1>0, <1>02, <2>1, <2>2, <2>3, <2>5, RowsGoOn
  <2> QED
    BY <2>6 DEF RowsHold
<1>9. CASE WriteFails
  <2>1. UNCHANGED <<live, place, skills, paying>>
    BY <1>9 DEF WriteFails
  <2>2. CASE UNCHANGED learned
    BY <1>02, <1>04, <2>1, <2>2, RowsUndisturbed DEF RowsHold
  <2>3. CASE /\ learned # <<>> /\ learned' = Tail(learned)
             /\ tally' = [Late(Head(learned).who) EXCEPT !.faults = @ + 1]
    <3>1. Due # <<>> /\ Due' = Tail(Due) /\ Head(Due) = Head(learned)
      BY <2>1, <2>3, HeadIsDue
    <3>2. PICK e \in Learns : e = Head(Due)
      BY <1>0, <3>1, QueueShifts
    <3>3. e.who \in tally'.late
      <4>1. e.who \in Players /\ tally' = [Late(e.who) EXCEPT !.faults = @ + 1]
        BY <2>3, <3>1, <3>2 DEF Learns
      <4>2. e.who \in Late(e.who).late /\ Late(e.who) \in Tallies
        BY <1>0, <1>03, <4>1, TallyChanges DEF Late
      <4> QED
        BY <4>1, <4>2 DEF Tallies
    <3>4. ASSUME NEW p \in Players \ tally'.late
          PROVE  SkillsOf(p)'
      <4>1. \A s \in SkillIds : ~MeantFor(e, p, s)
        BY <3>3 DEF MeantFor
      <4> QED
        BY <1>0, <1>02, <2>1, <3>1, <3>2, <4>1, RowsGoOn
    <3> QED
      BY <3>4 DEF RowsHold
  <2> QED
    BY <1>9, <2>2, <2>3 DEF WriteFails
<1>10. CASE Crash
  <2>1. Due' = <<>> /\ \A p \in Players : place'[p] = "lobby"
    BY <1>10 DEF Crash, Due
  <2>2. DOMAIN Due' = {}
    BY <2>1
  <2> QED
    BY <2>1, <2>2 DEF RowsHold, SkillsOf, RowsRise, Owed
<1> QED
  BY <1>1, <1>2, <1>3, <1>4, <1>5, <1>6, <1>7, <1>8, <1>9, <1>10 DEF GrowthNext, Dies

(* Only an entry and the learner write the table of skills. *)
LEMMA RowsGrow ==
  ASSUME GrowthTyped, GrowthTyped', RowsHold, GrowthNext
  PROVE  \A p \in Players \ tally.late, s \in SkillIds : skills'[p][s] >= skills[p][s]
<1>0. /\ skills \in [Players -> Levels] /\ skills' \in [Players -> Levels] /\ Due \in Queues
      /\ \A p \in Players : live[p].known \in Levels
      /\ live \in [Players -> Pages]
  BY DueIs DEF GrowthTyped, GrowthTypeOK, Pages
<1>1. UNCHANGED skills => \A p \in Players, s \in SkillIds : skills'[p][s] >= skills[p][s]
  BY <1>0 DEF Levels
<1>2. ASSUME NEW p \in Players, EnterWithSkills(p), NEW q \in Players, NEW s \in SkillIds
      PROVE  skills'[q][s] >= skills[q][s]
  <2>1. skills' = [skills EXCEPT ![p] = Reconciled(p)]
    BY <1>2 DEF EnterWithSkills
  <2>2. CASE q = p
    <3>1. skills'[q][s] = Reconciled(p)[s] /\ skills[q][s] \in Nat /\ skills'[q][s] \in Nat
      BY <1>0, <2>1, <2>2 DEF Levels
    <3>2. AutoGetSkills(live[p].level)[s] \in Nat
      BY <1>0, GrantsAreLevels DEF Levels, Pages
    <3> QED
      BY <2>2, <3>1, <3>2 DEF Reconciled
  <2>3. CASE q # p
    BY <1>0, <2>1, <2>3 DEF Levels
  <2> QED
    BY <2>2, <2>3
<1>3. ASSUME LearnerWrites, NEW p \in Players \ tally.late
      PROVE  \A s \in SkillIds : skills'[p][s] >= skills[p][s]
  <2>1. /\ learned # <<>> /\ learned' = Tail(learned) /\ UNCHANGED <<live, place, paying>>
        /\ skills' = [skills EXCEPT ![Head(learned).who][Head(learned).skill] = Head(learned).level]
    BY <1>3 DEF LearnerWrites
  <2>2. Due # <<>> /\ Due' = Tail(Due) /\ Head(Due) = Head(learned)
    BY <2>1, HeadIsDue
  <2>3. PICK e \in Learns : e = Head(Due)
    BY <1>0, <2>2, QueueShifts
  <2>4. skills' = [skills EXCEPT ![e.who][e.skill] = e.level]
    BY <2>1, <2>2, <2>3
  <2>5. \A s \in SkillIds : skills'[p][s] = IF MeantFor(e, p, s) THEN e.level ELSE skills[p][s]
    BY <1>0, <2>4 DEF MeantFor, Levels, Learns
  <2>6. \A s \in SkillIds : skills[p][s] <= skills'[p][s]
    <3>1. SkillsOf(p) /\ \A s \in SkillIds :
            skills'[p][s] = IF MeantFor(Head(Due), p, s) THEN Head(Due).level ELSE skills[p][s]
      BY <2>3, <2>5 DEF RowsHold
    <3> QED
      BY <1>0, <2>1, <2>2, <3>1, RowsGoOn
  <2> QED
    BY <1>0, <2>6 DEF Levels
<1>4. UNCHANGED skills \/ LearnerWrites \/ \E p \in Players : EnterWithSkills(p)
  BY DEF GrowthNext, SelectRow, ReturnToLobby, SaveOnLeaving, SaveFails, RemoveSaved, Reward,
         CompareLevel, Learn, Kill, DieAgain, SendLearned, AutosaveAll, SaverWrites, WriteFails, Crash
<1> QED
  BY <1>1, <1>2, <1>3, <1>4

-----------------------------------------------------------------------------
(* What skills have cost. *)

(* The price of what was taken is a number, and grows with each entry by its price. *)
LEMMA CostGrows ==
  ASSUME NEW S \in SUBSET Trees
  PROVE  /\ CostOf(S) \in Nat
         /\ \A t \in Trees \ S : CostOf(S \union {t}) = CostOf(S) + t.cost
<1> DEFINE f == [u \in Trees |-> u.cost]
<1>1. IsFiniteSet(Trees) /\ \A u \in Trees : f[u] \in Nat /\ f[u] = u.cost
  BY GrowthAssumption, EntriesAreTyped
<1>2. CostOf(S) = SumFunctionOnSet(f, S)
  BY DEF CostOf
<1>3. ASSUME NEW t \in Trees \ S
      PROVE  CostOf(S \union {t}) = f[t] + SumFunctionOnSet(f, S)
  <2>1. CostOf(S \union {t}) = SumFunctionOnSet(f, S \union {t})
    BY DEF CostOf
  <2>2. (S \union {t}) \ {t} = S /\ t \in S \union {t} /\ S \union {t} \subseteq Trees
    OBVIOUS
  <2>3. IsFiniteSet(S \union {t}) /\ \A u \in S \union {t} : f[u] \in Nat
    BY <1>1, <2>2, FS_Subset
  <2> HIDE DEF f
  <2>4. SumFunctionOnSet(f, S \union {t}) = f[t] + SumFunctionOnSet(f, (S \union {t}) \ {t})
    BY <2>2, <2>3, SumTakesOut
  <2> QED
    BY <2>1, <2>2, <2>4
<1>4. IsFiniteSet(S) /\ \A u \in S : f[u] \in Nat
  BY <1>1, FS_Subset
<1> HIDE DEF f
<1>5. SumFunctionOnSet(f, S) \in Nat
  BY <1>4, SumIsNat
<1> QED
  BY <1>1, <1>2, <1>3, <1>5

(* What an entry into the world adds to the skills was granted. *)
LEMMA GrantsAreOwned ==
  ASSUME GrowthTyped, NEW p \in Players, Owns(p, skills[p])
  PROVE  Owns(p, Reconciled(p))
<1> DEFINE auto == AutoGetSkills(live[p].level)
<1>1. live[p].level \in Nat
  <2>1. live[p].level \in 1..MaxLevel
    BY DEF GrowthTyped, GrowthTypeOK
  <2> QED
    BY <2>1, GrowthAssumption
<1>2. \A s \in SkillIds : auto[s] = 0 \/ \E u \in Trees : u.skill = s /\ ~u.npc /\ auto[s] = u.level
  BY <1>1, GrantsAreLevels
<1>3. \A s \in SkillIds : Reconciled(p)[s] = IF skills[p][s] < auto[s] THEN auto[s] ELSE skills[p][s]
  BY DEF Reconciled
<1> HIDE DEF auto
<1>4. ASSUME NEW t \in tally.taken[p]
      PROVE  t.level <= Reconciled(p)[t.skill]
  <2>1. tally.taken[p] \subseteq Trees /\ Reconciled(p) \in Levels
    BY ReconciledIsLevels DEF GrowthTyped, Tallies
  <2>2. t.skill \in SkillIds /\ t.level \in Nat
    BY <2>1, EntriesAreTyped
  <2>3. /\ t.level <= skills[p][t.skill] /\ skills[p][t.skill] \in Nat
        /\ skills[p][t.skill] <= Reconciled(p)[t.skill] /\ Reconciled(p)[t.skill] \in Nat
    BY <2>1, <2>2, ReconciledIsLevels DEF Owns, Levels
  <2> QED
    BY <2>2, <2>3
<1>5. ASSUME NEW s \in SkillIds, Reconciled(p)[s] # 0
      PROVE  \E t \in Trees : t.skill = s /\ t.level = Reconciled(p)[s] /\ (t.npc => t \in tally.taken[p])
  <2>1. CASE Reconciled(p)[s] = skills[p][s]
    BY <1>5, <2>1 DEF Owns
  <2>2. CASE Reconciled(p)[s] = auto[s]
    BY <1>2, <1>5, <2>2
  <2> QED
    BY <1>3, <2>1, <2>2
<1> QED
  BY <1>4, <1>5 DEF Owns

(* Once nothing is due the table holds what the player knows. *)
LEMMA NothingDue ==
  ASSUME NEW d \in Queues, NEW p, NEW held \in Levels, NEW known \in Levels,
         EndsAt(d, held, known, p), ~Owed(d, p)
  PROVE  held = known
<1>1. \A s \in SkillIds : held[s] = known[s]
  BY DEF EndsAt, Owed, MeantFor
<1> QED
  BY <1>1 DEF Levels

(* What a player has earned, and what it has paid for. *)
AccountStays == tally'.earned = tally.earned /\ tally'.taken = tally.taken

(* SP are earned by rewards and spent on lessons alone. *)
LEMMA EarnedWaits ==
  ASSUME GrowthTyped, GrowthNext
  PROVE  AccountStays \/ \E p \in Players : Reward(p) \/ \E t \in Trees : Learn(p, t)
<1>0. tally \in Tallies /\ saves \in Seq(Rows) /\ learned \in Seq(Learns)
  BY DEF GrowthTyped, GrowthTypeOK, Rows, Learns, Tallies
<1>1. \A p : Late(p).earned = tally.earned /\ Late(p).taken = tally.taken
  BY <1>0 DEF Late, Tallies
<1>2. ASSUME NEW p \in Players,
             \/ SelectRow(p) \/ ReturnToLobby(p) \/ RemoveSaved(p) \/ EnterWithSkills(p) \/ SaveOnLeaving(p)
      PROVE  AccountStays
  BY <1>1, <1>2 DEF SelectRow, ReturnToLobby, RemoveSaved, EnterWithSkills, SaveOnLeaving, AccountStays
<1>3. ASSUME NEW p \in Players, SaveFails(p) \/ CompareLevel(p)
      PROVE  AccountStays
  BY <1>0, <1>3 DEF SaveFails, CompareLevel, Tallies, AccountStays
<1>4. ASSUME Dies \/ Crash
      PROVE  AccountStays
  BY <1>0, <1>4, DeathsLeave DEF Crash, Tallies, AccountStays
<1>5. ASSUME SendLearned \/ AutosaveAll \/ LearnerWrites \/ SaverWrites
      PROVE  AccountStays
  BY <1>1, <1>5 DEF SendLearned, AutosaveAll, LearnerWrites, SaverWrites, AccountStays
<1>6. ASSUME WriteFails
      PROVE  AccountStays
  <2>2. ASSUME NEW r \in Tallies
        PROVE  [r EXCEPT !.faults = @ + 1].earned = r.earned /\ [r EXCEPT !.faults = @ + 1].taken = r.taken
    BY DEF Tallies
  <2>3. CASE tally' = [tally EXCEPT !.faults = @ + 1]
    BY <1>0, <2>2, <2>3 DEF AccountStays
  <2>4. CASE learned # <<>> /\ tally' = [Late(Head(learned).who) EXCEPT !.faults = @ + 1]
    <3>0. Head(learned) \in Learns
      BY <1>0, <2>4, TailIsOf
    <3>1. PICK p \in Players : p = Head(learned).who
      BY <3>0 DEF Learns
    <3>2. Late(p) \in Tallies
      <4>1. \A S \in SUBSET Players : [tally EXCEPT !.late = @ \union S] \in Tallies
        BY <1>0, TallyChanges
      <4>2. {p} \in SUBSET Players
        OBVIOUS
      <4> QED
        BY <4>1, <4>2 DEF Late
    <3> QED
      BY <1>1, <2>2, <2>4, <3>1, <3>2 DEF AccountStays
  <2> QED
    BY <1>6, <2>3, <2>4 DEF WriteFails
<1> QED
  BY <1>2, <1>3, <1>4, <1>5, <1>6 DEF GrowthNext, Dies

(* A write changes where the skills of a player are, not which they are. *)
LEMMA KnowsGoesOn ==
  ASSUME NEW p \in Players, SkillsOf(p), Due \in Queues, Due # <<>>, Due' = Tail(Due), Due' \in Queues,
         skills \in [Players -> Levels], skills' \in [Players -> Levels], live[p].known \in Levels,
         UNCHANGED <<live, place>>,
         \A s \in SkillIds :
           skills'[p][s] = IF MeantFor(Head(Due), p, s) THEN Head(Due).level ELSE skills[p][s]
  PROVE  Knows(p)' = Knows(p)
<1>1. SkillsOf(p)' /\ Head(Due) \in Learns /\ 1 \in DOMAIN Due /\ Due[1] = Head(Due)
  BY RowsGoOn, QueueShifts
<1>2. CASE Owed(Due, p) /\ ~Owed(Due', p) /\ place[p] \notin {"game", "saved"}
  <2>1. EndsAt(Due, skills[p], live[p].known, p) /\ RowsRise(Due, skills[p], p)
    BY <1>2 DEF SkillsOf
  <2>2. EndsAt(Tail(Due), skills'[p], live[p].known, p)
    BY <2>1, EndsOn
  <2>3. skills'[p] = live[p].known
    BY <1>2, <2>2, NothingDue
  <2> QED
    BY <1>2, <2>3 DEF Knows
<1>3. CASE ~Owed(Due, p)
  <2>1. ~Owed(Due', p)
    BY <1>3, QueueShifts DEF Owed
  <2>2. \A s \in SkillIds : skills'[p][s] = skills[p][s]
    BY <1>1, <1>3 DEF Owed, MeantFor
  <2>3. skills'[p] = skills[p]
    BY <2>2 DEF Levels
  <2> QED
    BY <1>3, <2>1, <2>3 DEF Knows
<1>4. CASE place[p] \in {"game", "saved"} \/ (Owed(Due, p) /\ Owed(Due', p))
  BY <1>4 DEF Knows
<1> QED
  BY <1>2, <1>3, <1>4

LEMMA InitPaid == GrowthInit => PaidHolds
<1> SUFFICES ASSUME GrowthInit, NEW p \in Players PROVE PaidOf(p)
  BY DEF PaidHolds
<1>1. /\ row[p].sp = 0 /\ skills[p] = Unskilled /\ place[p] = "lobby" /\ Due = <<>>
      /\ tally.earned[p] = 0 /\ tally.taken[p] = {}
  BY DEF GrowthInit, Due
<1>2. ~Owed(Due, p)
  BY <1>1 DEF Owed
<1>3. CostOf({}) = 0
  BY SumEmpty DEF CostOf
<1>4. Owns(p, Unskilled)
  BY <1>1 DEF Owns, Unskilled
<1> QED
  BY <1>1, <1>2, <1>3, <1>4 DEF PaidOf, Purse, Knows

(* SP and the price of what was taken move together, in memory and between the tables. *)
LEMMA PaidKept ==
  ASSUME GrowthTyped, GrowthTyped', SharesHold, RowsHold, RowsHold', PaidHolds, GrowthNext
  PROVE  PaidHolds'
<1>0. /\ live \in [Players -> Pages] /\ row \in [Players -> Progress]
      /\ skills \in [Players -> Levels] /\ skills' \in [Players -> Levels]
      /\ place \in [Players -> {"lobby", "selected", "game", "saved"}]
      /\ Due \in Queues /\ Due' \in Queues /\ tally \in Tallies
      /\ \A p \in Players : Owed(Due, p) => Pending(p)
      /\ \A p \in Players : live[p].known \in Levels
  <2>1. Due \in Queues /\ \A p \in Players : Owed(Due, p) => Pending(p)
    BY DueIs
  <2>2. learned' \in Queues /\ paying' \in {Nothing} \union Learns
    BY DEF GrowthTyped, GrowthTypeOK, Learns, Queues
  <2>3. Due' \in Queues
    BY <2>2, AppendProperties DEF Due, Queues
  <2> QED
    BY <2>1, <2>3 DEF GrowthTyped, GrowthTypeOK, Pages, Tallies
<1>01. tally.late \subseteq tally'.late
  BY LateGrows
<1>02. \A p \in Players \ tally'.late : SkillsOf(p) /\ SkillsOf(p)' /\ PaidOf(p)
  BY <1>01 DEF RowsHold, PaidHolds
<1>03. \A p \in Players : p \in Late(p).late
  BY <1>0 DEF Late, Tallies
<1>04. UNCHANGED <<learned, paying>> => Due' = Due
  BY DEF Due
<1>05. ASSUME NEW p \in Players \ tally'.late, AccountStays,
              Purse(p)' = Purse(p), Knows(p)' = Knows(p)
       PROVE  PaidOf(p)'
  <2>1. Purse(p) + CostOf(tally.taken[p]) = tally.earned[p] /\ Owns(p, Knows(p))
    BY <1>02 DEF PaidOf
  <2>2. CostOf(tally.taken[p])' = CostOf(tally.taken[p])
    BY <1>05 DEF CostOf, AccountStays
  <2>3. Owns(p, Knows(p))'
    BY <1>05, <2>1 DEF Owns, AccountStays
  <2> QED
    BY <1>05, <2>1, <2>2, <2>3 DEF PaidOf, AccountStays
<1>06. AccountStays \/ \E p \in Players : Reward(p) \/ \E t \in Trees : Learn(p, t)
  BY EarnedWaits
<1>07. ASSUME NEW p \in Players \ tally'.late, AccountStays,
              UNCHANGED <<place[p], row[p], live[p], skills[p], Due>>
       PROVE  PaidOf(p)'
  BY <1>05, <1>07 DEF Purse, Knows
<1>08. ASSUME NEW p \in Players \ tally'.late, ~Owed(Due, p), place[p] \in {"game", "saved"}
       PROVE  skills[p] = live[p].known
  BY <1>0, <1>02, <1>08, NothingDue DEF SkillsOf
<1> HIDE DEF PaidHolds
<1>1. ASSUME NEW p \in Players, SelectRow(p) PROVE PaidHolds'
  <2>1. /\ place[p] = "lobby" /\ place' = [place EXCEPT ![p] = "selected"]
        /\ UNCHANGED <<row, skills, learned, paying>>
        /\ live'[p].sp = row[p].sp /\ \A q \in Players \ {p} : live'[q] = live[q]
        /\ tally' = IF Pending(p) THEN Late(p) ELSE tally
    BY <1>0, <1>1 DEF SelectRow
  <2>2. AccountStays
    BY <1>0, <2>1 DEF Late, Tallies, AccountStays
  <2>3. ASSUME p \notin tally'.late
        PROVE  PaidOf(p)'
    <3>1. ~Owed(Due, p)
      BY <1>0, <1>03, <2>1, <2>3
    <3>2. place'[p] = "selected" /\ Due' = Due
      BY <1>0, <1>04, <2>1
    <3>3. Purse(p)' = Purse(p) /\ Knows(p)' = Knows(p)
      BY <2>1, <3>1, <3>2 DEF Purse, Knows
    <3> QED
      BY <1>05, <2>2, <2>3, <3>3
  <2>4. \A q \in Players \ (tally'.late \union {p}) : PaidOf(q)'
    BY <1>0, <1>04, <1>07, <2>1, <2>2
  <2> QED
    BY <2>3, <2>4 DEF PaidHolds
<1>2. ASSUME NEW p \in Players, ReturnToLobby(p) \/ RemoveSaved(p) PROVE PaidHolds'
  <2>1. /\ place[p] \in {"selected", "saved"} /\ place' = [place EXCEPT ![p] = "lobby"]
        /\ UNCHANGED <<live, row, skills, learned, paying>>
        /\ tally' = IF row[p] = Stored(p) THEN tally ELSE Late(p)
    BY <1>2 DEF ReturnToLobby, RemoveSaved
  <2>2. AccountStays
    BY <1>0, <2>1 DEF Late, Tallies, AccountStays
  <2>3. ASSUME p \notin tally'.late
        PROVE  PaidOf(p)'
    <3>1. row[p] = Stored(p) /\ place'[p] = "lobby" /\ Due' = Due
      BY <1>0, <1>03, <1>04, <2>1, <2>3
    <3>2. Purse(p)' = Purse(p)
      BY <2>1, <3>1 DEF Purse, Stored
    <3>3. Knows(p)' = Knows(p)
      <4>1. CASE place[p] = "selected"
        <5>1. ~Owed(Due, p)
          BY <1>02, <2>3, <4>1 DEF SkillsOf
        <5> QED
          BY <2>1, <3>1, <4>1, <5>1 DEF Knows
      <4>2. CASE place[p] = "saved"
        BY <1>08, <2>1, <2>3, <3>1, <4>2 DEF Knows
      <4> QED
        BY <2>1, <4>1, <4>2
    <3> QED
      BY <1>05, <2>2, <2>3, <3>2, <3>3
  <2>4. \A q \in Players \ (tally'.late \union {p}) : PaidOf(q)'
    BY <1>0, <1>04, <1>07, <2>1, <2>2
  <2> QED
    BY <2>3, <2>4 DEF PaidHolds
<1>3. ASSUME NEW p \in Players, EnterWithSkills(p) PROVE PaidHolds'
  <2>1. /\ place[p] = "selected" /\ place' = [place EXCEPT ![p] = "game"] /\ UNCHANGED <<row, learned, paying>>
        /\ skills' = [skills EXCEPT ![p] = Reconciled(p)]
        /\ live' = [live EXCEPT ![p].known = Reconciled(p)]
        /\ tally' = IF Pending(p) THEN Late(p) ELSE tally
    BY <1>3 DEF EnterWithSkills
  <2>2. AccountStays
    BY <1>0, <2>1 DEF Late, Tallies, AccountStays
  <2>3. ASSUME p \notin tally'.late
        PROVE  PaidOf(p)'
    <3>1. ~Owed(Due, p)
      BY <1>02, <2>1, <2>3 DEF SkillsOf
    <3>2. live'[p].known = Reconciled(p) /\ live'[p].sp = live[p].sp /\ place'[p] = "game"
      BY <1>0, <2>1 DEF Pages
    <3>3. Purse(p)' = Purse(p)
      BY <2>1, <3>2 DEF Purse
    <3>4. Knows(p) = skills[p] /\ Knows(p)' = Reconciled(p)
      BY <2>1, <3>1, <3>2 DEF Knows
    <3>5. Purse(p) + CostOf(tally.taken[p]) = tally.earned[p] /\ Owns(p, skills[p])
      BY <1>02, <2>3, <3>4 DEF PaidOf
    <3>6. Owns(p, Reconciled(p))
      BY <3>5, GrantsAreOwned
    <3>7. Owns(p, Knows(p))' /\ CostOf(tally.taken[p])' = CostOf(tally.taken[p])
      BY <2>2, <3>4, <3>6 DEF Owns, CostOf, AccountStays
    <3> QED
      BY <2>2, <3>3, <3>5, <3>7 DEF PaidOf, AccountStays
  <2>4. \A q \in Players \ (tally'.late \union {p}) : PaidOf(q)'
    BY <1>0, <1>04, <1>07, <2>1, <2>2
  <2> QED
    BY <2>3, <2>4 DEF PaidHolds
<1>4. ASSUME NEW p \in Players, SaveOnLeaving(p) \/ SaveFails(p) PROVE PaidHolds'
  <2>1. /\ place[p] = "game" /\ place' = [place EXCEPT ![p] = "saved"]
        /\ UNCHANGED <<live, skills, learned, paying>> /\ \A q \in Players \ {p} : row'[q] = row[q]
    BY <1>0, <1>4 DEF SaveOnLeaving, SaveFails
  <2>2. AccountStays
    BY <1>0, <1>4 DEF SaveOnLeaving, SaveFails, Late, Tallies, AccountStays
  <2>3. Purse(p)' = Purse(p) /\ Knows(p)' = Knows(p)
    BY <1>0, <2>1 DEF Purse, Knows
  <2>4. \A q \in Players \ (tally'.late \union {p}) : PaidOf(q)'
    BY <1>0, <1>04, <1>07, <2>1, <2>2
  <2> QED
    BY <1>05, <2>2, <2>3, <2>4 DEF PaidHolds
<1>5. ASSUME NEW p \in Players, Reward(p) PROVE PaidHolds'
  <2> DEFINE n == Share(bounty.mob.sp, p)
  <2>1. UNCHANGED <<place, row, skills, learned, paying>> /\ p \in bounty.left
    BY <1>5 DEF Reward
  <2>2. CASE ~InMemory(p)
    <3>1. UNCHANGED <<live, tally>>
      BY <1>5, <2>2 DEF Reward
    <3> QED
      BY <1>04, <1>07, <2>1, <3>1 DEF PaidHolds, AccountStays
  <2>3. CASE InMemory(p)
    <3>1. n \in Nat
      <4>1. bounty.mob.sp \in Nat
        BY GrowthAssumption DEF GrowthTyped, Bounties
      <4> QED
        BY <2>1, <4>1, ShareIsPart
    <3>2. /\ live'[p].sp = live[p].sp + n /\ live'[p].known = live[p].known
          /\ tally'.earned[p] = tally.earned[p] + n
          /\ \A q \in Players \ {p} : live'[q] = live[q] /\ tally'.earned[q] = tally.earned[q]
      <4> DEFINE m == Share(bounty.mob.exp, p)
      <4>1. /\ live' = [live EXCEPT ![p].exp = @ + m, ![p].sp = @ + n]
            /\ tally' = [tally EXCEPT !.given = @ + m, !.earned[p] = @ + n]
        BY <1>5, <2>3 DEF Reward
      <4> HIDE DEF m, n
      <4>2. /\ live'[p] = [live[p] EXCEPT !.exp = @ + m, !.sp = @ + n]
            /\ \A q \in Players \ {p} : live'[q] = live[q]
        BY <1>0, <4>1
      <4>3. tally'.earned = [tally.earned EXCEPT ![p] = @ + n]
        BY <1>0, <4>1 DEF Tallies
      <4>4. live[p] \in Pages /\ tally.earned \in [Players -> Nat]
        BY <1>0 DEF Tallies
      <4> QED
        BY <4>2, <4>3, <4>4 DEF Pages
    <3>3. \A q \in Players : Knows(q)' = Knows(q)
      BY <1>04, <2>1, <3>2 DEF Knows
    <3>4. /\ \A q \in Players : CostOf(tally.taken[q])' = CostOf(tally.taken[q])
          /\ \A q \in Players : Owns(q, Knows(q))' <=> Owns(q, Knows(q))
      <4>1. tally'.taken = tally.taken
        BY <1>0, <1>5, <2>3 DEF Reward, Tallies
      <4> QED
        BY <3>3, <4>1 DEF CostOf, Owns
    <3>5. \A q \in Players \ (tally'.late \union {p}) : PaidOf(q)'
      BY <1>02, <2>1, <3>2, <3>4 DEF PaidOf, Purse
    <3>6. p \notin tally'.late => PaidOf(p)'
      <4>1. SUFFICES ASSUME p \notin tally'.late PROVE PaidOf(p)'
        OBVIOUS
      <4>2. Purse(p) = live[p].sp /\ Purse(p)' = live[p].sp + n /\ live[p].sp \in Nat
        BY <1>0, <2>1, <2>3, <3>2 DEF Purse, InMemory, Pages
      <4>3. tally.taken[p] \in SUBSET Trees
        BY <1>0 DEF Tallies
      <4>4. CostOf(tally.taken[p]) \in Nat
        BY <4>3, CostGrows
      <4>5. live[p].sp + CostOf(tally.taken[p]) = tally.earned[p] /\ Owns(p, Knows(p))
        BY <1>02, <4>1, <4>2 DEF PaidOf
      <4>6. (live[p].sp + n) + CostOf(tally.taken[p]) = tally.earned[p] + n
        BY <3>1, <4>2, <4>4, <4>5
      <4> QED
        BY <3>2, <3>4, <4>2, <4>5, <4>6 DEF PaidOf
    <3> QED
      BY <3>5, <3>6 DEF PaidHolds
  <2> QED
    BY <2>2, <2>3
<1>6. ASSUME NEW p \in Players, CompareLevel(p) PROVE PaidHolds'
  <2>1. UNCHANGED <<place, row, skills, learned, paying, tally>>
        /\ \A q \in Players : live'[q].sp = live[q].sp /\ live'[q].known = live[q].known
    BY <1>0, <1>6, SMTT(30) DEF CompareLevel, Pages
  <2>2. \A q \in Players : Purse(q)' = Purse(q) /\ Knows(q)' = Knows(q)
    BY <1>04, <2>1 DEF Purse, Knows
  <2> QED
    BY <1>05, <2>1, <2>2 DEF PaidHolds, AccountStays
<1>7. ASSUME NEW p \in Players, NEW t \in Trees, Learn(p, t) PROVE PaidHolds'
  <2>1. /\ place[p] \in {"game", "saved"} /\ paying = Nothing /\ live[p].sp >= t.cost
        /\ live[p].known[t.skill] < t.level
        /\ live' = [live EXCEPT ![p].sp = @ - t.cost, ![p].known[t.skill] = t.level]
        /\ paying'.who = p /\ UNCHANGED <<place, row, skills, learned>>
        /\ tally' = [tally EXCEPT !.taken[p] = @ \union {t}]
    BY <1>7 DEF Learn, LoopIsFree, Meets
  <2>2. /\ tally'.earned = tally.earned /\ tally'.taken[p] = tally.taken[p] \union {t}
        /\ \A q \in Players \ {p} : tally'.taken[q] = tally.taken[q]
    <3>1. tally.taken \in [Players -> SUBSET Trees]
      BY <1>0 DEF Tallies
    <3>2. tally'.earned = tally.earned /\ tally'.taken = [tally.taken EXCEPT ![p] = @ \union {t}]
      BY <1>0, <2>1 DEF Tallies
    <3> QED
      BY <3>1, <3>2
  <2>3. /\ t.skill \in SkillIds /\ t.level \in Nat \ {0} /\ t.cost \in Nat
        /\ live[p].sp \in Nat /\ live[p].known \in Levels /\ tally.taken[p] \in SUBSET Trees
    BY <1>0, EntriesAreTyped DEF Pages, Tallies
  <2>4. /\ live'[p].sp = live[p].sp - t.cost
        /\ \A s \in SkillIds : live'[p].known[s] = IF s = t.skill THEN t.level ELSE live[p].known[s]
        /\ \A q \in Players \ {p} : live'[q] = live[q]
    BY <1>0, <2>1, <2>3 DEF Pages, Levels
  <2>5. Purse(p)' = live'[p].sp /\ Knows(p)' = live'[p].known
    BY <2>1 DEF Purse, Knows
  <2>6. p \notin tally'.late => PaidOf(p)'
    <3> SUFFICES ASSUME p \notin tally'.late PROVE PaidOf(p)'
      OBVIOUS
    <3>1. live[p].sp + CostOf(tally.taken[p]) = tally.earned[p] /\ Owns(p, live[p].known)
      BY <1>02, <2>1 DEF PaidOf, Purse, Knows
    <3>2. t \notin tally.taken[p]
      BY <2>1, <2>3, <3>1 DEF Owns, Levels
    <3>3. /\ CostOf(tally.taken[p]) \in Nat
          /\ CostOf(tally.taken[p] \union {t}) = CostOf(tally.taken[p]) + t.cost
      BY <2>3, <3>2, CostGrows
    <3>4. (live[p].sp - t.cost) + CostOf(tally.taken[p] \union {t}) = tally.earned[p]
      BY <2>3, <3>1, <3>3
    <3>5. Owns(p, live[p].known)'
      <4>1. ASSUME NEW u \in tally'.taken[p]
            PROVE  u.level <= live'[p].known[u.skill]
        <5>1. CASE u = t
          BY <2>3, <2>4, <5>1
        <5>2. CASE u \in tally.taken[p]
          <6>1. /\ u.level <= live[p].known[u.skill] /\ u.skill \in SkillIds /\ u.level \in Nat
                /\ live[p].known[u.skill] \in Nat
            BY <2>3, <3>1, <5>2, EntriesAreTyped DEF Owns, Levels
          <6>2. CASE u.skill = t.skill
            <7>1. live'[p].known[u.skill] = t.level /\ live[p].known[u.skill] < t.level
              BY <2>1, <2>3, <2>4, <6>2
            <7> QED
              BY <2>3, <6>1, <7>1
          <6>3. CASE u.skill # t.skill
            BY <2>4, <6>1, <6>3
          <6> QED
            BY <6>2, <6>3
        <5> QED
          BY <2>2, <5>1, <5>2
      <4>2. ASSUME NEW s \in SkillIds, live'[p].known[s] # 0
            PROVE  \E u \in Trees : /\ u.skill = s /\ u.level = live'[p].known[s]
                                    /\ u.npc => u \in tally'.taken[p]
        <5>1. CASE s = t.skill
          BY <2>2, <2>4, <5>1
        <5>2. CASE s # t.skill
          <6>1. live'[p].known[s] = live[p].known[s]
            BY <2>4, <5>2
          <6>2. PICK u \in Trees : /\ u.skill = s /\ u.level = live[p].known[s]
                                   /\ u.npc => u \in tally.taken[p]
            BY <3>1, <4>2, <6>1 DEF Owns
          <6> QED
            BY <2>2, <6>1, <6>2
        <5> QED
          BY <5>1, <5>2
      <4> QED
        BY <4>1, <4>2 DEF Owns
    <3>6. CostOf(tally.taken[p])' = CostOf(tally.taken[p] \union {t})
      BY <2>2 DEF CostOf
    <3>7. Owns(p, Knows(p))'
      BY <2>5, <3>5 DEF Owns
    <3> QED
      BY <2>2, <2>4, <2>5, <3>4, <3>6, <3>7 DEF PaidOf
  <2>8. ASSUME NEW q \in Players \ {p}, q \notin tally'.late
        PROVE  PaidOf(q)'
    <3>2. Owed(Due, q)' <=> Owed(Due, q)
      <4>1. learned \in Queues /\ learned' = learned /\ Due = learned
            /\ paying' \in {Nothing} \union Learns
        BY <2>1 DEF Due, GrowthTyped, GrowthTypeOK, Learns, Queues
      <4>2. CASE paying' = Nothing
        BY <4>1, <4>2 DEF Due
      <4>3. CASE paying' # Nothing
        <5>1. Due' = Append(Due, paying') /\ paying' \in Learns
          BY <4>1, <4>3 DEF Due
        <5>2. /\ \A i \in DOMAIN Due : i \in DOMAIN Due' /\ Due'[i] = Due[i]
              /\ \A i \in DOMAIN Due' : i \in DOMAIN Due \/ Due'[i] = paying'
          BY <4>1, <5>1, AppendProperties DEF Queues
        <5>3. paying'.who # q
          BY <2>1, <2>8
        <5> QED
          BY <5>2, <5>3 DEF Owed
      <4> QED
        BY <4>2, <4>3
    <3>3. live'[q] = live[q] /\ UNCHANGED <<place, row, skills>>
      BY <2>1, <2>4, <2>8
    <3>4. Purse(q)' = Purse(q)
      BY <3>3 DEF Purse
    <3>5. Knows(q)' = Knows(q)
      BY <3>2, <3>3 DEF Knows
    <3>6. tally'.taken[q] = tally.taken[q] /\ tally'.earned[q] = tally.earned[q]
      BY <2>2, <2>8
    <3>7. CostOf(tally.taken[q])' = CostOf(tally.taken[q])
      BY <3>6 DEF CostOf
    <3>8. Owns(q, Knows(q))' <=> Owns(q, Knows(q))
      BY <3>5, <3>6 DEF Owns
    <3> QED
      BY <1>02, <2>8, <3>4, <3>6, <3>7, <3>8 DEF PaidOf
  <2> QED
    BY <2>6, <2>8 DEF PaidHolds
<1>8. CASE Dies \/ AutosaveAll \/ SendLearned
  <2>1. UNCHANGED <<live, place, row, skills>> /\ Due' = Due
    BY <1>0, <1>8, DeathsLeave DEF AutosaveAll, SendLearned, Due
  <2>2. AccountStays
    BY <1>0, <1>8, DeathsLeave DEF AutosaveAll, SendLearned, AccountStays
  <2> QED
    BY <1>07, <2>1, <2>2 DEF PaidHolds
<1>9. CASE SaverWrites
  <2>1. saves \in Seq(Rows) /\ saves # <<>>
    BY <1>9 DEF SaverWrites, GrowthTyped, GrowthTypeOK, Rows
  <2>2. PICK s \in Rows : s = Head(saves)
    BY <2>1, TailIsOf
  <2>3. /\ row' = [row EXCEPT ![s.who] = s.what] /\ UNCHANGED <<live, place, skills, learned, paying>>
        /\ tally' = IF place[s.who] \in {"saved", "lobby"} /\ s.what # row[s.who] THEN Late(s.who) ELSE tally
        /\ s.who \in Players
    BY <1>9, <2>2 DEF SaverWrites, Rows
  <2>4. AccountStays
    BY <1>0, <2>3 DEF Late, Tallies, AccountStays
  <2>5. ASSUME NEW q \in Players \ tally'.late
        PROVE  PaidOf(q)'
    <3>1. Knows(q)' = Knows(q)
      BY <1>04, <2>3 DEF Knows
    <3>2. place[q] = "lobby" => row'[q] = row[q]
      BY <1>0, <1>03, <2>3
    <3>3. Purse(q)' = Purse(q)
      BY <2>3, <3>2 DEF Purse
    <3> QED
      BY <1>05, <2>4, <3>1, <3>3
  <2> QED
    BY <2>5 DEF PaidHolds
<1>10. CASE LearnerWrites
  <2>1. /\ learned # <<>> /\ learned' = Tail(learned) /\ UNCHANGED <<live, place, row, paying, tally>>
        /\ skills' = [skills EXCEPT ![Head(learned).who][Head(learned).skill] = Head(learned).level]
    BY <1>10 DEF LearnerWrites
  <2>2. Due # <<>> /\ Due' = Tail(Due) /\ Head(Due) = Head(learned)
    BY <2>1, HeadIsDue
  <2>3. PICK e \in Learns : e = Head(Due)
    BY <1>0, <2>2, QueueShifts
  <2>4. skills' = [skills EXCEPT ![e.who][e.skill] = e.level]
    BY <2>1, <2>2, <2>3
  <2>5. \A p \in Players, s \in SkillIds :
          skills'[p][s] = IF MeantFor(e, p, s) THEN e.level ELSE skills[p][s]
    BY <1>0, <2>4 DEF MeantFor, Levels, Learns
  <2>6. ASSUME NEW p \in Players \ tally'.late
        PROVE  PaidOf(p)'
    <3>1. Knows(p)' = Knows(p)
      BY <1>0, <1>02, <2>1, <2>2, <2>3, <2>5, KnowsGoesOn
    <3>2. Purse(p)' = Purse(p)
      BY <2>1 DEF Purse
    <3> QED
      BY <1>05, <2>1, <3>1, <3>2 DEF AccountStays
  <2> QED
    BY <2>6 DEF PaidHolds
<1>11. CASE WriteFails /\ AccountStays
  <2>1. UNCHANGED <<live, place, row, skills, paying>>
    BY <1>11 DEF WriteFails
  <2>0. AccountStays
    BY <1>11
  <2>2. CASE UNCHANGED learned
    BY <1>04, <1>07, <2>0, <2>1, <2>2 DEF PaidHolds
  <2>3. CASE /\ learned # <<>> /\ learned' = Tail(learned)
             /\ tally' = [Late(Head(learned).who) EXCEPT !.faults = @ + 1]
    <3>1. Due # <<>> /\ Due' = Tail(Due) /\ Head(Due) = Head(learned)
      BY <2>1, <2>3, HeadIsDue
    <3>2. PICK e \in Learns : e = Head(Due)
      BY <1>0, <3>1, QueueShifts
    <3>3. e.who \in tally'.late
      <4>1. e.who \in Players /\ tally' = [Late(e.who) EXCEPT !.faults = @ + 1]
        BY <2>3, <3>1, <3>2 DEF Learns
      <4>2. e.who \in Late(e.who).late /\ Late(e.who) \in Tallies
        BY <1>0, <1>03, <4>1, TallyChanges DEF Late
      <4> QED
        BY <4>1, <4>2 DEF Tallies
    <3>4. ASSUME NEW p \in Players \ tally'.late
          PROVE  PaidOf(p)'
      <4>1. \A s \in SkillIds : ~MeantFor(e, p, s)
        BY <3>3 DEF MeantFor
      <4>2. Knows(p)' = Knows(p)
        BY <1>0, <1>02, <2>1, <3>1, <3>2, <4>1, KnowsGoesOn
      <4>3. Purse(p)' = Purse(p)
        BY <2>1 DEF Purse
      <4> QED
        BY <1>05, <2>0, <4>2, <4>3
    <3> QED
      BY <3>4 DEF PaidHolds
  <2> QED
    BY <1>11, <2>2, <2>3 DEF WriteFails
<1>12. CASE Crash
  <2>1. /\ Due' = <<>> /\ \A p \in Players : place'[p] = "lobby"
        /\ UNCHANGED <<live, row, skills>>
    BY <1>12 DEF Crash, Due
  <2>2. AccountStays
    BY <1>0, <1>12 DEF Crash, Tallies, AccountStays
  <2>3. ASSUME NEW p \in Players, \/ Pending(p)
                                  \/ InMemory(p) /\ row[p] # Stored(p)
        PROVE  p \in tally'.late
    BY <1>0, <1>12, <2>3 DEF Crash, Tallies
  <2>4. ASSUME NEW p \in Players \ tally'.late
        PROVE  PaidOf(p)'
    <3>1. ~Owed(Due, p) /\ (InMemory(p) => row[p] = Stored(p))
      BY <1>0, <2>3
    <3>2. ~Owed(Due', p)
      BY <2>1 DEF Owed
    <3>3. Purse(p)' = Purse(p)
      BY <2>1, <3>1 DEF Purse, Stored, InMemory
    <3>4. Knows(p)' = Knows(p)
      BY <1>08, <2>1, <3>1, <3>2 DEF Knows
    <3> QED
      BY <1>05, <2>2, <3>3, <3>4
  <2> QED
    BY <2>4 DEF PaidHolds
<1> QED
  BY <1>06, <1>1, <1>2, <1>3, <1>4, <1>5, <1>6, <1>7, <1>8, <1>9, <1>10, <1>11, <1>12 DEF GrowthNext, Dies

-----------------------------------------------------------------------------

GrowthSound == GrowthTyped /\ SharesHold /\ LevelsHold /\ RowsHold /\ PaidHolds

(* The invariant of the growth of characters. *)
LEMMA GrowthIsSound == GrowthSpec => []GrowthSound
<1>1. GrowthInit => GrowthSound
  BY InitIsTyped, InitShares, InitLevels, InitRows, InitPaid DEF GrowthSound
<1>2. GrowthSound /\ [GrowthNext]_gvars => GrowthSound'
  <2>1. SUFFICES ASSUME GrowthSound, [GrowthNext]_gvars PROVE GrowthSound'
    OBVIOUS
  <2>2. CASE GrowthNext
    <3>1. GrowthTyped /\ SharesHold /\ LevelsHold /\ RowsHold /\ PaidHolds
      BY <2>1 DEF GrowthSound
    <3>2. GrowthTyped'
      BY <2>2, <3>1, TypesKept
    <3>3. SharesHold' /\ LevelsHold' /\ RowsHold'
      BY <2>2, <3>1, <3>2, SharesKept, LevelsKept, RowsKept
    <3>4. PaidHolds'
      BY <2>2, <3>1, <3>2, <3>3, PaidKept
    <3> QED
      BY <3>2, <3>3, <3>4 DEF GrowthSound
  <2>3. CASE UNCHANGED gvars
    <3>1. GrowthTyped /\ SharesHold /\ LevelsHold /\ RowsHold /\ PaidHolds
      BY <2>1 DEF GrowthSound
    <3>2. UNCHANGED <<live, place, row, skills, saves, learned, bounty, fresh, paying, tally>>
      BY <2>3 DEF gvars
    <3>3. GrowthTyped'
      BY <3>1, <3>2 DEF GrowthTyped, GrowthTypeOK
    <3>4. SharesHold'
      BY <3>1, <3>2 DEF SharesHold, Total
    <3>5. LevelsHold'
      BY <3>1, <3>2 DEF LevelsHold, InMemory
    <3>6. Due' = Due
      BY <3>2 DEF Due
    <3>7. RowsHold'
      BY <3>1, <3>2, <3>6, RowsUndisturbed DEF RowsHold
    <3>8. PaidHolds'
      BY <3>1, <3>2, <3>6 DEF PaidHolds, PaidOf, Purse, Knows, CostOf, Owns
    <3> QED
      BY <3>3, <3>4, <3>5, <3>7, <3>8 DEF GrowthSound
  <2> QED
    BY <2>1, <2>2, <2>3
<1> QED
  BY <1>1, <1>2, PTL DEF GrowthSpec

(* What is pending for a player is at least what is due to it. *)
LEMMA PaidIsPaid ==
  ASSUME GrowthTyped, PaidHolds
  PROVE  PaidInFull
<1>1. \A p \in Players : Owed(Due, p) => Pending(p)
  BY DueIs
<1> QED
  BY <1>1 DEF PaidHolds, PaidOf, Purse, Knows, PaidInFull

(* What is exact fits. *)
LEMMA LevelsFit ==
  ASSUME LevelsHold
  PROVE  LevelFitsExp
BY DEF LevelsHold, LevelFitsExp, Exact

(* Progress stays sound for any players, monsters, EXP table, class tree and size
   of the queues, whatever entries clients ask for: levels have their EXP; SP held
   and the price of the entries taken are the SP earned, and the skills known are
   those taken or granted; and each death of a monster is paid for at most once,
   though a skill with several damages may kill it up to three times. *)
THEOREM ProgressStaysSound == GrowthSpec => []ProgressSound
<1>1. GrowthSound => ProgressSound
  <2>1. SUFFICES ASSUME GrowthSound PROVE ProgressSound
    OBVIOUS
  <2>2. GrowthTyped /\ SharesHold /\ LevelsHold /\ PaidHolds
    BY <2>1 DEF GrowthSound
  <2>3. GrowthTypeOK /\ RewardShared
    BY <2>2, SharesImplyShared DEF GrowthTyped
  <2> QED
    BY <2>2, <2>3, LevelsFit, PaidIsPaid DEF ProgressSound
<1> QED
  BY <1>1, GrowthIsSound, PTL

(* Whatever clients ask for, the learner and the entries into the world never write
   a row of character_skills back to a lower level, but for a player that came back
   before what it had learned was written. *)
THEOREM SkillRowsStayGrown == GrowthSpec => SkillRowsGrow
<1>1. GrowthSound /\ GrowthSound' /\ [GrowthNext]_gvars
      => [\A p \in Players \ tally.late, s \in SkillIds : skills'[p][s] >= skills[p][s]]_gvars
  BY RowsGrow DEF GrowthSound
<1> QED
  BY <1>1, GrowthIsSound, PTL DEF GrowthSpec, SkillRowsGrow
=============================================================================
