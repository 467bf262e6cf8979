---------------------------- MODULE WorldProofs ----------------------------
(* What TLAPS proves of World and TargetIndex, for every set of players,
   connections and NPCs, every place, region size and radius: the region lists
   answer range queries exactly, the active regions are counted, neighbours see
   each other; the two maps of the target index are inverses of each other, and
   the index implements the table of TargetTable. *)
EXTENDS World, TargetIndex, SequenceTheorems, FiniteSetTheorems, TLAPS

-----------------------------------------------------------------------------
(* Regions on the line. *)

LEMMA DivBounds ==
  ASSUME NEW a \in Nat, NEW c \in Nat \ {0}
  PROVE  /\ a \div c \in Nat
         /\ (a \div c) * c <= a /\ a < ((a \div c) + 1) * c
  OBVIOUS

LEMMA TimesMonotonic ==
  ASSUME NEW a \in Int, NEW b \in Int, NEW c \in Nat, a <= b
  PROVE  a * c <= b * c
  OBVIOUS

LEMMA DivMonotonic ==
  ASSUME NEW a \in Nat, NEW b \in Nat, NEW c \in Nat \ {0}, a <= b
  PROVE  a \div c <= b \div c
<1> DEFINE q == a \div c
           r == b \div c
<1>1. q \in Nat /\ r \in Nat /\ q * c <= a /\ b < (r + 1) * c
  BY DivBounds
<1> HIDE DEF q, r
<1>2. SUFFICES ASSUME r + 1 <= q PROVE FALSE
  BY <1>1 DEF q, r
<1>3. (r + 1) * c <= q * c
  BY <1>1, <1>2, TimesMonotonic
<1> QED BY <1>1, <1>3

LEMMA RegionIsInt == \A x \in Int : RegionOf(x) \in Int
<1> TAKE x \in Int
<1>1. CASE x >= 0
  BY <1>1, DivBounds, WorldAssumption DEF RegionOf
<1>2. CASE ~(x >= 0)
  <2>1. -x \in Nat
    BY <1>2
  <2>2. (-x) \div Cell \in Nat
    BY <2>1, DivBounds, WorldAssumption
  <2> QED BY <1>2, <2>2 DEF RegionOf
<1> QED BY <1>1, <1>2

(* Division towards zero keeps the order, across the wide region around zero. *)
LEMMA RegionMonotonic ==
  ASSUME NEW x \in Int, NEW y \in Int, x <= y
  PROVE  RegionOf(x) <= RegionOf(y)
<1>1. CASE x >= 0
  BY <1>1, DivMonotonic, WorldAssumption DEF RegionOf
<1>2. CASE ~(y >= 0)
  <2>1. -x \in Nat /\ -y \in Nat /\ -y <= -x
    BY <1>2
  <2> DEFINE u == -x
             v == -y
  <2>2. u \div Cell \in Nat /\ v \div Cell \in Nat /\ v \div Cell <= u \div Cell
    BY <2>1, DivBounds, DivMonotonic, WorldAssumption
  <2>3. RegionOf(x) = -(u \div Cell) /\ RegionOf(y) = -(v \div Cell)
    BY <1>2 DEF RegionOf
  <2> HIDE DEF u, v
  <2> QED BY <2>2, <2>3
<1>3. CASE ~(x >= 0) /\ y >= 0
  <2>1. -x \in Nat /\ y \in Nat
    BY <1>3
  <2> DEFINE u == -x
  <2>2. u \div Cell \in Nat /\ y \div Cell \in Nat
    BY <2>1, DivBounds, WorldAssumption
  <2>3. RegionOf(x) = -(u \div Cell) /\ RegionOf(y) = y \div Cell
    BY <1>3 DEF RegionOf
  <2> HIDE DEF u
  <2> QED BY <2>2, <2>3
<1> QED BY <1>1, <1>2, <1>3

LEMMA NearbyCovers ==
  ASSUME NEW x \in Int, NEW y \in Int, NEW radius \in Nat, Dist(y, x) <= radius
  PROVE  RegionOf(y) \in Nearby(x, radius)
<1>1. x - radius <= y /\ y <= x + radius /\ x - radius \in Int /\ x + radius \in Int
  BY DEF Dist
<1>2. RegionOf(x - radius) <= RegionOf(y) /\ RegionOf(y) <= RegionOf(x + radius)
  BY <1>1, RegionMonotonic
<1>3. RegionOf(x - radius) \in Int /\ RegionOf(y) \in Int /\ RegionOf(x + radius) \in Int
  BY <1>1, RegionIsInt
<1> DEFINE a == RegionOf(x - radius)
           b == RegionOf(y)
           d == RegionOf(x + radius)
<1>4. a \in Int /\ b \in Int /\ d \in Int /\ a <= b /\ b <= d
  BY <1>2, <1>3
<1> HIDE DEF a, b, d
<1>5. b \in a..d
  BY <1>4
<1> QED BY <1>5 DEF Nearby, a, b, d

LEMMA PlacesAreInts ==
  /\ Places \subseteq Int /\ Where \subseteq Places /\ \A n \in NpcIds : NpcAt[n] \in Places
  /\ \A x \in Places : RegionOf(x) \in Regions
  /\ Regions \subseteq Int /\ None \notin Regions
<1>1. Places \subseteq Int /\ Where \subseteq Places /\ \A n \in NpcIds : NpcAt[n] \in Places
  BY WorldAssumption DEF Places
<1>2. \A x \in Places : RegionOf(x) \in Regions
  BY DEF Regions
<1>3. Regions \subseteq Int
  BY <1>1, RegionIsInt DEF Regions
<1> QED BY <1>1, <1>2, <1>3, WorldAssumption

-----------------------------------------------------------------------------
(* The inductive invariant. *)

(* A report or a request that a connection works on, and the position a
   notice carries, is a position. *)
ConnState == {s \in [pc : Steps, at : Where \union {None}, live : BOOLEAN] :
                s.pc \in {"sync", "move"} => s.at \in Where}
Notice    == {m \in Command : m.kind \in {"entered", "moved"} => m.at \in Where}

ConnsTyped ==
  /\ conn \in [Conns -> ConnState]
  /\ queue \in Seq(Notice) /\ Len(queue) <= MaxQueue

Grid == [Regions -> [Chars \union NpcIds -> Nat]]
WorldTyped ==
  /\ inWorld \subseteq Chars /\ fresh \subseteq inWorld /\ tele \subseteq inWorld
  /\ pos \in [Chars -> Where]
  /\ regions \in Grid
  /\ npcs \subseteq NpcIds
  /\ known \in [Chars -> SUBSET Chars]

ShownTyped ==
  /\ driven \subseteq Chars /\ seen \in [Chars -> SUBSET NpcIds]
  /\ moving \in [Chars -> Where \union {None}]

(* Whoever is in the world is on the list of the region of its position. *)
ListsHold ==
  /\ \A p \in inWorld : regions[RegionOf(pos[p])][p] > 0
  /\ \A n \in npcs : regions[RegionOf(NpcAt[n])][n] > 0

ActiveTyped == center \in [Chars -> Regions \union {None}] /\ active \in [Cells -> Nat]

WorldInv ==
  /\ ConnsTyped /\ WorldTyped /\ ShownTyped /\ ActiveTyped
  /\ ListsHold /\ BlocksCounted /\ FreshNeighboursSee

LEMMA WorldInvIsTyped == WorldInv /\ disturbed \subseteq Chars => WorldTypeOK
<1> SUFFICES ASSUME WorldInv, disturbed \subseteq Chars PROVE WorldTypeOK
  OBVIOUS
<1>1. conn \in [Conns -> [pc : Steps, at : Where \union {None}, live : BOOLEAN]]
  BY DEF WorldInv, ConnsTyped, ConnState
<1>2. queue \in Seq(Command)
  BY SeqMonotonic DEF WorldInv, ConnsTyped, Notice
<1>3. /\ Len(queue) <= MaxQueue /\ inWorld \subseteq Chars /\ fresh \subseteq inWorld /\ tele \subseteq inWorld
      /\ pos \in [Chars -> Where] /\ npcs \subseteq NpcIds
      /\ regions \in [Regions -> [Chars \union NpcIds -> Nat]]
      /\ known \in [Chars -> SUBSET Chars]
  BY DEF WorldInv, ConnsTyped, WorldTyped, Grid
<1>4. /\ driven \subseteq Chars /\ seen \in [Chars -> SUBSET NpcIds]
      /\ moving \in [Chars -> Where \union {None}]
      /\ center \in [Chars -> Regions \union {None}] /\ active \in [Cells -> Nat]
  BY DEF WorldInv, ShownTyped, ActiveTyped
<1> QED BY <1>1, <1>2, <1>3, <1>4 DEF WorldTypeOK

(* The queries see what is in range: by ListsHold nobody is missed, and the
   comparison of positions takes nobody else. *)
LEMMA Queries ==
  ASSUME WorldTyped, ListsHold, NEW x \in Int, NEW radius \in Nat
  PROVE  /\ PlayersInRange(pos, x, radius) = {p \in inWorld : Dist(pos[p], x) <= radius}
         /\ NPCsInRange(x, radius) = {n \in npcs : Dist(NpcAt[n], x) <= radius}
<1>1. \A p \in inWorld : p \in Chars /\ pos[p] \in Int /\ RegionOf(pos[p]) \in Regions
  BY PlacesAreInts DEF WorldTyped
<1>2. \A n \in npcs : n \in NpcIds /\ NpcAt[n] \in Int /\ RegionOf(NpcAt[n]) \in Regions
  BY PlacesAreInts DEF WorldTyped
<1>3. \A p \in inWorld : Dist(pos[p], x) <= radius => p \in Listed(x, radius)
  BY <1>1, NearbyCovers DEF Listed, ListsHold
<1>4. \A n \in npcs : Dist(NpcAt[n], x) <= radius => n \in Listed(x, radius)
  BY <1>2, NearbyCovers DEF Listed, ListsHold
<1> QED BY <1>3, <1>4 DEF PlayersInRange, NPCsInRange

-----------------------------------------------------------------------------
(* The helpers. *)

LEMMA AddingToRegion ==
  ASSUME NEW g \in Grid, NEW r \in Regions, NEW i \in Chars \union NpcIds
  PROVE  /\ AddToRegion(g, r, i) \in Grid
         /\ AddToRegion(g, r, i)[r][i] > 0
         /\ \A s \in Regions, j \in Chars \union NpcIds :
              AddToRegion(g, r, i)[s][j] = g[s][j] \/ (j = i /\ AddToRegion(g, r, i)[s][j] > 0)
<1> DEFINE row == [g[r] EXCEPT ![i] = g[r][i] + 1]
<1>1. g[r] \in [Chars \union NpcIds -> Nat] /\ g[r][i] \in Nat
  BY DEF Grid
<1>2. /\ row \in [Chars \union NpcIds -> Nat] /\ row[i] > 0
      /\ \A j \in Chars \union NpcIds : j # i => row[j] = g[r][j]
  BY <1>1
<1>3. AddToRegion(g, r, i) = [g EXCEPT ![r] = row]
  BY DEF AddToRegion
<1> HIDE DEF row
<1> QED BY <1>2, <1>3 DEF Grid

LEMMA RemovingFromRegion ==
  ASSUME NEW g \in Grid, NEW r \in Regions, NEW i \in Chars \union NpcIds
  PROVE  /\ RemoveFromRegion(g, r, i) \in Grid
         /\ \A s \in Regions, j \in Chars \union NpcIds :
              j # i => RemoveFromRegion(g, r, i)[s][j] = g[s][j]
<1> DEFINE m == IF g[r][i] > 0 THEN g[r][i] - 1 ELSE 0
           row == [g[r] EXCEPT ![i] = m]
<1>0. g[r] \in [Chars \union NpcIds -> Nat] /\ g[r][i] \in Nat
  BY DEF Grid
<1>1. g[r] \in [Chars \union NpcIds -> Nat] /\ m \in Nat
  BY <1>0
<1>2. RemoveFromRegion(g, r, i) = [g EXCEPT ![r] = row]
  BY DEF RemoveFromRegion
<1> HIDE DEF m
<1>3. /\ row \in [Chars \union NpcIds -> Nat]
      /\ \A j \in Chars \union NpcIds : j # i => row[j] = g[r][j]
  BY <1>1
<1> HIDE DEF row
<1> QED BY <1>2, <1>3 DEF Grid

LEMMA PutKeepsLists ==
  ASSUME WorldTyped, ListsHold, NEW p \in Chars, NEW x \in Where, Put(p, x)
  PROVE  /\ pos' \in [Chars -> Where] /\ regions' \in Grid
         /\ \A q \in inWorld : regions'[RegionOf(pos'[q])][q] > 0
         /\ \A n \in npcs : regions'[RegionOf(NpcAt[n])][n] > 0
<1>1. CASE p \notin inWorld
  BY <1>1 DEF Put, WorldTyped, ListsHold
<1>2. CASE p \in inWorld
  <2> DEFINE old == RegionOf(pos[p])
             new == RegionOf(x)
             less == RemoveFromRegion(regions, old, p)
  <2>1. /\ pos' = [pos EXCEPT ![p] = x] /\ pos' \in [Chars -> Where] /\ pos'[p] = x
        /\ \A q \in Chars \ {p} : pos'[q] = pos[q]
        /\ regions' = IF old = new THEN regions ELSE AddToRegion(less, new, p)
    BY <1>2 DEF Put, WorldTyped
  <2>2. old \in Regions /\ new \in Regions /\ \A q \in inWorld : RegionOf(pos[q]) \in Regions /\ q \in Chars
    BY PlacesAreInts DEF WorldTyped
  <2>3. \A n \in npcs : n \in NpcIds /\ RegionOf(NpcAt[n]) \in Regions /\ n # p
    BY PlacesAreInts, WorldAssumption DEF WorldTyped
  <2>4. CASE old = new
    BY <2>1, <2>4 DEF WorldTyped, ListsHold
  <2>5. CASE old # new
    <3>1. /\ less \in Grid
          /\ \A s \in Regions, j \in Chars \union NpcIds : j # p => less[s][j] = regions[s][j]
      BY <2>2, RemovingFromRegion DEF WorldTyped
    <3> HIDE DEF less, old, new
    <3>0. regions' = AddToRegion(less, new, p)
      BY <2>1, <2>5
    <3>2. /\ regions' \in Grid
          /\ regions'[new][p] > 0
          /\ \A s \in Regions, j \in Chars \union NpcIds : j # p => regions'[s][j] = regions[s][j]
      BY <2>2, <3>0, <3>1, AddingToRegion
    <3>3. \A q \in inWorld : regions'[RegionOf(pos'[q])][q] > 0
      <4> TAKE q \in inWorld
      <4>1. CASE q = p
        BY <2>1, <3>2, <4>1 DEF new
      <4>2. CASE q # p
        BY <2>1, <2>2, <3>2, <4>2 DEF ListsHold
      <4> QED BY <4>1, <4>2
    <3>4. \A n \in npcs : regions'[RegionOf(NpcAt[n])][n] > 0
      BY <2>3, <3>2 DEF ListsHold
    <3> QED BY <2>1, <3>2, <3>3, <3>4
  <2> QED BY <2>4, <2>5
<1> QED BY <1>1, <1>2

(* A player that moves is no longer fresh, so those who are still see each other. *)
LEMMA MovesKeep ==
  ASSUME WorldInv, NEW p \in Chars, NEW x \in Where, Moves(p, x),
         UNCHANGED <<inWorld, npcs, known, tele>>
  PROVE  WorldTyped' /\ ListsHold' /\ FreshNeighboursSee'
<1>1. WorldTyped /\ ListsHold /\ FreshNeighboursSee
  BY DEF WorldInv
<1>2. /\ pos' \in [Chars -> Where] /\ regions' \in Grid
      /\ \A q \in inWorld : regions'[RegionOf(pos'[q])][q] > 0
      /\ \A n \in npcs : regions'[RegionOf(NpcAt[n])][n] > 0
  BY <1>1, PutKeepsLists DEF Moves
<1>3. fresh' \subseteq fresh /\ \A q \in fresh' : pos'[q] = pos[q]
  <2>1. CASE x = pos[p]
    BY <1>1, <2>1 DEF Moves, Put, WorldTyped
  <2>2. CASE x # pos[p]
    BY <1>1, <2>2 DEF Moves, Put, WorldTyped
  <2> QED BY <2>1, <2>2
<1>4. FreshNeighboursSee'
  BY <1>1, <1>3 DEF FreshNeighboursSee
<1> QED BY <1>1, <1>2, <1>3, <1>4 DEF WorldTyped, ListsHold

LEMMA RemoveKeeps ==
  ASSUME WorldInv, NEW p \in Chars, Remove(p), UNCHANGED <<pos, npcs, driven>>
  PROVE  WorldTyped' /\ ShownTyped' /\ ListsHold' /\ FreshNeighboursSee'
<1>1. WorldTyped /\ ShownTyped /\ ListsHold /\ FreshNeighboursSee
  BY DEF WorldInv
<1>2. RegionOf(pos[p]) \in Regions
  BY <1>1, PlacesAreInts DEF WorldTyped
<1>3. /\ regions' \in Grid
      /\ \A s \in Regions, j \in Chars \union NpcIds : j # p => regions'[s][j] = regions[s][j]
  <2>1. regions \in Grid /\ p \in Chars \union NpcIds
    BY <1>1 DEF WorldTyped
  <2>2. regions' = regions \/ regions' = RemoveFromRegion(regions, RegionOf(pos[p]), p)
    BY DEF Remove
  <2> QED BY <1>2, <2>1, <2>2, RemovingFromRegion
<1>4. WorldTyped'
  BY <1>1, <1>3 DEF Remove, WorldTyped
<1>5. ShownTyped'
  BY <1>1 DEF Remove, ShownTyped
<1>6. ListsHold'
  <2>1. \A q \in inWorld' : q \in inWorld /\ q # p /\ q \in Chars /\ RegionOf(pos[q]) \in Regions
    BY <1>1, PlacesAreInts DEF Remove, WorldTyped
  <2>2. \A n \in npcs : n # p /\ n \in NpcIds /\ RegionOf(NpcAt[n]) \in Regions
    BY <1>1, PlacesAreInts, WorldAssumption DEF WorldTyped
  <2> QED BY <1>1, <1>3, <2>1, <2>2 DEF ListsHold
<1>7. FreshNeighboursSee'
  <2>1. \A q \in fresh' : q \in fresh /\ known'[q] = known[q]
    BY <1>1 DEF Remove, WorldTyped
  <2> QED BY <1>1, <2>1 DEF FreshNeighboursSee
<1> QED BY <1>4, <1>5, <1>6, <1>7

(* The loop compares a player with its surroundings: what it finds in sight it
   shows both ways, and of the others only p is added or removed. *)
LEMMA ReconcileKeeps ==
  ASSUME WorldInv, NEW p \in inWorld, NEW x \in Where, Put(p, x) \/ (x = pos[p] /\ UNCHANGED <<pos, regions>>),
         Reconcile(p, [pos EXCEPT ![p] = x]),
         UNCHANGED <<inWorld, npcs, tele>>
  PROVE  WorldTyped' /\ ListsHold' /\ FreshNeighboursSee'
<1>1. WorldTyped /\ ListsHold /\ FreshNeighboursSee
  BY DEF WorldInv
<1> DEFINE at == [pos EXCEPT ![p] = x]
           keep == PlayersInRange(at, at[p], Forget) \ {p}
           near == PlayersInRange(at, at[p], Watch) \ {p}
<1>2. p \in Chars /\ x \in Int /\ at[p] = x /\ (\A q \in Chars \ {p} : at[q] = pos[q]) /\ pos' = at
  BY <1>1, WorldAssumption DEF WorldTyped, Put
<1>3. pos' \in [Chars -> Where] /\ regions' \in Grid /\ ListsHold'
  <2>1. CASE Put(p, x)
    BY <1>1, <1>2, <2>1, PutKeepsLists DEF ListsHold
  <2>2. CASE UNCHANGED <<pos, regions>>
    BY <1>1, <2>2 DEF WorldTyped, ListsHold
  <2> QED BY <2>1, <2>2
<1>4. near \subseteq inWorld \ {p} /\ near \subseteq keep
      /\ \A q \in inWorld \ {p} : Dist(pos[q], x) <= Watch => q \in near
  <2>1. \A radius \in Nat : PlayersInRange(pos, x, radius) = {q \in inWorld : Dist(pos[q], x) <= radius}
    BY <1>1, <1>2, Queries
  <2>2. \A radius \in Nat : PlayersInRange(at, x, radius) \ {p} = PlayersInRange(pos, x, radius) \ {p}
    BY <1>1, <1>2 DEF PlayersInRange, WorldTyped
  <2>3. near = {q \in inWorld : Dist(pos[q], x) <= Watch} \ {p}
        /\ keep = {q \in inWorld : Dist(pos[q], x) <= Forget} \ {p}
    BY <1>2, <2>1, <2>2, WorldAssumption
  <2>4. \A q \in inWorld : Dist(pos[q], x) \in Int
    <3> TAKE q \in inWorld
    <3>1. pos[q] \in Int
      BY <1>1, WorldAssumption DEF WorldTyped
    <3> QED BY <1>2, <3>1 DEF Dist
  <2>5. \A q \in inWorld : Dist(pos[q], x) <= Watch => Dist(pos[q], x) <= Forget
    BY <2>4, WorldAssumption
  <2> HIDE DEF keep, near
  <2> QED BY <2>3, <2>5
<1>5. known' = Reconciled(p, at) /\ fresh' = fresh \union {p}
  BY DEF Reconcile
<1> HIDE DEF at
<1>6. known'[p] = (known[p] \union near) \intersect keep
      /\ \A q \in Chars \ {p} : /\ q \in near => known'[q] = known[q] \union {p}
                                /\ q \notin near => known'[q] = known[q] \/ known'[q] = known[q] \ {p}
  <2>1. \A q \in Chars : known'[q] =
          IF q = p THEN (known[p] \union near) \intersect keep
          ELSE IF q \in near THEN known[q] \union {p}
          ELSE IF q \in ((known[p] \union near) \ keep) /\ q \in inWorld THEN known[q] \ {p} ELSE known[q]
    BY <1>5 DEF Reconciled
  <2> HIDE DEF keep, near
  <2>2. p \notin near
    BY <1>4
  <2> QED BY <1>2, <2>1
<1> HIDE DEF keep, near
<1>7. WorldTyped'
  <2>1. known' \in [Chars -> SUBSET Chars]
    <3>1. \A q \in Chars : known'[q] \in SUBSET Chars
      BY <1>1, <1>2, <1>4, <1>6 DEF WorldTyped
    <3>2. known' = [q \in Chars |-> known'[q]]
      BY <1>5 DEF Reconciled
    <3> QED BY <3>1, <3>2
  <2> QED BY <1>1, <1>3, <1>5, <2>1 DEF WorldTyped
<1>8. FreshNeighboursSee'
  <2> SUFFICES ASSUME NEW q \in fresh', NEW r \in fresh', q # r, Dist(pos'[q], pos'[r]) <= Watch
               PROVE  r \in known'[q]
    <3>1. \A q, r \in fresh' : Dist(pos'[q], pos'[r]) = Dist(pos'[r], pos'[q])
      <4> TAKE q, r \in fresh'
      <4>1. pos'[q] \in Int /\ pos'[r] \in Int
        BY <1>3, <1>7, WorldAssumption DEF WorldTyped
      <4> QED BY <4>1 DEF Dist
    <3> QED BY <3>1 DEF FreshNeighboursSee
  <2>1. q \in inWorld /\ r \in inWorld /\ q \in Chars /\ r \in Chars
    BY <1>1, <1>2, <1>5 DEF WorldTyped
  <2>2. CASE q = p
    <3>0. pos[r] \in Int /\ pos'[r] = pos[r] /\ pos'[q] = x
      BY <1>1, <1>2, <2>1, <2>2, WorldAssumption DEF WorldTyped
    <3>1. Dist(pos[r], x) <= Watch
      BY <1>2, <2>1, <2>2, <3>0, WorldAssumption DEF Dist
    <3> QED BY <1>4, <1>6, <2>1, <2>2, <3>1
  <2>3. CASE r = p
    <3>1. Dist(pos[q], x) <= Watch
      BY <1>2, <2>1, <2>3
    <3> QED BY <1>4, <1>6, <2>1, <2>3, <3>1
  <2>4. CASE q # p /\ r # p
    <3>1. q \in fresh /\ r \in fresh /\ pos'[q] = pos[q] /\ pos'[r] = pos[r]
      BY <1>2, <1>5, <2>1, <2>4
    <3>2. r \in known[q]
      BY <1>1, <3>1 DEF FreshNeighboursSee
    <3> QED BY <1>6, <2>1, <2>4, <3>2
  <2> QED BY <2>2, <2>3, <2>4
<1> QED BY <1>3, <1>7, <1>8
-----------------------------------------------------------------------------
(* The active regions. *)

Covered(c, r) == {p \in Chars : c[p] # None /\ r \in Block(c[p])}

(* A player that goes from one block to another, or to none, changes the count of
   a region by what it changes in the set of those who cover it. *)
LEMMA TrackKeeps ==
  ASSUME ActiveTyped, BlocksCounted, NEW p \in Chars, NEW t \in Regions \union {None}, Track(p, t)
  PROVE  ActiveTyped' /\ BlocksCounted'
<1>1. /\ center' \in [Chars -> Regions \union {None}] /\ center'[p] = t
      /\ \A q \in Chars \ {p} : center'[q] = center[q]
  BY DEF ActiveTyped, Track
<1>2. \A r \in Cells : active[r] = Cardinality(Covered(center, r))
  BY DEF BlocksCounted, Covered
<1>3. CASE center[p] = t
  <2>1. center' = center /\ active' = active
    BY <1>3 DEF ActiveTyped, Track
  <2> QED BY <2>1 DEF ActiveTyped, BlocksCounted
<1>4. CASE center[p] # t
  <2> DEFINE from == center[p]
             less(r) == IF from # None /\ r \in Block(from) /\ active[r] > 0 THEN active[r] - 1 ELSE active[r]
  <2>1. active' = [r \in Cells |-> IF t # None /\ r \in Block(t) THEN less(r) + 1 ELSE less(r)]
    BY <1>4 DEF Track, Shift
  <2>2. \A r \in Cells : active'[r] = Cardinality(Covered(center', r)) /\ active'[r] \in Nat
    <3> TAKE r \in Cells
    <3> DEFINE S == Covered(center, r)
               T == S \ {p}
    <3>1. IsFiniteSet(S) /\ IsFiniteSet(T)
      <4>1. S \subseteq Chars /\ T \subseteq Chars
        BY DEF Covered
      <4> QED BY <4>1, FS_Subset, WorldAssumption
    <3>2. p \in S <=> from # None /\ r \in Block(from)
      BY DEF Covered
    <3>3. Cardinality(T) \in Nat /\ Cardinality(T) = (IF p \in S THEN Cardinality(S) - 1 ELSE Cardinality(S))
          /\ Cardinality(S) \in Nat
      BY <3>1, FS_RemoveElement, FS_CardinalityType
    <3>4. active[r] = Cardinality(S)
      BY <1>2
    <3> HIDE DEF from
    <3>5. less(r) = Cardinality(T)
      <4>1. CASE p \in S
        <5>1. active[r] > 0
          BY <3>3, <3>4, <4>1
        <5> QED BY <3>2, <3>3, <3>4, <4>1, <5>1
      <4>2. CASE p \notin S
        BY <3>2, <3>3, <3>4, <4>2
      <4> QED BY <4>1, <4>2
    <3> HIDE DEF less
    <3>6. CASE t # None /\ r \in Block(t)
      <4>1. Covered(center', r) = T \union {p}
        BY <1>1, <3>6 DEF Covered
      <4>2. Cardinality(T \union {p}) = Cardinality(T) + 1
        BY <3>1, FS_AddElement
      <4>3. active'[r] = less(r) + 1
        BY <2>1, <3>6
      <4> HIDE DEF T
      <4> QED BY <3>3, <3>5, <4>1, <4>2, <4>3
    <3>7. CASE ~(t # None /\ r \in Block(t))
      <4>1. Covered(center', r) = T
        BY <1>1, <3>7 DEF Covered
      <4>2. active'[r] = less(r)
        BY <2>1, <3>7
      <4> HIDE DEF T
      <4> QED BY <3>3, <3>5, <4>1, <4>2
    <3> QED BY <3>6, <3>7
  <2> HIDE DEF less
  <2>3. active' \in [Cells -> Nat]
    BY <2>1, <2>2
  <2> QED BY <1>1, <2>2, <2>3 DEF ActiveTyped, BlocksCounted, Covered
<1> QED BY <1>3, <1>4

LEMMA WorldStarts == WorldInit => WorldInv
<1> SUFFICES ASSUME WorldInit PROVE WorldInv
  OBVIOUS
<1>1. ConnsTyped
  <2>1. MaxQueue >= 0 /\ <<>> \in Seq(Notice) /\ Len(<<>>) = 0
    BY WorldAssumption
  <2>2. conn \in [Conns -> ConnState]
    BY DEF WorldInit, ConnState, Steps
  <2> QED BY <2>1, <2>2 DEF WorldInit, ConnsTyped
<1>2. WorldTyped
  BY DEF WorldInit, WorldTyped, Grid
<1>3. ShownTyped
  BY DEF WorldInit, ShownTyped
<1>4. ActiveTyped
  BY DEF WorldInit, ActiveTyped
<1>5. ListsHold
  <2>1. \A n \in npcs : n \in NpcIds /\ RegionOf(NpcAt[n]) \in Regions
    BY PlacesAreInts DEF WorldInit
  <2> QED BY <2>1 DEF WorldInit, ListsHold
<1>6. BlocksCounted
  <2> SUFFICES ASSUME NEW r \in Cells
               PROVE  active[r] = Cardinality({p \in Chars : center[p] # None /\ r \in Block(center[p])})
    BY DEF BlocksCounted
  <2>1. {p \in Chars : center[p] # None /\ r \in Block(center[p])} = {}
    BY DEF WorldInit
  <2>2. active[r] = 0
    BY DEF WorldInit
  <2> QED BY <2>1, <2>2, FS_EmptySet
<1>7. FreshNeighboursSee
  BY DEF WorldInit, FreshNeighboursSee
<1> QED BY <1>1, <1>2, <1>3, <1>4, <1>5, <1>6, <1>7 DEF WorldInv
-----------------------------------------------------------------------------
(* Connections and the queue. *)

LEMMA SendKeeps ==
  ASSUME ConnsTyped, NEW k \in {"entered", "moved", "moveTo", "left"}, NEW p \in Chars,
         NEW x \in Where \union {None}, k \in {"entered", "moved"} => x \in Where, Send(k, p, x)
  PROVE  queue' \in Seq(Notice) /\ Len(queue') <= MaxQueue
<1> DEFINE m == [kind |-> k, who |-> p, at |-> x]
<1>1. m \in Notice
  BY DEF Notice, Command
<1>2. queue \in Seq(Notice) /\ Len(queue) < MaxQueue /\ queue' = Append(queue, m) /\ Len(queue) \in Nat
  BY DEF ConnsTyped, Send
<1> HIDE DEF m
<1>3. Append(queue, m) \in Seq(Notice) /\ Len(Append(queue, m)) = Len(queue) + 1
  BY <1>1, <1>2, AppendProperties
<1> QED BY <1>2, <1>3, WorldAssumption

LEMMA TakesKeep ==
  ASSUME ConnsTyped, NEW k \in {"entered", "moved", "moveTo", "left"}, Takes(k)
  PROVE  /\ queue' \in Seq(Notice) /\ Len(queue') <= MaxQueue
         /\ Head(queue) \in Notice /\ Head(queue).kind = k /\ Head(queue).who \in Chars
         /\ k \in {"entered", "moved"} => Head(queue).at \in Where
<1>1. queue \in Seq(Notice) /\ queue # <<>> /\ queue' = Tail(queue) /\ Len(queue) \in Nat /\ Len(queue) <= MaxQueue
  BY DEF ConnsTyped, Takes
<1>2. Head(queue) \in Notice /\ Tail(queue) \in Seq(Notice) /\ Len(Tail(queue)) = Len(queue) - 1
  BY <1>1, HeadTailProperties
<1>3. Len(queue') <= MaxQueue
  BY <1>1, <1>2, WorldAssumption
<1> QED BY <1>1, <1>2, <1>3 DEF Takes, Notice, Command

(* Only the step a goroutine is at changes, or its argument with it. *)
LEMMA GoKeeps ==
  ASSUME conn \in [Conns -> ConnState], NEW c \in Conns, NEW step \in Steps \ {"sync", "move"}, Go(c, step)
  PROVE  conn' \in [Conns -> ConnState]
<1>1. conn[c] \in ConnState /\ conn' = [conn EXCEPT ![c] = [conn[c] EXCEPT !.pc = step]]
  BY DEF Go
<1>2. [conn[c] EXCEPT !.pc = step] \in ConnState
  BY <1>1 DEF ConnState
<1> HIDE DEF ConnState
<1> QED BY <1>1, <1>2

LEMMA GoWithKeeps ==
  ASSUME conn \in [Conns -> ConnState], NEW c \in Conns, NEW step \in Steps, NEW x \in Where, GoWith(c, step, x)
  PROVE  conn' \in [Conns -> ConnState]
<1> DEFINE s == [conn[c] EXCEPT !.pc = step, !.at = x]
<1>1. conn[c] \in ConnState /\ conn' = [conn EXCEPT ![c] = s]
  BY DEF GoWith
<1>2. s \in ConnState
  BY <1>1 DEF ConnState
<1> HIDE DEF ConnState, s
<1> QED BY <1>1, <1>2

LEMMA ConnSteps ==
  ASSUME conn \in [Conns -> ConnState], NEW c \in Conns
  PROVE  /\ conn[c].pc \in Steps /\ conn[c].live \in BOOLEAN /\ conn[c].at \in Where \union {None}
         /\ conn[c].pc \in {"sync", "move"} => conn[c].at \in Where
         /\ Resume(c) \in Steps \ {"sync", "move"}
BY DEF ConnState, Steps, Resume

(* The steps of a connection that leave the world alone. *)
LEMMA ConnsOnly ==
  ASSUME WorldInv, ConnsTyped', UNCHANGED <<registry, seen, motion, loop, fresh>>
  PROVE  WorldInv'
BY DEF WorldInv, registry, motion, loop, WorldTyped, ShownTyped, ActiveTyped, ListsHold,
       BlocksCounted, FreshNeighboursSee

LEMMA SessionSteps ==
  ASSUME WorldInv, NEW c \in Conns,
         \/ Login(c) \/ KickExistingSession(c) \/ EnterWorld(c) \/ TellMove(c)
         \/ Logout(c) \/ Restart(c) \/ RestartRefused(c)
  PROVE  WorldInv'
<1>1. conn \in [Conns -> ConnState] /\ queue \in Seq(Notice) /\ Len(queue) <= MaxQueue /\ ConnsTyped
  BY DEF WorldInv, ConnsTyped
<1>2. Owner[c] \in Chars
  BY WorldAssumption
<1>3. CASE Login(c)
  <2>1. conn' = [conn EXCEPT ![c] = [conn[c] EXCEPT !.pc = "authed", !.live = TRUE]]
    BY <1>3 DEF Login
  <2>2. [conn[c] EXCEPT !.pc = "authed", !.live = TRUE] \in ConnState
    BY <1>1 DEF ConnState, Steps
  <2>3. conn' \in [Conns -> ConnState]
    BY <1>1, <2>1, <2>2
  <2> QED BY <1>1, <1>3, <2>3, ConnsOnly DEF Login, ConnsTyped
<1>4. CASE KickExistingSession(c)
  <2> DEFINE rest(d) == [conn[d] EXCEPT !.live = @ /\ d \notin Rivals(c),
                              !.pc = IF d \in Rivals(c) /\ @ \in {"authed", "ingame"} THEN "kicked" ELSE @]
             detached == [d \in Conns |-> rest(d)]
             mine(step) == [detached[c] EXCEPT !.pc = step, !.live = TRUE]
  <2>1. detached \in [Conns -> ConnState]
    <3>1. ASSUME NEW d \in Conns PROVE rest(d) \in ConnState
      BY <1>1 DEF ConnState, Steps
    <3> HIDE DEF rest
    <3> QED BY <3>1
  <2>2. \A step \in {"kick", "authed"} : mine(step) \in ConnState
    <3>1. detached[c] \in ConnState
      BY <2>1
    <3> HIDE DEF detached
    <3> QED BY <3>1 DEF ConnState, Steps
  <2>3. \E step \in {"kick", "authed"} : conn' = [detached EXCEPT ![c] = mine(step)]
    <3>1. conn' = [detached EXCEPT ![c].pc = IF Owner[c] \in inWorld THEN "kick" ELSE "authed", ![c].live = TRUE]
      BY <1>4 DEF KickExistingSession
    <3> HIDE DEF detached
    <3>2. conn' = [detached EXCEPT ![c] = mine(IF Owner[c] \in inWorld THEN "kick" ELSE "authed")]
      BY <3>1
    <3> HIDE DEF mine
    <3> QED BY <3>2
  <2> HIDE DEF detached, mine, rest
  <2>4. conn' \in [Conns -> ConnState]
    BY <2>1, <2>2, <2>3
  <2>5. queue' \in Seq(Notice) /\ Len(queue') <= MaxQueue
    <3>1. CASE Owner[c] \in inWorld
      <4>1. Send("left", Owner[c], None)
        BY <1>4, <3>1 DEF KickExistingSession
      <4> QED BY <1>1, <1>2, <4>1, SendKeeps
    <3>2. CASE Owner[c] \notin inWorld
      BY <1>1, <1>4, <3>2 DEF KickExistingSession
    <3> QED BY <3>1, <3>2
  <2>6. UNCHANGED <<registry, seen, motion, loop, fresh>>
    BY <1>4 DEF KickExistingSession
  <2> QED BY <2>4, <2>5, <2>6, ConnsOnly DEF ConnsTyped
<1>5. CASE EnterWorld(c)
  <2>1. conn' \in [Conns -> ConnState]
    BY <1>1, <1>5, GoKeeps DEF EnterWorld, Steps
  <2> QED BY <1>1, <1>5, <2>1, ConnsOnly DEF EnterWorld, ConnsTyped
<1>6. CASE TellMove(c)
  <2>1. conn' \in [Conns -> ConnState]
    BY <1>1, <1>6, ConnSteps, GoKeeps DEF TellMove
  <2>2. queue' \in Seq(Notice) /\ Len(queue') <= MaxQueue
    BY <1>1, <1>2, <1>6, SendKeeps DEF TellMove
  <2> QED BY <1>6, <2>1, <2>2, ConnsOnly DEF TellMove, ConnsTyped
<1>7. ASSUME NEW next \in {"leave", "restart"}, Leave(c, next) PROVE WorldInv'
  <2>1. CASE Owner[c] \in inWorld
    <3>1. Send("left", Owner[c], None) /\ Go(c, next)
      BY <1>7, <2>1 DEF Leave
    <3>2. conn' \in [Conns -> ConnState]
      BY <1>1, <3>1, GoKeeps DEF Steps
    <3>3. queue' \in Seq(Notice) /\ Len(queue') <= MaxQueue
      BY <1>1, <1>2, <3>1, SendKeeps
    <3> QED BY <1>7, <3>2, <3>3, ConnsOnly DEF Leave, ConnsTyped
  <2>2. CASE Owner[c] \notin inWorld
    <3> DEFINE s == [conn[c] EXCEPT !.pc = IF next = "leave" THEN "gone" ELSE "authed",
                                    !.live = @ /\ next # "leave"]
    <3>1. conn' = [conn EXCEPT ![c] = s]
      BY <1>7, <2>2 DEF Leave
    <3>2. s \in ConnState
      BY <1>1 DEF ConnState, Steps
    <3> HIDE DEF s
    <3>3. conn' \in [Conns -> ConnState]
      BY <1>1, <3>1, <3>2
    <3> QED BY <1>1, <1>7, <2>2, <3>3, ConnsOnly DEF Leave, ConnsTyped
  <2> QED BY <2>1, <2>2
<1>8. CASE RestartRefused(c)
  <2>1. queue' \in Seq(Notice) /\ Len(queue') <= MaxQueue
    BY <1>1, <1>2, <1>8, SendKeeps DEF RestartRefused
  <2> QED BY <1>1, <1>8, <2>1, ConnsOnly DEF RestartRefused, ConnsTyped
<1> QED BY <1>3, <1>4, <1>5, <1>6, <1>7, <1>8 DEF Logout, Restart
(* The steps that take a player out of the world, or put it there. *)
LEMMA ArrivalSteps ==
  ASSUME WorldInv, NEW c \in Conns, KickRemove(c) \/ GotoLobby(c) \/ Left(c) \/ CharacterSelect(c)
  PROVE  WorldInv'
<1>1. /\ conn \in [Conns -> ConnState] /\ queue \in Seq(Notice) /\ Len(queue) <= MaxQueue
      /\ WorldTyped /\ ShownTyped /\ ActiveTyped /\ ListsHold /\ BlocksCounted /\ FreshNeighboursSee
  BY DEF WorldInv, ConnsTyped
<1>2. Owner[c] \in Chars
  BY WorldAssumption
<1>3. ASSUME Remove(Owner[c]), conn' \in [Conns -> ConnState], UNCHANGED <<queue, pos, npcs, driven, center, active>>
      PROVE  WorldInv'
  <2>1. WorldTyped' /\ ShownTyped' /\ ListsHold' /\ FreshNeighboursSee'
    BY <1>2, <1>3, RemoveKeeps
  <2> QED BY <1>1, <1>3, <2>1 DEF WorldInv, ConnsTyped, ActiveTyped, BlocksCounted
<1>4. CASE KickRemove(c)
  <2>1. conn' \in [Conns -> ConnState]
    BY <1>1, <1>4, GoKeeps DEF KickRemove, Steps
  <2> QED BY <1>3, <1>4, <2>1 DEF KickRemove
<1>5. CASE GotoLobby(c)
  BY <1>1, <1>3, <1>5 DEF GotoLobby
<1>6. CASE Left(c)
  <2> DEFINE s == [conn[c] EXCEPT
                !.pc = IF ~conn[c].live THEN "kicked" ELSE IF At(c, "leave") THEN "gone" ELSE "authed",
                !.live = @ /\ ~At(c, "leave")]
  <2>1. conn' = [conn EXCEPT ![c] = s]
    BY <1>6 DEF Left
  <2>2. s \in ConnState
    BY <1>1 DEF ConnState, Steps
  <2> HIDE DEF s
  <2>3. conn' \in [Conns -> ConnState]
    BY <1>1, <2>1, <2>2
  <2> QED BY <1>3, <1>6, <2>3 DEF Left
<1>7. CASE CharacterSelect(c)
  <2> DEFINE p == Owner[c]
             r == RegionOf(pos[p])
  <2>1. /\ inWorld' = inWorld \union {p} /\ regions' = AddToRegion(regions, r, p)
        /\ known' = [known EXCEPT ![p] = {}] /\ seen' = [seen EXCEPT ![p] = {}]
        /\ moving' = [moving EXCEPT ![p] = None] /\ tele' = tele \ {p} /\ fresh' = fresh \ {p}
        /\ UNCHANGED <<conn, queue, pos, npcs, driven, center, active>>
    BY <1>7 DEF CharacterSelect
  <2>2. r \in Regions /\ p \in Chars /\ pos[p] \in Where
    BY <1>1, <1>2, PlacesAreInts DEF WorldTyped
  <2> HIDE DEF p
  <2>3. /\ regions' \in Grid /\ regions'[r][p] > 0
        /\ \A z \in Regions, j \in Chars \union NpcIds : regions'[z][j] = regions[z][j] \/ regions'[z][j] > 0
    BY <1>1, <2>1, <2>2, AddingToRegion DEF WorldTyped
  <2>4. WorldTyped'
    BY <1>1, <2>1, <2>2, <2>3 DEF WorldTyped
  <2>5. ShownTyped'
    BY <1>1, <2>1 DEF ShownTyped
  <2>6. ListsHold'
    <3>1. \A q \in inWorld : q \in Chars /\ RegionOf(pos[q]) \in Regions
      BY <1>1, PlacesAreInts DEF WorldTyped
    <3>2. \A n \in npcs : n \in NpcIds /\ RegionOf(NpcAt[n]) \in Regions
      BY <1>1, PlacesAreInts DEF WorldTyped
    <3>3. \A q \in inWorld' : regions'[RegionOf(pos'[q])][q] > 0
      <4> TAKE q \in inWorld'
      <4>1. CASE q = p
        BY <2>1, <2>3, <4>1
      <4>2. CASE q # p
        <5>1. q \in inWorld /\ pos'[q] = pos[q]
          BY <2>1, <4>2
        <5> QED BY <1>1, <2>3, <3>1, <5>1 DEF ListsHold
      <4> QED BY <4>1, <4>2
    <3>4. \A n \in npcs' : regions'[RegionOf(NpcAt[n])][n] > 0
      BY <1>1, <2>1, <2>3, <3>2 DEF ListsHold
    <3> QED BY <3>3, <3>4 DEF ListsHold
  <2>7. FreshNeighboursSee'
    <3>1. \A q \in fresh' : q \in fresh /\ known'[q] = known[q]
      BY <1>1, <2>1 DEF WorldTyped
    <3> QED BY <1>1, <2>1, <3>1 DEF FreshNeighboursSee
  <2> QED BY <1>1, <2>1, <2>4, <2>5, <2>6, <2>7 DEF WorldInv, ConnsTyped, ActiveTyped, BlocksCounted
<1> QED BY <1>4, <1>5, <1>6, <1>7

(* The steps in which a client reports a position, and those of its own movement. *)
LEMMA ReportSteps ==
  ASSUME WorldInv, NEW c \in Conns,
         \/ \E x, y \in Where : MoveBackward(c, x, y)
         \/ \E x \in Where : ValidatePosition(c, x) \/ CannotMoveAnymore(c, x)
         \/ StartMovement(c)
  PROVE  WorldInv'
<1>1. /\ conn \in [Conns -> ConnState] /\ queue \in Seq(Notice) /\ Len(queue) <= MaxQueue
      /\ WorldTyped /\ ShownTyped /\ ActiveTyped /\ ListsHold /\ BlocksCounted /\ FreshNeighboursSee
  BY DEF WorldInv, ConnsTyped
<1>2. Owner[c] \in Chars
  BY WorldAssumption
<1>3. ASSUME NEW x \in Where, NEW y \in Where, MoveBackward(c, x, y) PROVE WorldInv'
  <2>1. WorldTyped' /\ ListsHold' /\ FreshNeighboursSee'
    BY <1>2, <1>3, MovesKeep DEF MoveBackward, motion, loop
  <2>2. conn' \in [Conns -> ConnState]
    BY <1>1, <1>3, GoWithKeeps DEF MoveBackward, Steps
  <2> QED BY <1>1, <1>3, <2>1, <2>2
          DEF WorldInv, MoveBackward, motion, loop, ConnsTyped, ShownTyped, ActiveTyped, BlocksCounted
<1>4. ASSUME NEW x \in Where, ValidatePosition(c, x) PROVE WorldInv'
  <2> DEFINE p == Owner[c]
             off == moving[p] = None /\ Dist(pos[p], x) > Deviation
  <2>0. UNCHANGED <<queue, inWorld, npcs, seen, motion, loop>>
    BY <1>4 DEF ValidatePosition
  <2>1. conn' \in [Conns -> ConnState]
    <3>1. conn' = conn \/ GoWith(c, "sync", x)
      BY <1>4 DEF ValidatePosition
    <3> QED BY <1>1, <3>1, GoWithKeeps DEF Steps
  <2>2. WorldTyped' /\ ListsHold' /\ FreshNeighboursSee'
    <3>1. CASE ~off /\ moving[p] = None
      <4>1. Moves(p, x)
        BY <1>4, <3>1 DEF ValidatePosition
      <4> QED BY <1>2, <2>0, <4>1, MovesKeep DEF motion, loop
    <3>2. CASE off \/ moving[p] # None
      <4>1. UNCHANGED <<pos, regions, fresh>>
        BY <1>4, <3>2 DEF ValidatePosition
      <4> QED BY <1>1, <2>0, <4>1 DEF motion, loop, WorldTyped, ListsHold, FreshNeighboursSee
    <3> QED BY <3>1, <3>2
  <2> QED BY <1>1, <2>0, <2>1, <2>2 DEF WorldInv, motion, loop, ConnsTyped, ShownTyped, ActiveTyped, BlocksCounted
<1>5. ASSUME NEW x \in Where, CannotMoveAnymore(c, x) PROVE WorldInv'
  <2>1. WorldTyped' /\ ListsHold' /\ FreshNeighboursSee'
    BY <1>2, <1>5, MovesKeep DEF CannotMoveAnymore, loop
  <2>2. ShownTyped'
    BY <1>1, <1>5 DEF CannotMoveAnymore, ShownTyped
  <2> QED BY <1>1, <1>5, <2>1, <2>2
          DEF WorldInv, CannotMoveAnymore, loop, ConnsTyped, ActiveTyped, BlocksCounted
<1>6. CASE StartMovement(c)
  <2> DEFINE p == Owner[c]
             far == Dist(pos[p], conn[c].at) > MaxStep
  <2>1. conn[c].at \in Where
    BY <1>1, <1>6, ConnSteps DEF StartMovement, At
  <2>2. ShownTyped'
    <3>1. moving' = [moving EXCEPT ![p] = None] \/ moving' = [moving EXCEPT ![p] = conn[c].at]
      BY <1>6 DEF StartMovement, UpdateMovementState
    <3> QED BY <1>1, <1>6, <2>1, <3>1 DEF ShownTyped, StartMovement
  <2>3. conn' \in [Conns -> ConnState]
    <3>1. Go(c, Resume(c)) \/ Go(c, "tell")
      BY <1>6 DEF StartMovement
    <3> QED BY <1>1, <3>1, ConnSteps, GoKeeps DEF Steps
  <2> QED BY <1>1, <1>6, <2>2, <2>3
          DEF WorldInv, StartMovement, registry, loop, ConnsTyped, WorldTyped, ActiveTyped, ListsHold,
              BlocksCounted, FreshNeighboursSee
<1> QED BY <1>3, <1>4, <1>5, <1>6

LEMMA NpcsInRangeAreNpcs == WorldTyped => \A x, radius : NPCsInRange(x, radius) \subseteq NpcIds
BY DEF WorldTyped, NPCsInRange

(* The steps that tell the loop where a player is, and show its client the NPCs. *)
LEMMA NoticeSteps ==
  ASSUME WorldInv, NEW c \in Conns, Entered(c) \/ SyncPosition(c) \/ Appearing(c)
  PROVE  WorldInv'
<1>1. /\ conn \in [Conns -> ConnState] /\ queue \in Seq(Notice) /\ Len(queue) <= MaxQueue /\ ConnsTyped
      /\ WorldTyped /\ ShownTyped /\ ActiveTyped /\ ListsHold /\ BlocksCounted /\ FreshNeighboursSee
  BY DEF WorldInv, ConnsTyped
<1>2. Owner[c] \in Chars /\ pos[Owner[c]] \in Where
  BY <1>1, WorldAssumption DEF WorldTyped
<1>3. ASSUME conn' \in [Conns -> ConnState], queue' \in Seq(Notice), Len(queue') <= MaxQueue,
             NEW s \in SUBSET NpcIds, seen' = [seen EXCEPT ![Owner[c]] = s], tele' \subseteq tele,
             UNCHANGED <<registry, moving, driven, loop, fresh>>
      PROVE  WorldInv'
  <2>1. ShownTyped'
    BY <1>1, <1>2, <1>3 DEF ShownTyped
  <2>2. WorldTyped'
    BY <1>1, <1>3 DEF WorldTyped, registry, loop
  <2> QED BY <1>1, <1>3, <2>1, <2>2
          DEF WorldInv, registry, loop, ConnsTyped, ActiveTyped, ListsHold, BlocksCounted, FreshNeighboursSee
<1>4. seen[Owner[c]] \subseteq NpcIds
  BY <1>1, <1>2 DEF ShownTyped
<1>5. CASE Entered(c)
  <2>1. conn' \in [Conns -> ConnState]
    BY <1>1, <1>5, ConnSteps, GoKeeps DEF Entered
  <2>2. queue' \in Seq(Notice) /\ Len(queue') <= MaxQueue
    BY <1>1, <1>2, <1>5, SendKeeps DEF Entered
  <2> DEFINE s == seen[Owner[c]] \union NPCsInRange(pos[Owner[c]], Watch)
  <2>3. s \in SUBSET NpcIds
    BY <1>1, <1>4, NpcsInRangeAreNpcs
  <2>4. seen' = [seen EXCEPT ![Owner[c]] = s]
    BY <1>5 DEF Entered
  <2> HIDE DEF s
  <2> QED BY <1>3, <1>5, <2>1, <2>2, <2>3, <2>4 DEF Entered, motion
<1>6. CASE SyncPosition(c)
  <2>0. conn[c].at \in Where
    BY <1>1, <1>6, ConnSteps DEF SyncPosition, At
  <2>1. conn' \in [Conns -> ConnState]
    BY <1>1, <1>6, ConnSteps, GoKeeps DEF SyncPosition
  <2>2. queue' \in Seq(Notice) /\ Len(queue') <= MaxQueue
    BY <1>1, <1>2, <1>6, <2>0, SendKeeps DEF SyncPosition
  <2> DEFINE s == (seen[Owner[c]] \intersect NPCsInRange(conn[c].at, Forget)) \union NPCsInRange(conn[c].at, Watch)
  <2>3. s \in SUBSET NpcIds
    BY <1>1, <1>4, NpcsInRangeAreNpcs
  <2>4. seen' = [seen EXCEPT ![Owner[c]] = s]
    BY <1>6 DEF SyncPosition
  <2> HIDE DEF s
  <2> QED BY <1>3, <1>6, <2>1, <2>2, <2>3, <2>4 DEF SyncPosition, motion
<1>7. CASE Appearing(c)
  <2>2. queue' \in Seq(Notice) /\ Len(queue') <= MaxQueue
    BY <1>1, <1>2, <1>7, SendKeeps DEF Appearing
  <2> DEFINE s == NPCsInRange(pos[Owner[c]], Watch)
  <2>3. s \in SUBSET NpcIds
    BY <1>1, NpcsInRangeAreNpcs
  <2>4. seen' = [seen EXCEPT ![Owner[c]] = s] /\ tele' \subseteq tele
    BY <1>7 DEF Appearing
  <2> HIDE DEF s
  <2> QED BY <1>1, <1>3, <1>7, <2>2, <2>3, <2>4 DEF Appearing
<1> QED BY <1>5, <1>6, <1>7
-----------------------------------------------------------------------------
(* The game loop. *)

(* A comparison with the surroundings, at an old or a new position. *)
LEMMA ComparedKeeps ==
  ASSUME WorldInv, NEW p \in Chars, NEW x \in Where, Put(p, x) \/ (x = pos[p] /\ UNCHANGED <<pos, regions>>),
         Reconcile(p, [pos EXCEPT ![p] = x]), UNCHANGED <<inWorld, npcs, tele>>
  PROVE  WorldTyped' /\ ListsHold' /\ FreshNeighboursSee'
<1>1. CASE p \in inWorld
  BY <1>1, ReconcileKeeps
<1>2. CASE p \notin inWorld
  BY <1>2 DEF WorldInv, Put, Reconcile, WorldTyped, ListsHold, FreshNeighboursSee
<1> QED BY <1>1, <1>2

LEMMA CommandSteps ==
  ASSUME WorldInv, HandleEntered \/ HandleMoved \/ HandleMoveTo \/ HandleLeft
  PROVE  WorldInv'
<1>1. /\ conn \in [Conns -> ConnState] /\ ConnsTyped
      /\ WorldTyped /\ ShownTyped /\ ActiveTyped /\ ListsHold /\ BlocksCounted /\ FreshNeighboursSee
  BY DEF WorldInv, ConnsTyped
<1> DEFINE p == Head(queue).who
           x == Head(queue).at
<1>2. CASE HandleEntered
  <2>1. /\ queue' \in Seq(Notice) /\ Len(queue') <= MaxQueue /\ p \in Chars /\ x \in Where
    BY <1>1, <1>2, TakesKeep DEF HandleEntered
  <2>2. Track(p, RegionOf(x)) /\ Reconcile(p, pos) /\ UNCHANGED <<conn, registry, seen, motion>>
    BY <1>2 DEF HandleEntered
  <2> HIDE DEF p, x
  <2>3. ActiveTyped' /\ BlocksCounted'
    BY <1>1, <2>1, <2>2, TrackKeeps, PlacesAreInts
  <2>4. WorldTyped' /\ ListsHold' /\ FreshNeighboursSee'
    <3>1. pos[p] \in Where /\ [pos EXCEPT ![p] = pos[p]] = pos
      BY <1>1, <2>1 DEF WorldTyped
    <3> QED BY <2>1, <2>2, <3>1, ComparedKeeps DEF registry, motion
  <2> QED BY <1>1, <2>1, <2>2, <2>3, <2>4 DEF WorldInv, ConnsTyped, ShownTyped, registry, motion
<1>3. CASE HandleMoved
  <2>1. /\ queue' \in Seq(Notice) /\ Len(queue') <= MaxQueue /\ p \in Chars /\ x \in Where
    BY <1>1, <1>3, TakesKeep DEF HandleMoved
  <2>2. /\ Track(p, RegionOf(x)) /\ UNCHANGED <<conn, inWorld, npcs, seen, motion>>
        /\ IF p \in driven THEN UNCHANGED <<pos, regions>> ELSE Put(p, x)
        /\ Reconcile(p, IF p \in driven THEN pos ELSE [pos EXCEPT ![p] = x])
    BY <1>3 DEF HandleMoved
  <2> HIDE DEF p, x
  <2>3. ActiveTyped' /\ BlocksCounted'
    BY <1>1, <2>1, <2>2, TrackKeeps, PlacesAreInts
  <2>4. WorldTyped' /\ ListsHold' /\ FreshNeighboursSee'
    <3>1. CASE p \in driven
      <4>1. pos[p] \in Where /\ [pos EXCEPT ![p] = pos[p]] = pos
        BY <1>1, <2>1 DEF WorldTyped
      <4> QED BY <2>1, <2>2, <3>1, <4>1, ComparedKeeps DEF motion
    <3>2. CASE p \notin driven
      BY <2>1, <2>2, <3>2, ComparedKeeps DEF motion
    <3> QED BY <3>1, <3>2
  <2> QED BY <1>1, <2>1, <2>2, <2>3, <2>4 DEF WorldInv, ConnsTyped, ShownTyped, motion
<1>4. CASE HandleMoveTo
  <2>1. queue' \in Seq(Notice) /\ Len(queue') <= MaxQueue
    BY <1>1, <1>4, TakesKeep DEF HandleMoveTo
  <2>2. ShownTyped'
    BY <1>1, <1>4 DEF HandleMoveTo, ShownTyped
  <2> QED BY <1>1, <1>4, <2>1, <2>2
          DEF HandleMoveTo, WorldInv, ConnsTyped, registry, loop, WorldTyped, ActiveTyped, ListsHold,
              BlocksCounted, FreshNeighboursSee
<1>5. CASE HandleLeft
  <2>1. queue' \in Seq(Notice) /\ Len(queue') <= MaxQueue /\ p \in Chars
    BY <1>1, <1>5, TakesKeep DEF HandleLeft
  <2>2. /\ known' = [q \in Chars |-> IF q \in inWorld \ {p} THEN known[q] \ {p} ELSE known[q]]
        /\ Track(p, None) /\ fresh' = fresh \ {p} /\ driven' \in {driven, driven \ {p}}
        /\ UNCHANGED <<conn, registry, seen, moving, tele>>
    BY <1>5 DEF HandleLeft
  <2> HIDE DEF p, x
  <2>3. ActiveTyped' /\ BlocksCounted'
    BY <1>1, <2>1, <2>2, TrackKeeps
  <2>4. WorldTyped'
    BY <1>1, <2>1, <2>2 DEF WorldTyped, registry
  <2>5. ShownTyped'
    BY <1>1, <2>2 DEF ShownTyped
  <2>6. FreshNeighboursSee'
    <3>1. \A q \in fresh' : q \in fresh /\ q # p /\ q \in Chars
                            /\ (known'[q] = known[q] \/ known'[q] = known[q] \ {p}) /\ pos' = pos
      BY <1>1, <2>2 DEF WorldTyped, registry
    <3> QED BY <1>1, <3>1 DEF FreshNeighboursSee
  <2> QED BY <1>1, <2>1, <2>2, <2>3, <2>4, <2>5, <2>6 DEF WorldInv, ConnsTyped, ListsHold, registry
<1> QED BY <1>2, <1>3, <1>4, <1>5

LEMMA MovementSteps ==
  ASSUME WorldInv, NEW p \in Chars,
         AdvancePlayer(p) \/ \E x \in Where : Approach(p, x) \/ TeleportPlayer(p, x)
  PROVE  WorldInv'
<1>1. /\ conn \in [Conns -> ConnState] /\ queue \in Seq(Notice) /\ Len(queue) <= MaxQueue
      /\ WorldTyped /\ ShownTyped /\ ActiveTyped /\ ListsHold /\ BlocksCounted /\ FreshNeighboursSee
  BY DEF WorldInv, ConnsTyped
<1>2. CASE AdvancePlayer(p)
  <2>1. PICK x \in Between(pos[p], moving[p]) :
          /\ Put(p, x) /\ Reconcile(p, [pos EXCEPT ![p] = x])
          /\ moving' = IF x = moving[p] THEN [moving EXCEPT ![p] = None] ELSE moving
    BY <1>2 DEF AdvancePlayer
  <2>2. x \in Where
    BY DEF Between
  <2>3. WorldTyped' /\ ListsHold' /\ FreshNeighboursSee'
    BY <1>2, <2>1, <2>2, ComparedKeeps DEF AdvancePlayer
  <2>4. ShownTyped'
    BY <1>1, <1>2, <2>1 DEF AdvancePlayer, ShownTyped
  <2> QED BY <1>1, <1>2, <2>3, <2>4 DEF AdvancePlayer, WorldInv, ConnsTyped, ActiveTyped, BlocksCounted
<1>3. ASSUME NEW x \in Where, Approach(p, x) PROVE WorldInv'
  <2>1. ShownTyped'
    BY <1>1, <1>3 DEF Approach, ShownTyped
  <2> QED BY <1>1, <1>3, <2>1
          DEF Approach, WorldInv, ConnsTyped, registry, loop, WorldTyped, ActiveTyped, ListsHold,
              BlocksCounted, FreshNeighboursSee
<1>4. ASSUME NEW x \in Where, TeleportPlayer(p, x) PROVE WorldInv'
  <2> DEFINE near == PlayersInRange(pos, pos[p], Forget)
  <2>1. /\ p \in inWorld /\ Put(p, x) /\ fresh' = fresh \ {p} /\ tele' = tele \union {p}
        /\ known' = [q \in Chars |-> IF q = p THEN {} ELSE IF q \in near THEN known[q] \ {p} ELSE known[q]]
        /\ moving' = [moving EXCEPT ![p] = None] /\ driven' \in {driven, driven \ {p}}
        /\ UNCHANGED <<conn, queue, inWorld, npcs, seen, center, active>>
    BY <1>4 DEF TeleportPlayer
  <2> HIDE DEF near
  <2>2. /\ pos' \in [Chars -> Where] /\ regions' \in Grid /\ ListsHold'
    BY <1>1, <2>1, PutKeepsLists DEF ListsHold
  <2>3. WorldTyped'
    BY <1>1, <2>1, <2>2 DEF WorldTyped
  <2>4. ShownTyped'
    BY <1>1, <2>1 DEF ShownTyped
  <2>5. FreshNeighboursSee'
    <3>1. \A q \in fresh' : q \in fresh /\ q # p /\ q \in Chars /\ pos'[q] = pos[q]
                            /\ (known'[q] = known[q] \/ known'[q] = known[q] \ {p})
      BY <1>1, <2>1 DEF WorldTyped, Put
    <3> QED BY <1>1, <3>1 DEF FreshNeighboursSee
  <2> QED BY <1>1, <2>1, <2>2, <2>3, <2>4, <2>5 DEF WorldInv, ConnsTyped, ActiveTyped, BlocksCounted
<1> QED BY <1>2, <1>3, <1>4

LEMMA NpcSteps ==
  ASSUME WorldInv, NEW n \in NpcIds, Decay(n) \/ Respawn(n)
  PROVE  WorldInv'
<1>1. /\ conn \in [Conns -> ConnState] /\ queue \in Seq(Notice) /\ Len(queue) <= MaxQueue
      /\ WorldTyped /\ ShownTyped /\ ActiveTyped /\ ListsHold /\ BlocksCounted /\ FreshNeighboursSee
  BY DEF WorldInv, ConnsTyped
<1> DEFINE r == RegionOf(NpcAt[n])
<1>2. r \in Regions /\ n \in Chars \union NpcIds /\ n \notin Chars /\ regions \in Grid
  BY <1>1, PlacesAreInts, WorldAssumption DEF WorldTyped
<1>3. \A q \in inWorld : q \in Chars /\ RegionOf(pos[q]) \in Regions
  BY <1>1, PlacesAreInts DEF WorldTyped
<1>4. \A m \in npcs : m \in NpcIds /\ RegionOf(NpcAt[m]) \in Regions
  BY <1>1, PlacesAreInts DEF WorldTyped
<1>5. /\ UNCHANGED <<conn, queue, inWorld, pos, motion, loop, fresh>> /\ npcs' \subseteq NpcIds
      /\ seen' = seen \/ seen' = [p \in Chars |-> seen[p] \ {n}]
  BY <1>1 DEF Decay, Respawn, WorldTyped
<1>6. regions' \in Grid /\ ListsHold'
  <2>1. CASE Decay(n)
    <3>1. npcs' = npcs \ {n} /\ regions' = RemoveFromRegion(regions, r, n)
      BY <2>1 DEF Decay
    <3> HIDE DEF r
    <3>2. regions' \in Grid /\ \A s \in Regions, j \in Chars \union NpcIds : j # n => regions'[s][j] = regions[s][j]
      BY <1>2, <3>1, RemovingFromRegion
    <3> QED BY <1>1, <1>2, <1>3, <1>4, <1>5, <3>1, <3>2 DEF ListsHold
  <2>2. CASE Respawn(n)
    <3>1. npcs' = npcs \union {n} /\ regions' = AddToRegion(regions, r, n)
      BY <2>2 DEF Respawn
    <3>2. /\ regions' \in Grid /\ regions'[r][n] > 0
          /\ \A s \in Regions, j \in Chars \union NpcIds : j # n => regions'[s][j] = regions[s][j]
      BY <1>2, <3>1, AddingToRegion
    <3> QED BY <1>1, <1>2, <1>3, <1>4, <1>5, <3>1, <3>2 DEF ListsHold
  <2> QED BY <2>1, <2>2
<1>7. WorldTyped'
  BY <1>1, <1>5, <1>6 DEF WorldTyped, motion, loop
<1>8. ShownTyped'
  BY <1>1, <1>5 DEF ShownTyped, motion
<1> QED BY <1>1, <1>5, <1>6, <1>7, <1>8
        DEF WorldInv, ConnsTyped, ActiveTyped, BlocksCounted, FreshNeighboursSee, loop

LEMMA WorldSteps == WorldInv /\ [WorldNext]_presenceVars => WorldInv'
<1> SUFFICES ASSUME WorldInv, [WorldNext]_presenceVars PROVE WorldInv'
  OBVIOUS
<1>1. ASSUME NEW c \in Conns, Session(c) \/ Motion(c) \/ GotoLobby(c) \/ Disturb(c)
      PROVE  WorldInv'
  BY <1>1, SessionSteps, ArrivalSteps, ReportSteps, NoticeSteps DEF Session, Motion, Disturb
<1>2. CASE Loop
  BY <1>2, CommandSteps, MovementSteps, NpcSteps DEF Loop
<1>3. CASE UNCHANGED presenceVars
  BY <1>3 DEF presenceVars, registry, motion, loop, WorldInv, ConnsTyped, WorldTyped, ShownTyped,
              ActiveTyped, ListsHold, BlocksCounted, FreshNeighboursSee
<1> QED BY <1>1, <1>2, <1>3 DEF WorldNext

-----------------------------------------------------------------------------
(* What the loop still has to hear of a player. *)

InGameSteps == {"ingame", "sync", "move", "tell"}
Live(s) == s.pc \notin {"new", "gone"}

(* A session nothing disturbed is the only one of its player that is alive. *)
Orderly(c) ==
  /\ conn[c].pc \notin {"kick", "kicked"}
  /\ conn[c].live = Live(conn[c])
  /\ conn[c].pc \in {"enter", "sync", "move", "tell", "leave", "restart"} => Owner[c] \in inWorld
  /\ \A d \in Conns : Owner[d] = Owner[c] /\ conn[c].live /\ conn[d].live => c = d
SessionsKept == \A c \in Conns : Owner[c] \notin disturbed => Orderly(c)

LeftAfter(q, i, p) == \E j \in 1..Len(q) : i < j /\ q[j].kind = "left" /\ q[j].who = p
(* With the commands of q handled, the player has a center, and has none. *)
TrackedBy(q, x, p) ==
  \/ \E i \in 1..Len(q) : q[i].kind = "entered" /\ q[i].who = p /\ ~LeftAfter(q, i, p)
  \/ x # None /\ ~LeftAfter(q, 0, p)
ReleasedBy(q, x, p) ==
  /\ \A i \in 1..Len(q) : q[i].kind \in {"entered", "moved"} /\ q[i].who = p => LeftAfter(q, i, p)
  /\ x # None => LeftAfter(q, 0, p)

InPlay(p) == p \in inWorld /\ \E c \in Conns : Owner[c] = p /\ conn[c].pc \in InGameSteps
RegionKept(p) ==
  IF InPlay(p) THEN TrackedBy(queue, center[p], p) ELSE ReleasedBy(queue, center[p], p)
RegionsKept == \A p \in Chars \ disturbed : RegionKept(p)

(* The inductive invariant of RegionsSound. *)
PresenceInv == WorldInv /\ disturbed \subseteq Chars /\ SessionsKept /\ RegionsKept

(* A command goes to the end of the queue. *)
LEMMA AppendNotices ==
  ASSUME NEW q \in Seq(Notice), NEW m \in Notice, NEW p, NEW x
  PROVE  /\ ~(m.kind = "left" /\ m.who = p) /\ TrackedBy(q, x, p) => TrackedBy(Append(q, m), x, p)
         /\ ~(m.kind \in {"entered", "moved"} /\ m.who = p) /\ ReleasedBy(q, x, p)
              => ReleasedBy(Append(q, m), x, p)
         /\ m.kind = "left" /\ m.who = p => ReleasedBy(Append(q, m), x, p)
         /\ m.kind = "entered" /\ m.who = p => TrackedBy(Append(q, m), x, p)
<1> DEFINE r == Append(q, m)
           n == Len(q)
<1>1. n \in Nat /\ Len(r) = n + 1 /\ r[n + 1] = m /\ \A i \in 1..n : r[i] = q[i]
  BY AppendProperties
<1> HIDE DEF r, n
<1>2. \A i \in 1..(n + 1) : i \in 1..n \/ i = n + 1
  BY <1>1
<1>3. 1..n \subseteq 1..(n + 1) /\ n + 1 \in 1..(n + 1) /\ (\A i \in 1..n : 0 < i /\ i < n + 1 /\ i # n + 1) /\ 0 < n + 1
  BY <1>1
<1>4. ASSUME ~(m.kind = "left" /\ m.who = p), NEW i \in Nat PROVE LeftAfter(r, i, p) => LeftAfter(q, i, p)
  BY <1>1, <1>2, <1>4 DEF LeftAfter, n
<1>5. ASSUME NEW i \in Nat PROVE LeftAfter(q, i, p) => LeftAfter(r, i, p)
  BY <1>1, <1>3 DEF LeftAfter, n
<1>6. ASSUME m.kind = "left", m.who = p, NEW i \in Nat, i < n + 1 PROVE LeftAfter(r, i, p)
  BY <1>1, <1>3, <1>6 DEF LeftAfter
<1>7. ~LeftAfter(r, n + 1, p)
  BY <1>1 DEF LeftAfter
<1>8. ASSUME ~(m.kind = "left" /\ m.who = p), TrackedBy(q, x, p) PROVE TrackedBy(r, x, p)
  BY <1>1, <1>3, <1>4, <1>8 DEF TrackedBy, n
<1>9. ASSUME ~(m.kind \in {"entered", "moved"} /\ m.who = p), ReleasedBy(q, x, p) PROVE ReleasedBy(r, x, p)
  BY <1>1, <1>2, <1>3, <1>5, <1>9 DEF ReleasedBy, n
<1>10. ASSUME m.kind = "left", m.who = p PROVE ReleasedBy(r, x, p)
  BY <1>1, <1>2, <1>3, <1>6, <1>10 DEF ReleasedBy
<1>11. ASSUME m.kind = "entered", m.who = p PROVE TrackedBy(r, x, p)
  BY <1>1, <1>3, <1>7, <1>11 DEF TrackedBy
<1> QED BY <1>8, <1>9, <1>10, <1>11 DEF r

(* The loop takes the command at the head, and gives or takes a center by it. *)
LEMMA TailNotices ==
  ASSUME NEW q \in Seq(Notice), q # <<>>, NEW p, NEW x, NEW y,
         \/ Head(q).who # p /\ y = x
         \/ Head(q).kind = "moveTo" /\ y = x
         \/ Head(q).kind \in {"entered", "moved"} /\ Head(q).who = p /\ y # None
         \/ Head(q).kind = "left" /\ Head(q).who = p /\ y = None
  PROVE  /\ TrackedBy(q, x, p) => TrackedBy(Tail(q), y, p)
         /\ ReleasedBy(q, x, p) => ReleasedBy(Tail(q), y, p)
<1> DEFINE r == Tail(q)
           n == Len(q)
<1>1. n \in Nat \ {0} /\ Len(r) = n - 1 /\ Head(q) = q[1] /\ \A i \in 1..(n - 1) : r[i] = q[i + 1]
  BY HeadTailProperties, EmptySeq
<1> HIDE DEF r, n
<1>2. /\ \A i \in 1..(n - 1) : i + 1 \in 1..n /\ i \in Nat /\ i + 1 # 1
      /\ \A i \in 1..n : i = 1 \/ (i - 1 \in 1..(n - 1) /\ (i - 1) + 1 = i)
  BY <1>1
<1>3. ASSUME NEW i \in Nat PROVE LeftAfter(r, i, p) <=> LeftAfter(q, i + 1, p)
  <2>1. ASSUME LeftAfter(r, i, p) PROVE LeftAfter(q, i + 1, p)
    <3>1. PICK j \in 1..(n - 1) : i < j /\ q[j + 1].kind = "left" /\ q[j + 1].who = p
      BY <1>1, <2>1 DEF LeftAfter
    <3>2. j + 1 \in 1..n /\ i + 1 < j + 1
      BY <1>1, <3>1
    <3> QED BY <3>1, <3>2 DEF LeftAfter, n
  <2>2. ASSUME LeftAfter(q, i + 1, p) PROVE LeftAfter(r, i, p)
    <3>1. PICK j \in 1..n : i + 1 < j /\ q[j].kind = "left" /\ q[j].who = p
      BY <2>2 DEF LeftAfter, n
    <3>2. j - 1 \in 1..(n - 1) /\ i < j - 1 /\ (j - 1) + 1 = j
      BY <1>1, <3>1
    <3>3. r[j - 1] = q[j]
      BY <1>1, <3>2
    <3> QED BY <1>1, <3>1, <3>2, <3>3 DEF LeftAfter
  <2> QED BY <2>1, <2>2
<1>4. LeftAfter(q, 0, p) <=> (q[1].kind = "left" /\ q[1].who = p) \/ LeftAfter(q, 1, p)
  <2>1. 1 \in 1..n /\ \A j \in 1..n : 0 < j /\ (j = 1 \/ 1 < j)
    BY <1>1
  <2>2. \A j \in 1..n : 1 < j => 0 < j
    BY <1>1
  <2> QED BY <2>1, <2>2 DEF LeftAfter, n
<1>5. LeftAfter(r, 0, p) <=> LeftAfter(q, 1, p)
  BY <1>3
<1>6. ASSUME TrackedBy(q, x, p) PROVE TrackedBy(r, y, p)
  <2>1. CASE \E i \in 1..n : i # 1 /\ q[i].kind = "entered" /\ q[i].who = p /\ ~LeftAfter(q, i, p)
    <3>1. PICK i \in 1..n : i # 1 /\ q[i].kind = "entered" /\ q[i].who = p /\ ~LeftAfter(q, i, p)
      BY <2>1
    <3>2. i - 1 \in 1..(n - 1) /\ (i - 1) + 1 = i /\ i - 1 \in Nat
      BY <1>1, <3>1
    <3>3. r[i - 1] = q[i] /\ ~LeftAfter(r, i - 1, p)
      BY <1>1, <1>3, <3>1, <3>2
    <3> QED BY <1>1, <3>1, <3>2, <3>3 DEF TrackedBy
  <2>2. CASE q[1].kind = "entered" /\ q[1].who = p /\ ~LeftAfter(q, 1, p)
    BY <1>1, <1>5, <2>2 DEF TrackedBy
  <2>3. CASE x # None /\ ~LeftAfter(q, 0, p)
    BY <1>1, <1>4, <1>5, <2>3 DEF TrackedBy
  <2> QED BY <1>6, <2>1, <2>2, <2>3 DEF TrackedBy, n
<1>7. ASSUME ReleasedBy(q, x, p) PROVE ReleasedBy(r, y, p)
  <2>1. ASSUME NEW i \in 1..(n - 1), r[i].kind \in {"entered", "moved"}, r[i].who = p PROVE LeftAfter(r, i, p)
    <3>1. i + 1 \in 1..n /\ i \in Nat /\ r[i] = q[i + 1]
      BY <1>1, <1>2
    <3>2. LeftAfter(q, i + 1, p)
      BY <1>7, <2>1, <3>1 DEF ReleasedBy, n
    <3> QED BY <1>3, <3>1, <3>2
  <2>2. ASSUME y # None PROVE LeftAfter(q, 1, p)
    <3>1. CASE q[1].kind \in {"entered", "moved"} /\ q[1].who = p
      <4>1. 1 \in 1..n
        BY <1>1
      <4> QED BY <1>7, <3>1, <4>1 DEF ReleasedBy, n
    <3>2. CASE y = x /\ ~(q[1].kind = "left" /\ q[1].who = p)
      BY <1>4, <1>7, <2>2, <3>2 DEF ReleasedBy
    <3> QED BY <1>1, <2>2, <3>1, <3>2
  <2> QED BY <1>1, <1>5, <2>1, <2>2 DEF ReleasedBy
<1> QED BY <1>6, <1>7 DEF r

(* A goroutine that is alive is the only one of its player: whether the player is
   in play is where this one stands. *)
LEMMA OwnNow ==
  ASSUME PresenceInv, NEW c \in Conns, Owner[c] \notin disturbed,
         conn[c].pc \notin {"new", "gone"} \/ Rivals(c) = {}
  PROVE  /\ Owner[c] \in Chars /\ conn[c] \in ConnState
         /\ \A d \in Conns : d # c /\ Owner[d] = Owner[c] => ~conn[d].live /\ conn[d].pc \in {"new", "gone"}
         /\ InPlay(Owner[c]) <=> Owner[c] \in inWorld /\ conn[c].pc \in InGameSteps
         /\ Orderly(c)
         /\ IF Owner[c] \in inWorld /\ conn[c].pc \in InGameSteps
            THEN TrackedBy(queue, center[Owner[c]], Owner[c])
            ELSE ReleasedBy(queue, center[Owner[c]], Owner[c])
<1>1. conn \in [Conns -> ConnState] /\ Owner[c] \in Chars /\ SessionsKept /\ RegionsKept
  BY WorldAssumption DEF PresenceInv, WorldInv, ConnsTyped
<1>2. Orderly(c)
  BY <1>1 DEF SessionsKept
<1>3. ASSUME NEW d \in Conns, d # c, Owner[d] = Owner[c]
      PROVE  ~conn[d].live /\ conn[d].pc \in {"new", "gone"}
  <2>1. Orderly(d)
    BY <1>1, <1>3 DEF SessionsKept
  <2>2. ~conn[d].live
    <3>1. CASE conn[c].pc \notin {"new", "gone"}
      BY <1>2, <1>3, <3>1 DEF Orderly, Live
    <3>2. CASE Rivals(c) = {}
      BY <1>3, <3>2 DEF Rivals
    <3> QED BY <3>1, <3>2
  <2> QED BY <2>1, <2>2 DEF Orderly, Live
<1>4. InPlay(Owner[c]) <=> Owner[c] \in inWorld /\ conn[c].pc \in InGameSteps
  BY <1>3 DEF InPlay, InGameSteps
<1>5. RegionKept(Owner[c])
  BY <1>1 DEF RegionsKept
<1> QED BY <1>1, <1>2, <1>3, <1>4, <1>5 DEF RegionKept

(* The player of the goroutine that takes a step, in the state after it. *)
LEMMA OwnKept ==
  ASSUME PresenceInv, NEW c \in Conns, Owner[c] \notin disturbed,
         conn[c].pc \notin {"new", "gone"} \/ Rivals(c) = {},
         conn' \in [Conns -> ConnState], \A d \in Conns \ {c} : conn'[d] = conn[d],
         conn'[c].pc \notin {"kick", "kicked"}, conn'[c].live = Live(conn'[c]),
         conn'[c].pc \in {"enter", "sync", "move", "tell", "leave", "restart"} => Owner[c] \in inWorld',
         IF Owner[c] \in inWorld' /\ conn'[c].pc \in InGameSteps
         THEN TrackedBy(queue', center'[Owner[c]], Owner[c])
         ELSE ReleasedBy(queue', center'[Owner[c]], Owner[c])
  PROVE  /\ \A d \in Conns : Owner[d] = Owner[c] => Orderly(d)'
         /\ RegionKept(Owner[c])'
<1>1. \A d \in Conns : d # c /\ Owner[d] = Owner[c] =>
        /\ ~conn'[d].live /\ conn'[d].pc \in {"new", "gone"} /\ conn'[d] = conn[d]
  BY OwnNow
<1>2. InPlay(Owner[c])' <=> Owner[c] \in inWorld' /\ conn'[c].pc \in InGameSteps
  BY <1>1 DEF InPlay, InGameSteps
<1>3. ASSUME NEW d \in Conns, Owner[d] = Owner[c] PROVE Orderly(d)'
  <2>1. \A e \in Conns : Owner[e] = Owner[d] /\ conn'[d].live /\ conn'[e].live => d = e
    BY <1>1, <1>3
  <2>2. CASE d = c
    BY <2>1, <2>2 DEF Orderly
  <2>3. CASE d # c
    <3>1. conn'[d].live = FALSE /\ conn'[d].pc \in {"new", "gone"}
      BY <1>1, <1>3, <2>3 DEF ConnState
    <3> QED BY <3>1 DEF Orderly, Live
  <2> QED BY <2>2, <2>3
<1> QED BY <1>2, <1>3 DEF RegionKept

(* The players of the other goroutines: a step of one tells the loop of its own
   player only, and leaves the sessions of the others as they are. *)
LEMMA OthersKept ==
  ASSUME PresenceInv, NEW c \in Conns, center' = center,
         queue' = queue \/ (\E k \in {"entered", "moved", "moveTo", "left"}, x \in Where \union {None} :
                              Send(k, Owner[c], x) /\ (k \in {"entered", "moved"} => x \in Where)),
         \A p \in Chars \ {Owner[c]} : p \in inWorld' <=> p \in inWorld,
         \A d \in Conns : Owner[d] # Owner[c] => conn'[d] = conn[d]
  PROVE  /\ \A d \in Conns : Owner[d] # Owner[c] /\ Owner[d] \notin disturbed => Orderly(d)'
         /\ \A p \in Chars \ disturbed : p # Owner[c] => RegionKept(p)'
<1>1. queue \in Seq(Notice) /\ Owner \in [Conns -> Chars] /\ SessionsKept /\ RegionsKept
  BY WorldAssumption DEF PresenceInv, WorldInv, ConnsTyped
<1>2. ASSUME NEW d \in Conns, Owner[d] # Owner[c], Owner[d] \notin disturbed PROVE Orderly(d)'
  <2>1. Orderly(d) /\ Owner[d] \in Chars
    BY <1>1, <1>2 DEF SessionsKept
  <2>2. \A e \in Conns : Owner[e] = Owner[d] => conn'[e] = conn[e]
    BY <1>2
  <2> QED BY <1>2, <2>1, <2>2 DEF Orderly, Live
<1>3. ASSUME NEW p \in Chars \ disturbed, p # Owner[c] PROVE RegionKept(p)'
  <2>1. RegionKept(p)
    BY <1>1 DEF RegionsKept
  <2>2. InPlay(p)' <=> InPlay(p)
    BY <1>3 DEF InPlay
  <2>3. /\ TrackedBy(queue, center[p], p) => TrackedBy(queue', center'[p], p)
        /\ ReleasedBy(queue, center[p], p) => ReleasedBy(queue', center'[p], p)
    <3>1. CASE queue' = queue
      BY <3>1
    <3>2. ASSUME NEW k \in {"entered", "moved", "moveTo", "left"}, NEW x \in Where \union {None},
                 Send(k, Owner[c], x), k \in {"entered", "moved"} => x \in Where
          PROVE  /\ TrackedBy(queue, center[p], p) => TrackedBy(queue', center[p], p)
                 /\ ReleasedBy(queue, center[p], p) => ReleasedBy(queue', center[p], p)
      <4> DEFINE m == [kind |-> k, who |-> Owner[c], at |-> x]
      <4>1. queue' = Append(queue, m)
        BY <3>2 DEF Send
      <4>2. m \in Notice /\ m.who # p
        BY <1>1, <1>3, <3>2 DEF Notice, Command
      <4> HIDE DEF m
      <4> QED BY <1>1, <4>1, <4>2, AppendNotices
    <3> QED BY <3>1, <3>2
  <2> QED BY <2>1, <2>2, <2>3 DEF RegionKept
<1> QED BY <1>2, <1>3

(* A login that finds no other session, the entry into the world, and the ways out. *)
LEMMA SessionsKeepRegions ==
  ASSUME PresenceInv, WorldInv', NEW c \in Conns, Session(c) \/ GotoLobby(c), UNCHANGED disturbed
  PROVE  PresenceInv'
<1> DEFINE p == Owner[c]
<1>1. /\ conn \in [Conns -> ConnState] /\ conn' \in [Conns -> ConnState] /\ queue \in Seq(Notice)
      /\ p \in Chars /\ pos[p] \in Where /\ disturbed \subseteq Chars
  BY WorldAssumption DEF PresenceInv, WorldInv, ConnsTyped, WorldTyped
<1>2. /\ center' = center
      /\ \A q \in Chars \ {p} : q \in inWorld' <=> q \in inWorld
      /\ \A d \in Conns \ {c} : conn'[d] = conn[d]
      /\ queue' = queue \/ Send("entered", p, pos[p]) \/ Send("left", p, None)
  BY <1>1 DEF Session, Login, CharacterSelect, EnterWorld, Entered, Logout, Restart, Leave, Left, GotoLobby,
     Remove, Go, registry, loop
<1>3. /\ \A d \in Conns : Owner[d] # p /\ Owner[d] \notin disturbed => Orderly(d)'
      /\ \A q \in Chars \ disturbed : q # p => RegionKept(q)'
  <2>1. queue' = queue \/ (\E k \in {"entered", "moved", "moveTo", "left"}, x \in Where \union {None} :
                              Send(k, p, x) /\ (k \in {"entered", "moved"} => x \in Where))
    BY <1>1, <1>2
  <2> QED BY <1>2, <2>1, OthersKept
<1>4. ASSUME p \notin disturbed
      PROVE  (\A d \in Conns : Owner[d] = p => Orderly(d)') /\ RegionKept(p)'
  <2> DEFINE x == center[p]
  <2>0. Owner[c] \notin disturbed
    BY <1>4
  <2>1. conn[c].pc \notin {"new", "gone"} \/ Rivals(c) = {}
    BY DEF Session, Login, CharacterSelect, EnterWorld, Entered, Logout, Restart, Leave, Left, GotoLobby, At
  <2>2. Orderly(c) /\ IF p \in inWorld /\ conn[c].pc \in InGameSteps
                      THEN TrackedBy(queue, x, p) ELSE ReleasedBy(queue, x, p)
    BY <1>4, <2>1, OwnNow
  <2> HIDE DEF p
  <2>3. /\ conn'[c].pc \notin {"kick", "kicked"} /\ conn'[c].live = Live(conn'[c])
        /\ conn'[c].pc \in {"enter", "sync", "move", "tell", "leave", "restart"} => p \in inWorld'
        /\ IF p \in inWorld' /\ conn'[c].pc \in InGameSteps
           THEN TrackedBy(queue', x, p) ELSE ReleasedBy(queue', x, p)
    <3>1. CASE Login(c)
      <4>1. conn'[c].pc = "authed" /\ conn'[c].live = TRUE /\ queue' = queue /\ conn[c].pc = "new"
        BY <1>1, <3>1 DEF Login, At
      <4> QED BY <2>2, <4>1 DEF InGameSteps, Live
    <3>2. CASE CharacterSelect(c) \/ GotoLobby(c)
      <4>1. conn' = conn /\ queue' = queue /\ conn[c].pc = "authed"
        BY <3>2 DEF CharacterSelect, GotoLobby, At
      <4> QED BY <2>2, <4>1 DEF InGameSteps, Live, Orderly
    <3>3. CASE EnterWorld(c)
      <4>1. /\ conn'[c].pc = (IF p \in inWorld THEN "enter" ELSE "ingame") /\ conn'[c].live = conn[c].live
            /\ queue' = queue /\ inWorld' = inWorld /\ conn[c].pc = "authed"
        BY <1>1, <3>3 DEF EnterWorld, Go, At, registry, p, ConnState
      <4> QED BY <2>2, <4>1 DEF InGameSteps, Live, Orderly
    <3>4. CASE Entered(c)
      <4>1. conn[c].pc = "enter" /\ inWorld' = inWorld /\ Send("entered", p, pos[p]) /\ Go(c, Resume(c))
        BY <3>4 DEF Entered, At, registry, p
      <4>2. conn[c].live /\ p \in inWorld
        BY <2>2, <4>1 DEF Orderly, Live, p
      <4>3. conn'[c].pc = "ingame" /\ conn'[c].live = conn[c].live
        BY <1>1, <4>1, <4>2 DEF Go, Resume, ConnState
      <4>4. TrackedBy(queue', x, p)
        <5> DEFINE m == [kind |-> "entered", who |-> p, at |-> pos[p]]
        <5>1. queue' = Append(queue, m)
          BY <4>1 DEF Send
        <5>2. m \in Notice /\ m.kind = "entered" /\ m.who = p
          BY <1>1 DEF Notice, Command
        <5> HIDE DEF m
        <5> QED BY <1>1, <5>1, <5>2, AppendNotices
      <4> QED BY <2>2, <4>1, <4>2, <4>3, <4>4 DEF Orderly, Live, InGameSteps
    <3>5. ASSUME NEW next \in {"leave", "restart"}, Leave(c, next)
          PROVE  /\ conn'[c].pc \notin {"kick", "kicked"} /\ conn'[c].live = Live(conn'[c])
                 /\ conn'[c].pc \in {"enter", "sync", "move", "tell", "leave", "restart"} => p \in inWorld'
                 /\ IF p \in inWorld' /\ conn'[c].pc \in InGameSteps
                    THEN TrackedBy(queue', x, p) ELSE ReleasedBy(queue', x, p)
      <4>0. conn[c].pc \in {"authed", "ingame"} /\ inWorld' = inWorld
        BY <3>5 DEF Leave, registry
      <4>1. CASE p \in inWorld
        <5>1. Send("left", p, None) /\ conn'[c].pc = next /\ conn'[c].live = conn[c].live
          BY <1>1, <3>5, <4>1 DEF Leave, Go, ConnState, p
        <5>2. ReleasedBy(queue', x, p)
          <6> DEFINE m == [kind |-> "left", who |-> p, at |-> None]
          <6>1. queue' = Append(queue, m)
            BY <5>1 DEF Send
          <6>2. m \in Notice /\ m.kind = "left" /\ m.who = p
            BY <1>1 DEF Notice, Command
          <6> HIDE DEF m
          <6> QED BY <1>1, <6>1, <6>2, AppendNotices
        <5> QED BY <2>2, <4>0, <4>1, <5>1, <5>2 DEF Orderly, Live, InGameSteps
      <4>2. CASE p \notin inWorld
        <5>1. /\ queue' = queue /\ conn'[c].pc = (IF next = "leave" THEN "gone" ELSE "authed")
              /\ conn'[c].live = (conn[c].live /\ next # "leave")
          BY <1>1, <3>5, <4>2 DEF Leave, ConnState, p
        <5> QED BY <2>2, <4>0, <4>2, <5>1 DEF Orderly, Live, InGameSteps
      <4> QED BY <4>1, <4>2
    <3>6. CASE Left(c)
      <4>1. /\ conn[c].pc \in {"leave", "restart"} /\ queue' = queue
            /\ conn'[c].pc = (IF ~conn[c].live THEN "kicked" ELSE IF conn[c].pc = "leave" THEN "gone" ELSE "authed")
            /\ conn'[c].live = (conn[c].live /\ ~(conn[c].pc = "leave"))
        BY <1>1, <3>6 DEF Left, At, ConnState
      <4> QED BY <2>2, <4>1 DEF Orderly, Live, InGameSteps
    <3> QED BY <3>1, <3>2, <3>3, <3>4, <3>5, <3>6 DEF Session, Logout, Restart
  <2>4. center'[p] = x
    BY <1>2
  <2> QED BY <1>1, <1>2, <2>0, <2>1, <2>3, <2>4, OwnKept DEF p
<1> QED BY <1>1, <1>3, <1>4 DEF PresenceInv, SessionsKept, RegionsKept

(* What a player does while in play: the loop hears where it is, never that it left. *)
LEMMA MotionKeepsRegions ==
  ASSUME PresenceInv, WorldInv', NEW c \in Conns, Motion(c), UNCHANGED disturbed
  PROVE  PresenceInv'
<1> DEFINE p == Owner[c]
<1>1. /\ conn \in [Conns -> ConnState] /\ conn' \in [Conns -> ConnState] /\ queue \in Seq(Notice)
      /\ p \in Chars /\ pos[p] \in Where /\ disturbed \subseteq Chars
  BY WorldAssumption DEF PresenceInv, WorldInv, ConnsTyped, WorldTyped
<1>2. conn[c].pc \in {"sync", "move"} => conn[c].at \in Where
  BY <1>1, ConnSteps
<1> DEFINE Plays ==
      /\ center' = center /\ inWorld' = inWorld /\ \A d \in Conns \ {c} : conn'[d] = conn[d]
      /\ conn[c].pc \in InGameSteps /\ (conn[c].pc = "ingame" => p \in inWorld)
      /\ conn'[c].live = conn[c].live
      /\ conn'[c].pc \in InGameSteps \/ conn'[c].pc = Resume(c)
      /\ queue' = queue \/ \E k \in {"entered", "moved", "moveTo"}, x \in Where \union {None} :
                             Send(k, p, x) /\ (k \in {"entered", "moved"} => x \in Where)
<1>3. Plays
  <2>1. ASSUME NEW x \in Where, NEW y \in Where, MoveBackward(c, x, y) PROVE Plays
    <3>1. /\ center' = center /\ inWorld' = inWorld /\ queue' = queue /\ p \in inWorld /\ conn[c].pc = "ingame"
          /\ GoWith(c, "move", y)
      BY <2>1 DEF MoveBackward, Playing, At, loop
    <3>2. conn'[c].pc = "move" /\ conn'[c].live = conn[c].live /\ \A d \in Conns \ {c} : conn'[d] = conn[d]
      BY <1>1, <3>1 DEF GoWith, ConnState
    <3> QED BY <3>1, <3>2 DEF InGameSteps
  <2>2. CASE StartMovement(c)
    <3>1. /\ center' = center /\ inWorld' = inWorld /\ queue' = queue /\ conn[c].pc = "move"
          /\ Go(c, Resume(c)) \/ Go(c, "tell")
      BY <2>2 DEF StartMovement, At, loop, registry
    <3>2. /\ conn'[c].pc \in {Resume(c), "tell"} /\ conn'[c].live = conn[c].live
          /\ \A d \in Conns \ {c} : conn'[d] = conn[d]
      BY <1>1, <3>1 DEF Go, ConnState
    <3> QED BY <3>1, <3>2 DEF InGameSteps
  <2>3. CASE TellMove(c)
    <3>1. /\ center' = center /\ inWorld' = inWorld /\ conn[c].pc = "tell" /\ Go(c, Resume(c))
          /\ Send("moveTo", p, None)
      BY <2>3 DEF TellMove, At, loop, registry
    <3>2. conn'[c].pc = Resume(c) /\ conn'[c].live = conn[c].live /\ \A d \in Conns \ {c} : conn'[d] = conn[d]
      BY <1>1, <3>1 DEF Go, ConnState
    <3> QED BY <3>1, <3>2 DEF InGameSteps
  <2>4. ASSUME NEW x \in Where, ValidatePosition(c, x) PROVE Plays
    <3>1. /\ center' = center /\ inWorld' = inWorld /\ queue' = queue /\ p \in inWorld /\ conn[c].pc = "ingame"
          /\ conn' = conn \/ GoWith(c, "sync", x)
      BY <2>4 DEF ValidatePosition, Playing, At, loop
    <3>2. /\ conn'[c].pc \in {"ingame", "sync"} /\ conn'[c].live = conn[c].live
          /\ \A d \in Conns \ {c} : conn'[d] = conn[d]
      BY <1>1, <3>1 DEF GoWith, ConnState
    <3> QED BY <3>1, <3>2 DEF InGameSteps
  <2>5. ASSUME NEW x \in Where, CannotMoveAnymore(c, x) PROVE Plays
    BY <2>5 DEF CannotMoveAnymore, Playing, At, loop, InGameSteps
  <2>6. CASE SyncPosition(c)
    <3>1. /\ center' = center /\ inWorld' = inWorld /\ conn[c].pc = "sync" /\ Go(c, Resume(c))
          /\ Send("moved", p, conn[c].at)
      BY <2>6 DEF SyncPosition, At, loop, registry
    <3>2. conn'[c].pc = Resume(c) /\ conn'[c].live = conn[c].live /\ \A d \in Conns \ {c} : conn'[d] = conn[d]
      BY <1>1, <3>1 DEF Go, ConnState
    <3> QED BY <1>2, <3>1, <3>2 DEF InGameSteps
  <2>7. CASE Appearing(c)
    <3>1. /\ center' = center /\ inWorld' = inWorld /\ p \in inWorld /\ conn[c].pc = "ingame" /\ conn' = conn
          /\ Send("entered", p, pos[p])
      BY <2>7 DEF Appearing, Playing, At, loop, registry
    <3> QED BY <1>1, <3>1 DEF InGameSteps
  <2> QED BY <2>1, <2>2, <2>3, <2>4, <2>5, <2>6, <2>7 DEF Motion
<1>4. /\ \A d \in Conns : Owner[d] # p /\ Owner[d] \notin disturbed => Orderly(d)'
      /\ \A q \in Chars \ disturbed : q # p => RegionKept(q)'
  <2>1. queue' = queue \/ (\E k \in {"entered", "moved", "moveTo", "left"}, x \in Where \union {None} :
                              Send(k, p, x) /\ (k \in {"entered", "moved"} => x \in Where))
    BY <1>3
  <2> HIDE DEF p
  <2>2. /\ \A q \in Chars \ {p} : q \in inWorld' <=> q \in inWorld
        /\ \A d \in Conns : Owner[d] # p => conn'[d] = conn[d]
    BY <1>3 DEF p
  <2> QED BY <1>3, <2>1, <2>2, OthersKept DEF p
<1>5. ASSUME p \notin disturbed
      PROVE  (\A d \in Conns : Owner[d] = p => Orderly(d)') /\ RegionKept(p)'
  <2> DEFINE x == center[p]
  <2>1. conn[c].pc \notin {"new", "gone"}
    BY <1>3 DEF InGameSteps
  <2>2. Orderly(c) /\ IF p \in inWorld /\ conn[c].pc \in InGameSteps
                      THEN TrackedBy(queue, x, p) ELSE ReleasedBy(queue, x, p)
    BY <1>5, <2>1, OwnNow
  <2>3. conn[c].live /\ p \in inWorld
    BY <1>3, <2>1, <2>2 DEF Orderly, Live, InGameSteps
  <2>4. TrackedBy(queue', x, p)
    <3>1. CASE queue' = queue
      BY <1>3, <2>2, <2>3, <3>1
    <3>2. ASSUME NEW k \in {"entered", "moved", "moveTo"}, NEW y \in Where \union {None},
                 Send(k, p, y), k \in {"entered", "moved"} => y \in Where
          PROVE  TrackedBy(queue', x, p)
      <4> DEFINE m == [kind |-> k, who |-> p, at |-> y]
      <4>1. queue' = Append(queue, m)
        BY <3>2 DEF Send
      <4>2. m \in Notice /\ m.kind # "left"
        BY <1>1, <3>2 DEF Notice, Command
      <4>3. TrackedBy(queue, x, p)
        BY <1>3, <2>2, <2>3
      <4> HIDE DEF m, p, x
      <4> QED BY <1>1, <4>1, <4>2, <4>3, AppendNotices
    <3> QED BY <1>3, <3>1, <3>2
  <2>5. conn'[c].pc \in InGameSteps
    BY <1>3, <2>3 DEF Resume, InGameSteps
  <2> HIDE DEF p
  <2>6. /\ conn'[c].pc \notin {"kick", "kicked"} /\ conn'[c].live = Live(conn'[c])
        /\ conn'[c].pc \in {"enter", "sync", "move", "tell", "leave", "restart"} => p \in inWorld'
    BY <1>3, <2>1, <2>2, <2>3, <2>5 DEF Live, Orderly, InGameSteps
  <2>7. p \in inWorld' /\ center'[p] = x
    BY <1>3, <2>3
  <2> QED BY <1>1, <1>3, <1>5, <2>1, <2>4, <2>5, <2>6, <2>7, OwnKept DEF p
<1> QED BY <1>1, <1>4, <1>5 DEF PresenceInv, SessionsKept, RegionsKept

(* A take-over and a refused restart touch the player they disturb, and no other. *)
LEMMA DisturbKeepsRegions ==
  ASSUME PresenceInv, WorldInv', NEW c \in Conns, Disturb(c)
  PROVE  PresenceInv'
<1> DEFINE p == Owner[c]
<1>1. /\ conn \in [Conns -> ConnState] /\ p \in Chars /\ disturbed' = disturbed \union {p}
      /\ disturbed \subseteq Chars
  BY WorldAssumption DEF PresenceInv, WorldInv, ConnsTyped, Disturb
<1>2. /\ center' = center
      /\ queue' = queue \/ Send("left", p, None)
      /\ \A q \in Chars \ {p} : q \in inWorld' <=> q \in inWorld
  BY DEF Disturb, KickExistingSession, KickRemove, RestartRefused, Remove, loop, registry
<1>3. \A d \in Conns : Owner[d] # p => conn'[d] = conn[d]
  <2>1. CASE KickExistingSession(c)
    <3> DEFINE rest(d) == [conn[d] EXCEPT !.live = @ /\ d \notin Rivals(c),
                             !.pc = IF d \in Rivals(c) /\ @ \in {"authed", "ingame"} THEN "kicked" ELSE @]
               detached == [d \in Conns |-> rest(d)]
    <3>1. conn' = [detached EXCEPT ![c].pc = IF Owner[c] \in inWorld THEN "kick" ELSE "authed", ![c].live = TRUE]
      BY <2>1 DEF KickExistingSession
    <3>2. \A d \in Conns : d \notin Rivals(c) => rest(d) = conn[d]
      BY <1>1 DEF ConnState
    <3> HIDE DEF rest
    <3>3. \A d \in Conns \ {c} : conn'[d] = rest(d)
      BY <3>1
    <3> QED BY <3>2, <3>3 DEF Rivals
  <2>2. CASE KickRemove(c) \/ RestartRefused(c)
    <3>1. conn' = conn \/ conn' = [conn EXCEPT ![c].pc = "authed"]
      BY <2>2 DEF KickRemove, RestartRefused, Go
    <3>2. \A d \in Conns \ {c} : conn'[d] = conn[d]
      BY <1>1, <3>1
    <3> QED BY <3>2
  <2> QED BY <2>1, <2>2 DEF Disturb
<1>4. queue' = queue \/ (\E k \in {"entered", "moved", "moveTo", "left"}, x \in Where \union {None} :
                            Send(k, p, x) /\ (k \in {"entered", "moved"} => x \in Where))
  BY <1>2
<1> HIDE DEF p
<1>5. /\ \A d \in Conns : Owner[d] # p /\ Owner[d] \notin disturbed => Orderly(d)'
      /\ \A q \in Chars \ disturbed : q # p => RegionKept(q)'
  BY <1>2, <1>3, <1>4, OthersKept DEF p
<1> QED BY <1>1, <1>5 DEF PresenceInv, SessionsKept, RegionsKept

(* The loop takes the commands in their order. *)
LEMMA LoopKeepsRegions ==
  ASSUME PresenceInv, WorldInv', Loop, UNCHANGED disturbed
  PROVE  PresenceInv'
<1>1. conn' = conn /\ inWorld' = inWorld
  BY DEF Loop, HandleEntered, HandleMoved, HandleMoveTo, HandleLeft, AdvancePlayer, Approach, TeleportPlayer,
         Decay, Respawn, registry
<1>2. /\ queue \in Seq(Notice) /\ center \in [Chars -> Regions \union {None}] /\ ConnsTyped
      /\ SessionsKept /\ RegionsKept /\ disturbed \subseteq Chars
  BY DEF PresenceInv, WorldInv, ConnsTyped, ActiveTyped
<1>3. None \notin Regions
  BY PlacesAreInts, RegionIsInt, WorldAssumption DEF Regions
<1>4. ASSUME NEW p \in Chars
      PROVE  /\ TrackedBy(queue, center[p], p) => TrackedBy(queue', center'[p], p)
             /\ ReleasedBy(queue, center[p], p) => ReleasedBy(queue', center'[p], p)
  <2> DEFINE m == Head(queue)
  <2>1. ASSUME NEW k \in {"entered", "moved"}, Takes(k), Track(m.who, RegionOf(m.at))
        PROVE  /\ TrackedBy(queue, center[p], p) => TrackedBy(queue', center'[p], p)
               /\ ReleasedBy(queue, center[p], p) => ReleasedBy(queue', center'[p], p)
    <3>1. m.at \in Where /\ m.kind = k /\ queue # <<>> /\ queue' = Tail(queue)
      BY <1>2, <2>1, TakesKeep DEF Takes
    <3>2. RegionOf(m.at) \in Regions
      BY <3>1, PlacesAreInts
    <3> HIDE DEF m
    <3>3. center'[p] = (IF p = m.who THEN RegionOf(m.at) ELSE center[p])
      BY <1>2, <2>1 DEF Track
    <3>4. IF p = m.who THEN center'[p] # None ELSE center'[p] = center[p]
      BY <1>3, <3>2, <3>3
    <3> HIDE DEF TrackedBy, ReleasedBy
    <3> QED BY <1>2, <3>1, <3>4, TailNotices DEF m
  <2>2. CASE HandleEntered
    BY <2>1, <2>2 DEF HandleEntered
  <2>3. CASE HandleMoved
    BY <2>1, <2>3 DEF HandleMoved
  <2>4. CASE HandleMoveTo
    <3>1. m.kind = "moveTo" /\ queue # <<>> /\ queue' = Tail(queue) /\ center' = center
      BY <2>4 DEF HandleMoveTo, Takes, loop
    <3> QED BY <1>2, <3>1, TailNotices
  <2>5. CASE HandleLeft
    <3>1. m.kind = "left" /\ queue # <<>> /\ queue' = Tail(queue) /\ Track(m.who, None)
      BY <2>5 DEF HandleLeft, Takes
    <3> HIDE DEF m
    <3>2. center'[p] = (IF p = m.who THEN None ELSE center[p])
      BY <1>2, <3>1 DEF Track
    <3> QED BY <1>2, <3>1, <3>2, TailNotices DEF m
  <2>6. CASE UNCHANGED <<queue, center>>
    BY <2>6
  <2> QED BY <2>2, <2>3, <2>4, <2>5, <2>6
          DEF Loop, AdvancePlayer, Approach, TeleportPlayer, Decay, Respawn, loop
<1>5. ASSUME NEW p \in Chars \ disturbed PROVE RegionKept(p)'
  <2>1. RegionKept(p)
    BY <1>2 DEF RegionsKept
  <2>2. InPlay(p)' <=> InPlay(p)
    BY <1>1 DEF InPlay
  <2> QED BY <1>4, <2>1, <2>2 DEF RegionKept
<1>6. SessionsKept'
  BY <1>1, <1>2 DEF SessionsKept, Orderly, Live
<1> QED BY <1>2, <1>5, <1>6 DEF PresenceInv, RegionsKept

LEMMA PresenceStarts == WorldInit => PresenceInv
<1> SUFFICES ASSUME WorldInit PROVE PresenceInv
  OBVIOUS
<1>1. \A c \in Conns : conn[c].pc = "new" /\ conn[c].live = FALSE
  BY DEF WorldInit
<1>2. SessionsKept
  BY <1>1 DEF SessionsKept, Orderly, Live
<1>3. ASSUME NEW p \in Chars PROVE RegionKept(p)
  <2>1. ~InPlay(p) /\ queue = <<>> /\ center[p] = None
    BY DEF WorldInit, InPlay
  <2>2. ReleasedBy(queue, center[p], p)
    BY <2>1 DEF ReleasedBy
  <2> QED BY <2>1, <2>2 DEF RegionKept
<1> QED BY <1>2, <1>3, WorldStarts DEF PresenceInv, RegionsKept, WorldInit

LEMMA PresenceSteps == PresenceInv /\ [WorldNext]_presenceVars => PresenceInv'
<1> SUFFICES ASSUME PresenceInv, [WorldNext]_presenceVars PROVE PresenceInv'
  OBVIOUS
<1>1. WorldInv'
  BY WorldSteps DEF PresenceInv
<1>2. ASSUME NEW c \in Conns, Session(c) \/ Motion(c) \/ GotoLobby(c), UNCHANGED disturbed PROVE PresenceInv'
  BY <1>1, <1>2, SessionsKeepRegions, MotionKeepsRegions
<1>3. ASSUME NEW c \in Conns, Disturb(c) PROVE PresenceInv'
  BY <1>1, <1>3, DisturbKeepsRegions
<1>4. CASE Loop /\ UNCHANGED disturbed
  BY <1>1, <1>4, LoopKeepsRegions
<1>5. CASE UNCHANGED presenceVars
  <2>1. UNCHANGED <<conn, queue, inWorld, center, disturbed>>
    BY <1>5 DEF presenceVars, registry, loop
  <2> QED BY <1>1, <2>1 DEF PresenceInv, SessionsKept, Orderly, Live, RegionsKept, RegionKept, InPlay
<1> QED BY <1>2, <1>3, <1>4, <1>5 DEF WorldNext

(* Released and tracked, as the run checks them. *)
LEMMA PresenceIsSound == PresenceInv => RegionsSound
<1> SUFFICES ASSUME PresenceInv PROVE RegionsSound
  OBVIOUS
<1>1. \A p \in Chars \ disturbed : RegionKept(p)
  BY DEF PresenceInv, RegionsKept
<1>2. ASSUME NEW p \in Chars \ (inWorld \union disturbed) PROVE center[p] = None \/ Pending("left", p)
  <2>1. ReleasedBy(queue, center[p], p)
    BY <1>1, <1>2 DEF RegionKept, InPlay
  <2> QED BY <2>1 DEF ReleasedBy, LeftAfter, Pending
<1>3. ASSUME NEW c \in Conns, Playing(c), Owner[c] \notin disturbed
      PROVE  center[Owner[c]] # None \/ Pending("entered", Owner[c])
  <2>1. Owner[c] \in Chars /\ InPlay(Owner[c])
    BY <1>3, WorldAssumption DEF Playing, At, InPlay, InGameSteps
  <2>2. TrackedBy(queue, center[Owner[c]], Owner[c])
    BY <1>1, <1>3, <2>1 DEF RegionKept
  <2> QED BY <2>2 DEF TrackedBy, Pending
<1> QED BY <1>2, <1>3 DEF RegionsSound, RegionsReleased, InGameTracked

-----------------------------------------------------------------------------
(* The theorems. *)

(* A range query over the region lists finds exactly the players and NPCs in
   range, wherever they moved and however often they entered or left
   (registry/world.go: getNearbyRegions, UpdatePlayerPosition). *)
THEOREM QueriesAreExact == WorldSpec => []QueriesExact
<1>1. WorldInv => QueriesExact
  <2>1. \A x \in Places : x \in Int
    BY PlacesAreInts
  <2>2. {0, Watch, Forget} \subseteq Nat
    BY WorldAssumption
  <2> QED BY <2>1, <2>2, Queries DEF WorldInv, QueriesExact
<1> QED BY <1>1, WorldStarts, WorldSteps, PTL DEF WorldSpec

(* PlayerCount of every region is the number of players whose block covers it,
   after any moves, teleports, departures and take-overs (gameloop/regions.go). *)
THEOREM RegionsAreCounted == WorldSpec => []RegionsCounted
<1>1. PresenceInv => RegionsCounted
  BY WorldInvIsTyped DEF PresenceInv, WorldInv, RegionsCounted
<1> QED BY <1>1, PresenceStarts, PresenceSteps, PTL DEF WorldSpec

(* Nothing keeps a region active for a player who left, and every player in the
   game is tracked or will be when the loop hears of the entry: in every
   interleaving of the goroutines with the loop, for every player no second login
   took over from and whose restart was not refused (gameloop/regions.go,
   handlers/client/logout.go). *)
THEOREM RegionsStaySound == WorldSpec => []RegionsSound
<1> QED BY PresenceStarts, PresenceSteps, PresenceIsSound, PTL DEF WorldSpec

(* Two players the loop has compared with their surroundings and who have not
   moved since see each other, in both directions (gameloop/visibility.go). *)
THEOREM NeighboursSee == WorldSpec => []FreshNeighboursSee
<1>1. WorldInv => FreshNeighboursSee
  BY DEF WorldInv
<1> QED BY <1>1, WorldStarts, WorldSteps, PTL DEF WorldSpec

-----------------------------------------------------------------------------
(* The target index. *)

(* What unlinking a player does to the reverse map, read key by key. *)
LEMMA UnlinkLemma ==
  ASSUME NEW f, NEW o, NEW p,
         f = [x \in DOMAIN f |-> f[x]],
         \A x \in DOMAIN f : f[x] # {}
  PROVE  LET g == Unlink(f, o, p)
         IN /\ g = [x \in DOMAIN g |-> g[x]]
            /\ DOMAIN g \subseteq DOMAIN f
            /\ \A x \in DOMAIN f : x # o => x \in DOMAIN g /\ g[x] = f[x]
            /\ o \in DOMAIN g => g[o] = f[o] \ {p}
            /\ o \in DOMAIN f \ DOMAIN g => f[o] \subseteq {p}
            /\ \A x \in DOMAIN g : g[x] # {}
<1>1. CASE o \notin DOMAIN f
  BY <1>1 DEF Unlink
<1>2. CASE o \in DOMAIN f /\ f[o] \subseteq {p}
  BY <1>2 DEF Unlink, Without
<1>3. CASE o \in DOMAIN f /\ ~(f[o] \subseteq {p})
  BY <1>3 DEF Unlink
<1> QED
  BY <1>1, <1>2, <1>3

-----------------------------------------------------------------------------
(* Set and DropTarget keep both maps well typed and inverses of each other. *)
IndexOK == 
  /\ current \in [Players -> Objects \cup {NoTarget}]
  /\ DOMAIN targeters \subseteq Objects
  /\ targeters = [o \in DOMAIN targeters |-> targeters[o]]
  /\ \A o \in DOMAIN targeters : targeters[o] \subseteq Players
  /\ IndexInverse

LEMMA SetKeepsIndex ==
  ASSUME IndexOK, NEW p \in Players, NEW t \in Objects \cup {NoTarget}, Set(p, t)
  PROVE  IndexOK'
<1> USE NoTargetAssumption
<1> DEFINE cut == Unlink(targeters, current[p], p)
<1>1. /\ current' \in [Players -> Objects \cup {NoTarget}]
      /\ current'[p] = t
      /\ \A q \in Players \ {p} : current'[q] = current[q]
  BY DEF IndexOK, Set
<1>2. CASE current[p] = t
  <2>1. current' = current /\ targeters' = targeters
    BY <1>2 DEF IndexOK, Set
  <2> QED
    BY <2>1 DEF IndexOK, IndexInverse, TargetersOf
<1>3. CASE current[p] # t
  <2>1. /\ cut = [x \in DOMAIN cut |-> cut[x]]
        /\ DOMAIN cut \subseteq DOMAIN targeters
        /\ \A x \in DOMAIN targeters : x # current[p] => x \in DOMAIN cut /\ cut[x] = targeters[x]
        /\ current[p] \in DOMAIN cut => cut[current[p]] = targeters[current[p]] \ {p}
        /\ current[p] \in DOMAIN targeters \ DOMAIN cut => targeters[current[p]] \subseteq {p}
        /\ \A x \in DOMAIN cut : cut[x] # {}
    BY UnlinkLemma DEF IndexOK, IndexInverse
  <2>2. \A o \in DOMAIN targeters : targeters[o] = {q \in Players : current[q] = o}
    BY DEF IndexOK, IndexInverse, TargetersOf
  <2>3. \A o \in Objects \ DOMAIN targeters, q \in Players : current[q] # o
    BY DEF IndexOK, IndexInverse, TargetersOf
  <2>4. \A o \in DOMAIN cut : cut[o] = {q \in Players \ {p} : current[q] = o}
    BY <2>1, <2>2
  <2>5. \A o \in Objects \ DOMAIN cut, q \in Players \ {p} : current[q] # o
    BY <2>1, <2>2, <2>3
  <2>6. CASE t = NoTarget
    <3>1. targeters' = cut
      BY <1>3, <2>6 DEF Set
    <3> QED
      BY <1>1, <2>1, <2>4, <2>5, <2>6, <3>1 DEF IndexOK, IndexInverse, TargetersOf
  <2>7. CASE t # NoTarget
    <3>1. targeters' = Link(cut, t, p)
      BY <1>3, <2>7 DEF Set
    <3>2. /\ targeters' = [x \in DOMAIN targeters' |-> targeters'[x]]
          /\ DOMAIN targeters' = DOMAIN cut \cup {t}
          /\ \A x \in DOMAIN cut : x # t => targeters'[x] = cut[x]
          /\ t \in DOMAIN cut => targeters'[t] = cut[t] \cup {p}
          /\ t \notin DOMAIN cut => targeters'[t] = {p}
      <4> HIDE DEF cut
      <4> QED
        BY <3>1 DEF Link
    <3>3. t \in Objects
      BY <2>7
    <3>4. \A o \in DOMAIN targeters' : targeters'[o] = {q \in Players : current'[q] = o}
      BY <1>1, <2>4, <2>5, <3>2, <3>3
    <3>5. \A o \in Objects \ DOMAIN targeters', q \in Players : current'[q] # o
      BY <1>1, <2>5, <3>2
    <3>6. \A o \in DOMAIN targeters' : targeters'[o] # {}
      BY <2>1, <3>2
    <3> QED
      BY <1>1, <2>1, <3>2, <3>3, <3>4, <3>5, <3>6 DEF IndexOK, IndexInverse, TargetersOf
  <2> QED
    BY <2>6, <2>7
<1> QED
  BY <1>2, <1>3

LEMMA DropKeepsIndex ==
  ASSUME IndexOK, NEW o \in Objects, DropTarget(o)
  PROVE  IndexOK'
<1> USE NoTargetAssumption
<1>1. CASE o \notin DOMAIN targeters
  BY <1>1 DEF DropTarget, index, IndexOK, IndexInverse, TargetersOf
<1>2. CASE o \in DOMAIN targeters
  <2>1. \A x \in DOMAIN targeters : targeters[x] = {q \in Players : current[q] = x}
    BY DEF IndexOK, IndexInverse, TargetersOf
  <2>2. current' = [p \in Players |-> IF current[p] = o THEN NoTarget ELSE current[p]]
    BY <1>2, <2>1 DEF DropTarget
  <2>3. /\ targeters' = [x \in DOMAIN targeters' |-> targeters'[x]]
        /\ DOMAIN targeters' = DOMAIN targeters \ {o}
        /\ \A x \in DOMAIN targeters' : targeters'[x] = targeters[x]
    BY <1>2 DEF DropTarget, Without
  <2>4. \A x \in Objects \ DOMAIN targeters, q \in Players : current[q] # x
    BY DEF IndexOK, IndexInverse, TargetersOf
  <2> QED
    BY <2>1, <2>2, <2>3, <2>4 DEF IndexOK, IndexInverse, TargetersOf
<1> QED
  BY <1>1, <1>2

-----------------------------------------------------------------------------
WorldOK ==
  /\ world \subseteq Objects
  /\ unborn \subseteq Npcs
  /\ selected \in [Players -> Objects \cup {NoTarget}]
  /\ setting \subseteq Call
  /\ removing \in Players \cup {NoTarget}

IndInv == WorldOK /\ IndexOK

LEMMA Initially == Init => IndInv
<1> SUFFICES ASSUME Init PROVE IndInv
  OBVIOUS
<1>1. WorldOK
  BY DEF Init, WorldOK
<1>2. DOMAIN targeters = {} /\ targeters = [o \in DOMAIN targeters |-> targeters[o]]
  BY DEF Init
<1>3. IndexOK
  BY <1>2, NoTargetAssumption DEF Init, IndexOK, IndexInverse, TargetersOf
<1> QED
  BY <1>1, <1>3 DEF IndInv

(* The steps that leave the index alone. *)
LEMMA IndexUnchanged ==
  ASSUME IndexOK, UNCHANGED index
  PROVE  IndexOK'
BY DEF IndexOK, index, IndexInverse, TargetersOf

LEMMA Inductive == IndInv /\ [Next]_vars => IndInv'
<1> SUFFICES ASSUME IndInv, [Next]_vars PROVE IndInv'
  OBVIOUS
<1> USE NoTargetAssumption DEF IndInv
<1>1. ASSUME NEW p \in Players, NEW t \in Objects, Select(p, t) PROVE IndInv'
  BY <1>1, IndexUnchanged DEF Select, Calling, Call, WorldOK, worldVars
<1>2. ASSUME NEW p \in Players, CancelTarget(p) PROVE IndInv'
  BY <1>2, IndexUnchanged DEF CancelTarget, Calling, Call, WorldOK, worldVars
<1>3. ASSUME NEW p \in Players, Teleport(p) PROVE IndInv'
  BY <1>3, IndexUnchanged DEF Teleport, Calling, Call, WorldOK, worldVars
<1>4. ASSUME NEW p \in Players, AddPlayer(p) PROVE IndInv'
  BY <1>4, IndexUnchanged DEF AddPlayer, WorldOK, Objects
<1>5. ASSUME NEW p \in Players, RemovePlayer(p) PROVE IndInv'
  <2>1. IndexOK'
    BY <1>5, SetKeepsIndex DEF RemovePlayer
  <2>2. WorldOK'
    BY <1>5 DEF RemovePlayer, WorldOK
  <2> QED
    BY <2>1, <2>2
<1>6. ASSUME NEW n \in Npcs, AddNPC(n) PROVE IndInv'
  BY <1>6, IndexUnchanged DEF AddNPC, WorldOK, Objects
<1>7. ASSUME NEW n \in Npcs, RemoveNPC(n) PROVE IndInv'
  <2>1. IndexOK'
    BY <1>7, DropKeepsIndex DEF RemoveNPC, Objects
  <2>2. WorldOK'
    BY <1>7 DEF RemoveNPC, WorldOK
  <2> QED
    BY <2>1, <2>2
<1>8. ASSUME NEW c \in setting, WriteTargetID(c) PROVE IndInv'
  BY <1>8, IndexUnchanged DEF WriteTargetID, WorldOK, Call
<1>9. ASSUME NEW c \in setting, WriteIndex(c) PROVE IndInv'
  <2>1. c.player \in Players /\ c.target \in Objects \cup {NoTarget}
    BY DEF WorldOK, Call
  <2>2. IndexOK'
    BY <1>9, <2>1, SetKeepsIndex DEF WriteIndex
  <2>3. WorldOK'
    BY <1>9 DEF WriteIndex, WorldOK, worldVars
  <2> QED
    BY <2>2, <2>3
<1>10. ASSUME RemovedPlayer PROVE IndInv'
  <2>1. removing \in Objects
    BY <1>10 DEF RemovedPlayer, Unlocked, WorldOK, Objects
  <2>2. IndexOK'
    BY <1>10, <2>1, DropKeepsIndex DEF RemovedPlayer
  <2>3. WorldOK'
    BY <1>10 DEF RemovedPlayer, WorldOK
  <2> QED
    BY <2>2, <2>3
<1>11. ASSUME UNCHANGED vars PROVE IndInv'
  BY <1>11, IndexUnchanged DEF vars, worldVars, WorldOK
<1> QED
  BY <1>1, <1>2, <1>3, <1>4, <1>5, <1>6, <1>7, <1>8, <1>9, <1>10, <1>11 DEF Next

LEMMA Invariance == Spec => []IndInv
BY Initially, Inductive, PTL DEF Spec

(* The types, for any number of players and NPCs. *)
THEOREM IndexTypeCorrect == Spec => []TypeOK
<1>1. IndInv => TypeOK
  BY DEF IndInv, WorldOK, IndexOK, TypeOK
<1> QED
  BY <1>1, Invariance, PTL

(* The two maps of targetIndex stay inverses of each other and hold no empty
   set, whatever world changes and SetPlayerTarget calls interleave. *)
THEOREM IndexIsInverse == Spec => []IndexInverse
<1>1. IndInv => IndexInverse
  BY DEF IndInv, IndexOK
<1> QED
  BY <1>1, Invariance, PTL

-----------------------------------------------------------------------------
(* Refinement. Under the invariant the reverse map holds a player under at most
   one object, its current target. *)
Mapped == [p \in Players |-> TargetByIndex(p)]

LEMMA MappedIsCurrent == IndexOK => Mapped = current
<1> SUFFICES ASSUME IndexOK, NEW p \in Players PROVE TargetByIndex(p) = current[p]
  BY DEF Mapped, IndexOK
<1> DEFINE held == {o \in DOMAIN targeters : p \in targeters[o]}
<1>1. held = {o \in Objects : o = current[p]}
  BY DEF IndexOK, IndexInverse, TargetersOf
<1>2. CASE current[p] = NoTarget
  BY <1>1, <1>2, NoTargetAssumption DEF TargetByIndex
<1>3. CASE current[p] # NoTarget
  <2>1. held = {current[p]}
    BY <1>1, <1>3 DEF IndexOK
  <2> QED
    BY <2>1 DEF TargetByIndex
<1> QED
  BY <1>2, <1>3

LEMMA MappedIsCurrentNext == IndexOK' => Mapped' = current'
<1>1. (IndexOK => Mapped = current)'
  BY MappedIsCurrent, PTL
<1> QED
  BY <1>1

(* An index operation is a step of the table. *)
LEMMA SetIsPoint ==
  ASSUME IndexOK, NEW p \in Players, NEW t \in Objects \cup {NoTarget}, Set(p, t)
  PROVE  Mapped' = [Mapped EXCEPT ![p] = t]
<1>1. Mapped = current
  BY MappedIsCurrent
<1>2. IndexOK'
  BY SetKeepsIndex
<1>3. Mapped' = current'
  BY <1>2, MappedIsCurrentNext
<1> QED
  BY <1>1, <1>3 DEF Set

LEMMA DropIsStrike ==
  ASSUME IndexOK, NEW o \in Objects, DropTarget(o)
  PROVE  Mapped' = [p \in Players |-> IF Mapped[p] = o THEN NoTarget ELSE Mapped[p]]
<1>1. Mapped = current
  BY MappedIsCurrent
<1>2. IndexOK'
  BY DropKeepsIndex
<1>3. Mapped' = current'
  BY <1>2, MappedIsCurrentNext
<1>4. current' = [p \in Players |-> IF current[p] = o THEN NoTarget ELSE current[p]]
  <2>1. TargetersOf(o) = {p \in Players : current[p] = o}
    BY DEF IndexOK, IndexInverse
  <2> QED
    BY <2>1 DEF DropTarget, TargetersOf, IndexOK, index
<1> QED
  BY <1>1, <1>3, <1>4

LEMMA TableStep == IndInv /\ [Next]_vars => [Table!Next]_Mapped
<1> SUFFICES ASSUME IndInv, [Next]_vars PROVE Table!Next \/ UNCHANGED Mapped
  OBVIOUS
<1>1. ASSUME UNCHANGED index PROVE UNCHANGED Mapped
  BY <1>1 DEF Mapped, TargetByIndex, index
<1>2. ASSUME NEW p \in Players, NEW t \in Objects \cup {NoTarget}, Set(p, t)
      PROVE  Table!Next
  BY <1>2, SetIsPoint DEF IndInv, Mapped, Table!Next, Table!Point
<1>3. ASSUME NEW o \in Objects, DropTarget(o) PROVE Table!Next
  <2>1. Mapped' = [p \in Players |-> IF Mapped[p] = o THEN NoTarget ELSE Mapped[p]]
    BY <1>3, DropIsStrike DEF IndInv
  <2>2. Table!Strike(o)
    BY <2>1 DEF Mapped, Table!Strike, Table!TargetingOf
  <2> QED
    BY <2>2 DEF Table!Next
<1>4. ASSUME NEW p \in Players, RemovePlayer(p) PROVE Table!Next
  BY <1>4, <1>2 DEF RemovePlayer
<1>5. ASSUME NEW n \in Npcs, RemoveNPC(n) PROVE Table!Next
  BY <1>5, <1>3 DEF RemoveNPC, Objects
<1>6. ASSUME NEW c \in setting, WriteIndex(c) PROVE Table!Next
  BY <1>6, <1>2 DEF WriteIndex, IndInv, WorldOK, Call
<1>7. ASSUME RemovedPlayer PROVE Table!Next
  BY <1>7, <1>3 DEF RemovedPlayer, Unlocked, IndInv, WorldOK, Objects
<1>8. \/ UNCHANGED index
      \/ \E p \in Players : RemovePlayer(p)
      \/ \E n \in Npcs : RemoveNPC(n)
      \/ \E c \in setting : WriteIndex(c)
      \/ RemovedPlayer
  BY DEF Next, vars, index, Select, CancelTarget, Teleport, AddPlayer, AddNPC, WriteTargetID
<1> QED
  BY <1>1, <1>4, <1>5, <1>6, <1>7, <1>8

(* Read through its reverse map alone, the index implements the table: a step
   moves one player, strikes one object, or changes nothing. *)
THEOREM IndexImplementsTable == Spec => ImplementsTable
<1>1. Init => Table!Init
  BY DEF Init, Table!Init, TargetByIndex
<1>2. IndInv /\ [Next]_vars => [Table!Next]_Mapped
  BY TableStep
<1> QED
  BY <1>1, <1>2, Invariance, PTL DEF Spec, ImplementsTable, Table!Spec, Mapped
=============================================================================
