---------------------------- MODULE ItemsProofs ----------------------------
(* What TLAPS proves of Items, for any objects, templates and starting rows and
   any number of failures and crashes: what is worn, that shots are conserved,
   what a use is paid with, and what the client knows of its bag. *)
EXTENDS Items, SumProofs, SequenceTheorems, TLAPS

---------------------------------------------------------------------------
(* What the goroutines hold. *)

Places == {<<s>> : s \in Slots} \union (Slots \X Slots)
Rolled == (Nat \ {0}) \X (Items \union {None})
Changes == UNION {[D -> Row \union {Gone}] : D \in SUBSET Items}
ConnSteps == {"idle", "clear", "equip", "show", "register", "consume", "roll", "grant",
              "weapon", "spend", "charge", "list", "report", "pay", "result"}
PassSteps == {"idle", "list", "weapon", "spend", "charge", "report"}

Use ==
  [at : ConnSteps, item : Items \union {None}, copy : Row \union {Gone},
   todo : {<<>>} \union Places \union (Nat \X (Items \union {None})),
   other : Slots \union Items \union {None, "used"}, ocopy : Row \union {Gone},
   changed : Changes, auto : BOOLEAN]

\* A copy of a row of the bag.
Stock(r) == r \in Row /\ r.slot = "bag"

\* An item on its way to a slot.
Donning(u, s) ==
  /\ u.item \in Items /\ Stock(u.copy)
  /\ Code(u.item) # "none" /\ (Code(u.item) = "lrhand" => s = "rhand")

\* What a goroutine knows at each step.
Holds(u) ==
  /\ u.at = "clear" => u.todo \in Places /\ (u.item # None => Donning(u, u.todo[Len(u.todo)]))
  /\ u.at = "equip" => u.other \in Slots /\ Donning(u, u.other)
  /\ u.at = "show" => u.other \in Slots \/ (u.other = "used" /\ u.item \in Items)
  /\ u.at \in {"register", "consume", "weapon", "spend", "charge", "roll", "grant", "pay", "result"} =>
       u.item \in Items /\ Stock(u.copy) /\ Code(u.item) = "none"
  /\ u.at \in {"weapon", "spend", "charge"} => u.item \in SoulShots
  /\ u.at = "register" => T[u.item].handler = "Recipes"
  /\ u.at = "consume" => T[u.item].handler \in {"ItemSkills", "ExtractableItems", "Recipes"}
  /\ u.at \in {"spend", "charge"} => u.other \in Items
  /\ u.at \in {"roll", "grant"} => u.other = "used"
  /\ u.at = "grant" => u.todo \in Rolled /\ (u.todo[2] # None => Stock(u.ocopy))
  /\ u.at \in {"pay", "result"} =>
       u.item \in Scrolls /\ u.other \in Items /\ T[u.other].type # "EtcItem" /\ Placed(u.other, u.ocopy)

HistoryFields == {"start", "mixed", "granted", "charges", "lost", "uses", "windows", "late",
                  "pays", "attempts", "failures", "crashes"}

Typed ==
  /\ ItemsTypeOK
  /\ use \in [Actors -> Use] /\ \A p \in Actors : Holds(use[p])
  /\ use.pass.at \in PassSteps
  /\ use.pass.at \in {"weapon", "spend", "charge"} => use.pass.auto
  /\ arm # None => arm \in Scrolls
  /\ \A i \in Items : Placed(i, rows[i])
  /\ use.conn.at = "grant" /\ use.conn.todo[2] # None => rows[use.conn.todo[2]].slot \notin Slots
  /\ DOMAIN h = HistoryFields /\ h.failures \in Nat

---------------------------------------------------------------------------
(* What is worn. *)

\* The rows once the slots are cleared and the item is on.
Dressed(u) ==
  [i \in Items |->
     IF i = u.item THEN [u.copy EXCEPT !.slot = u.todo[Len(u.todo)]]
     ELSE IF rows[i].slot \in {u.todo[k] : k \in DOMAIN u.todo} THEN [rows[i] EXCEPT !.slot = "bag"]
     ELSE rows[i]]

Slotted ==
  LET u == use.conn IN
  /\ Exclusive(rows)
  /\ u.at = "clear" /\ u.item # None => Exclusive(Dressed(u))
  /\ u.at = "equip" => Exclusive([rows EXCEPT ![u.item] = [u.copy EXCEPT !.slot = u.other]])
  /\ u.at \in {"pay", "result"} => Exclusive([rows EXCEPT ![u.other] = u.ocopy])

Matches(s) == doll[s] = Dolled(rows)[s] \/ (doll[s] # None /\ ~Live(doll[s]) /\ In(rows, s) = {})
Drawn ==
  /\ \A s \in Slots : doll[s] # None => rows[doll[s]] # Unborn
  /\ use.conn.at \notin {"clear", "equip", "show"} /\ h.failures = 0 => \A s \in Slots : Matches(s)
  /\ use.conn.at \in {"pay", "result"} =>
       use.conn.ocopy = Gone \/ use.conn.ocopy.slot = rows[use.conn.other].slot

---------------------------------------------------------------------------
(* What is paid. *)

Registered ==
  LET u == use.conn IN
  /\ h.start \in [Items -> Row \union {Gone, Unborn}] /\ RecipeNeverLost
  /\ u.at = "consume" /\ T[u.item].handler = "Recipes" => T[u.item].recipe \in book
  /\ u.at = "grant" /\ u.todo[2] # None /\ Live(u.todo[2]) /\ T[u.todo[2]].handler = "Recipes" =>
       rows[u.todo[2]].count <= u.ocopy.count

Paying ==
  /\ AttemptsArePaid
  /\ {h.attempts, h.pays} \subseteq Nat /\ h.windows \in {0, 1}
  /\ arm # None => h.windows = 1
  /\ use.conn.at = "pay" => h.windows = 1 /\ arm = None
  /\ use.conn.at = "result" => h.attempts < h.pays

Grouped(i, j) == i = j \/ (T[i].group # 0 /\ T[i].group = T[j].group)
\* A use that Show will stamp.
Using(u) ==
  \/ u.at \in {"register", "consume", "roll", "grant"}
  \/ u.at \in {"weapon", "spend", "charge"} /\ ~u.auto
  \/ u.at = "show" /\ u.other = "used"

Waiting ==
  LET u == use.conn IN
  /\ clock \in Nat /\ stamp \in [Items -> Nat]
  /\ h.uses \in Seq([item : Items, time : Nat])
  /\ ReuseRespected
  /\ \A a \in DOMAIN h.uses : LET i == h.uses[a].item IN stamp[i] >= h.uses[a].time + T[i].delay
  /\ Using(u) /\ T[u.item].delay > 0 => \A j \in Items : Grouped(u.item, j) => stamp[j] <= clock

---------------------------------------------------------------------------
(* What the client sees. *)

Untold(u) == u.at \in {"idle", "list", "weapon", "spend", "register", "consume", "pay"} => DOMAIN u.changed = {}

\* The copy that is to be written is the row.
Current(R, u) ==
  /\ u.at \in {"weapon", "spend", "register", "consume", "pay", "equip"} => R[u.item] = u.copy
  /\ u.at = "clear" /\ u.item # None => R[u.item] = u.copy
  /\ u.at = "grant" /\ u.todo[2] # None => R[u.todo[2]] = u.ocopy

\* What the connection does beside a recharge has nothing to do with shots.
Apart(u) ==
  /\ u.at \in {"clear", "equip", "show", "register", "consume", "pay", "result", "report"}
  /\ u.at = "consume" => T[u.item].handler # "ExtractableItems"
  /\ DOMAIN u.changed \intersect SoulShots = {}

\* What the client will have been told of a row.
Known(i) ==
  IF i \in DOMAIN use.conn.changed THEN use.conn.changed[i]
  ELSE IF i \in DOMAIN use.pass.changed THEN use.pass.changed[i]
  ELSE shown[i]

Seen ==
  /\ DOMAIN use.pass.changed \subseteq SoulShots
  /\ \A p \in Actors : Untold(use[p])
  /\ h.failures = 0 /\ ~h.late =>
       /\ \A p \in Actors : Current(rows, use[p])
       /\ use.conn.at # "idle" /\ use.pass.at # "idle" => Apart(use.conn)
       /\ \A i \in Items : rows[i] = Known(i)

---------------------------------------------------------------------------
(* What the shots are. *)

\* What the connection does beside a recharge leaves the shots alone.
Shotless(u) ==
  /\ u.at \notin {"list", "weapon", "spend", "charge", "roll", "grant"}
  /\ u.at = "consume" => T[u.item].handler # "ExtractableItems"

\* The copy of the shots, or of the reward's stack, that is to be written is the row.
Exact(R, u) ==
  /\ u.at \in {"weapon", "spend"} => R[u.item] = u.copy
  /\ u.at = "spend" => u.copy.count >= T[u.other].shots
  /\ u.at = "grant" /\ u.todo[2] # None => R[u.todo[2]] = u.ocopy /\ T[u.todo[2]].item = T[u.item].gives

Balanced ==
  /\ {h.charges, h.lost, h.granted} \subseteq Nat
  /\ ~h.mixed =>
       /\ use.pass.at # "idle" => Shotless(use.conn)
       /\ \A p \in Actors : Exact(rows, use[p])
       /\ ShotsOf(rows) + InFlight + h.charges + h.lost = ShotsOf(h.start) + h.granted

ItemsInv == Typed /\ Slotted /\ Drawn /\ Registered /\ Paying /\ Waiting /\ Seen /\ Balanced

---------------------------------------------------------------------------
(* The operators. *)

LEMMA KindsApart ==
  /\ \A i \in SoulShots : i \in Items /\ T[i].type = "EtcItem" /\ Code(i) = "none" /\ T[i].handler = "SoulShots"
  /\ \A i \in Scrolls : i \in Items /\ T[i].type = "EtcItem" /\ Code(i) = "none" /\ T[i].handler = "EnchantScrolls"
  /\ \A i \in Items : T[i].handler = "Recipes" => T[i].type = "EtcItem"
  /\ \A s, t \in Items : TypeMatches(s, t) => T[t].type # "EtcItem"
<1>1. \A i \in Items : T[i].body = "" => Code(i) = "none"
  BY DEF Code, BodyPartToCode
<1>2. \A s, t \in Items : TypeMatches(s, t) => T[t].type # "EtcItem"
  BY DEF TypeMatches, Type2
<1> QED BY <1>1, <1>2, TemplatesAssumption DEF SoulShots, Scrolls

LEMMA Stacked ==
  ASSUME NEW i \in AutoSoulShots, NEW j \in Stacks(i), Typed
  PROVE  j \in SoulShots /\ Stock(rows[j])
<1>1. PICK k \in SoulShots : T[k].item = i
  BY DEF AutoSoulShots
<1>2. j \in Items /\ Live(j) /\ T[j].item = i /\ rows[j].slot = "bag"
  BY DEF Stacks, GetByCharacter
<1>3. T[j] = T[k]
  BY <1>1, <1>2, TemplatesAssumption DEF SoulShots
<1> QED BY <1>1, <1>2, <1>3 DEF SoulShots, Stock, Typed, ItemsTypeOK, Live

LEMMA Writing ==
  ASSUME Typed, NEW i \in Items
  PROVE  /\ Delete(i) = Update(i, Gone)
         /\ \A r : Stock(r) => \A n \in Nat :
              /\ Consume(i, r, n) = Update(i, Less(r, n))
              /\ Less(r, n) = Gone \/ (Stock(Less(r, n)) /\ Less(r, n).count <= r.count)
         /\ \A r \in Row \union {Gone} : Update(i, r) \in [Items -> Row \union {Gone, Unborn}]
<1>1. Delete(i) = Update(i, Gone)
  BY DEF Delete, Update, Typed, ItemsTypeOK
<1>2. ASSUME NEW r, Stock(r), NEW n \in Nat
      PROVE  /\ Consume(i, r, n) = Update(i, Less(r, n))
             /\ Less(r, n) = Gone \/ (Stock(Less(r, n)) /\ Less(r, n).count <= r.count)
  BY <1>1, <1>2 DEF Consume, Less, Stock, Row
<1>3. \A r \in Row \union {Gone} : Update(i, r) \in [Items -> Row \union {Gone, Unborn}]
  BY DEF Update, Typed, ItemsTypeOK
<1> QED BY <1>1, <1>2, <1>3

LEMMA Overlaying ==
  ASSUME NEW f \in Changes
  PROVE  /\ DOMAIN f \subseteq Items /\ f \in [DOMAIN f -> Row \union {Gone}]
         /\ \A g \in Changes : Over(g, f) \in Changes
         /\ \A g \in [Items -> Row \union {Gone, Unborn}] : Over(f, g) \in [Items -> Row \union {Gone, Unborn}]
<1>1. DOMAIN f \subseteq Items /\ f \in [DOMAIN f -> Row \union {Gone}]
  BY DEF Changes
<1>2. ASSUME NEW g \in Changes PROVE Over(g, f) \in Changes
  <2>1. DOMAIN g \subseteq Items /\ g \in [DOMAIN g -> Row \union {Gone}]
    BY DEF Changes
  <2>2. Over(g, f) \in [DOMAIN g \union DOMAIN f -> Row \union {Gone}]
    BY <1>1, <2>1 DEF Over
  <2> QED BY <1>1, <2>1, <2>2 DEF Changes
<1>3. ASSUME NEW g \in [Items -> Row \union {Gone, Unborn}]
      PROVE  Over(f, g) \in [Items -> Row \union {Gone, Unborn}]
  BY <1>1 DEF Over
<1> QED BY <1>1, <1>2, <1>3

LEMMA Saying ==
  ASSUME NEW i \in Items, NEW r \in Row \union {Gone}, NEW f \in Changes
  PROVE  Over([j \in {i} |-> r], f) \in Changes
<1>1. [j \in {i} |-> r] \in [{i} -> Row \union {Gone}]
  OBVIOUS
<1>2. [j \in {i} |-> r] \in Changes
  BY <1>1 DEF Changes
<1> QED BY <1>2, Overlaying

LEMMA Idling ==
  /\ Idle \in Use /\ Holds(Idle) /\ Idle.at = "idle" /\ DOMAIN Idle.changed = {}
<1>1. [i \in {} |-> Gone] \in [{} -> Row \union {Gone}]
  OBVIOUS
<1>2. [i \in {} |-> Gone] \in Changes
  BY <1>1 DEF Changes
<1> QED BY <1>2 DEF Idle, Use, Holds, ConnSteps

LEMMA Beginning ==
  ASSUME NEW i \in Items, Stock(rows[i]), NEW k \in ConnSteps
  PROVE  /\ Consuming(i, k) \in Use /\ Consuming(i, k).at = k /\ Consuming(i, k).item = i
         /\ Consuming(i, k).copy = rows[i] /\ Consuming(i, k).other = None
         /\ Consuming(i, k).auto = FALSE /\ DOMAIN Consuming(i, k).changed = {}
         /\ Consuming(i, k).todo = <<>> /\ Consuming(i, k).ocopy = Gone
<1>1. Idle \in Use /\ DOMAIN Idle.changed = {}
  BY Idling
<1> QED BY <1>1 DEF Consuming, Use, Stock, Idle

LEMMA Going ==
  ASSUME use \in [Actors -> Use], NEW p \in Actors, NEW u \in Use, Go(p, u)
  PROVE  /\ use' \in [Actors -> Use] /\ use'[p] = u
         /\ \A q \in Actors \ {p} : use'[q] = use[q]
BY DEF Go

LEMMA PlacesSplit ==
  ASSUME NEW w \in Places
  PROVE  \/ \E s \in Slots : w = <<s>> /\ Len(w) = 1 /\ Head(w) = s /\ w[Len(w)] = s
                             /\ {w[k] : k \in DOMAIN w} = {s}
         \/ \E r, s \in Slots : /\ w = <<r, s>> /\ Len(w) = 2 /\ Head(w) = r /\ w[Len(w)] = s
                                /\ Tail(w) = <<s>> /\ {w[k] : k \in DOMAIN w} = {r, s}
<1>1. ASSUME NEW s \in Slots, w = <<s>>
      PROVE  Len(w) = 1 /\ Head(w) = s /\ w[Len(w)] = s /\ {w[k] : k \in DOMAIN w} = {s}
  BY <1>1
<1>2. ASSUME NEW r \in Slots, NEW s \in Slots, w = <<r, s>>
      PROVE  /\ Len(w) = 2 /\ Head(w) = r /\ w[Len(w)] = s
             /\ Tail(w) = <<s>> /\ {w[k] : k \in DOMAIN w} = {r, s}
  BY <1>2
<1> QED BY <1>1, <1>2 DEF Places

LEMMA Conflicts ==
  ASSUME NEW i \in Items, Code(i) # "none", NEW w \in SlotConflicts(Code(i))
  PROVE  /\ w \in Places
         /\ Code(i) = "lrhand" => w = <<"lhand", "rhand">>
         /\ Code(i) = "full" => w = <<"legs", "chest">>
         /\ Code(i) \in DOMAIN SecondSlot => \E s \in Slots \ {"rhand", "lhand"} : w = <<s>>
         /\ Code(i) = "lhand" => w = <<"lhand">> \/ w = <<"rhand", "lhand">>
         /\ Code(i) = "lhand" /\ TwoHandedHeld => w = <<"rhand", "lhand">>
         /\ Code(i) \notin {"lrhand", "full", "lhand"} \union DOMAIN SecondSlot => w = <<Code(i)>> /\ Code(i) \in Slots
<1> DEFINE c == Code(i)
<1>1. c \in {"full", "hair2", "rhand", "lhand", "lrhand", "chest", "legs", "hair", "hairall",
             "rfinger", "lfinger", "rear", "lear"}
  BY DEF Code, BodyPartToCode
<1>2. DOMAIN SecondSlot = {"hairall", "lrfinger", "lrear"}
      /\ SecondSlot["hairall"] = "hair2" /\ SecondSlot["lrfinger"] = "lfinger" /\ SecondSlot["lrear"] = "lear"
  BY DEF SecondSlot
<1>3. ASSUME c \in DOMAIN SecondSlot, NEW s \in FindDualSlot(c) PROVE s \in Slots \ {"rhand", "lhand"}
  BY <1>2, <1>3 DEF FindDualSlot, BodyPartToPaperdollSlot, Slots
<1>4. c \in DOMAIN SecondSlot => \E s \in Slots \ {"rhand", "lhand"} : w = <<s>>
  BY <1>2, <1>3 DEF SlotConflicts
<1>5. /\ c = "lrhand" => w = <<"lhand", "rhand">>
      /\ c = "full" => w = <<"legs", "chest">>
      /\ c = "lhand" => w = <<"lhand">> \/ w = <<"rhand", "lhand">>
      /\ c = "lhand" /\ TwoHandedHeld => w = <<"rhand", "lhand">>
      /\ c \notin {"lrhand", "full", "lhand"} \union DOMAIN SecondSlot => w = <<c>>
  BY <1>1, <1>2 DEF SlotConflicts
<1>6. c \notin {"lrhand", "full", "lhand"} \union DOMAIN SecondSlot => c \in Slots
  BY <1>1, <1>2 DEF Slots
<1>7. w \in Places
  BY <1>1, <1>2, <1>4, <1>5, <1>6 DEF Places, Slots
<1> QED BY <1>4, <1>5, <1>6, <1>7

---------------------------------------------------------------------------
(* Every variable keeps its type and every goroutine what it holds. *)

\* A step of one goroutine.
LEMMA Turning ==
  ASSUME Typed, NEW p \in Actors, NEW u \in Use, Go(p, u), Holds(u),
         p = "pass" => u.at \in PassSteps /\ (u.at \in {"weapon", "spend", "charge"} => u.auto),
         p = "conn" /\ u.at = "grant" /\ u.todo[2] # None => rows'[u.todo[2]].slot \notin Slots,
         p = "pass" /\ use.conn.at = "grant" /\ use.conn.todo[2] # None => rows'[use.conn.todo[2]].slot \notin Slots,
         ItemsTypeOK', arm' # None => arm' \in Scrolls, \A i \in Items : Placed(i, rows'[i]),
         DOMAIN h' = HistoryFields, h'.failures \in Nat
  PROVE  Typed'
<1>1. use' \in [Actors -> Use] /\ use'[p] = u /\ \A q \in Actors \ {p} : use'[q] = use[q]
  BY Going DEF Typed
<1>2. "conn" \in Actors /\ "pass" \in Actors
  BY DEF Actors
<1>3. \A q \in Actors : Holds(use'[q])
  BY <1>1 DEF Typed
<1>4. use'.pass.at \in PassSteps /\ (use'.pass.at \in {"weapon", "spend", "charge"} => use'.pass.auto)
  <2>1. CASE p = "pass"
    BY <1>1, <2>1
  <2>2. CASE p # "pass"
    BY <1>1, <1>2, <2>2 DEF Typed
  <2> QED BY <2>1, <2>2
<1>5. use'.conn.at = "grant" /\ use'.conn.todo[2] # None => rows'[use'.conn.todo[2]].slot \notin Slots
  <2>1. CASE p = "conn"
    BY <1>1, <2>1
  <2>2. CASE p = "pass"
    BY <1>1, <1>2, <2>2
  <2> QED BY <2>1, <2>2 DEF Actors
<1> QED BY <1>1, <1>3, <1>4, <1>5 DEF Typed, Holds, Donning, Rolled, Placed

\* A step that reads.
LEMMA Reading ==
  ASSUME Typed, NEW p \in Actors, NEW u \in Use, Go(p, u), Holds(u), UNCHANGED <<rows, shown, doll, queue>>,
         p = "pass" => u.at \in PassSteps /\ (u.at \in {"weapon", "spend", "charge"} => u.auto),
         p = "conn" /\ u.at = "grant" /\ u.todo[2] # None => rows[u.todo[2]].slot \notin Slots,
         arm' = arm \/ arm' = None, charged' \subseteq Items,
         DOMAIN h' = HistoryFields, h'.failures \in Nat
  PROVE  Typed'
<1>1. ItemsTypeOK'
  BY DEF Typed, ItemsTypeOK
<1> QED BY <1>1, Turning DEF Typed

LEMMA DressTypes ==
  ASSUME Typed, NEW i \in Items, PutOn(i) \/ TakeOff(i)
  PROVE  Typed'
<1>1. Idle \in Use /\ "conn" \in Actors
  BY Idling DEF Actors
<1>2. CASE PutOn(i)
  <2>1. PICK w \in SlotConflicts(Code(i)) :
          Go("conn", [Idle EXCEPT !.at = "clear", !.item = i, !.copy = rows[i], !.todo = w])
    BY <1>2 DEF PutOn
  <2>2. w \in Places /\ (Code(i) = "lrhand" => w[Len(w)] = "rhand")
    <3>1. w \in Places /\ (Code(i) = "lrhand" => w = <<"lhand", "rhand">>)
      BY <1>2, Conflicts DEF PutOn
    <3> QED BY <3>1
  <2>3. Stock(rows[i])
    BY <1>2 DEF PutOn, May, Live, Worn, Stock, Typed, ItemsTypeOK, Row
  <2> DEFINE u == [Idle EXCEPT !.at = "clear", !.item = i, !.copy = rows[i], !.todo = w]
  <2>4. u \in Use /\ u.at = "clear" /\ u.item = i /\ u.copy = rows[i] /\ u.todo = w
    BY <1>1, <2>2, <2>3 DEF Use, ConnSteps, Stock
  <2> HIDE DEF u
  <2>5. Holds(u)
    BY <1>2, <2>2, <2>3, <2>4 DEF Holds, Donning, PutOn
  <2> QED BY <1>1, <1>2, <2>1, <2>4, <2>5, Reading DEF u, PutOn, Typed, ItemsTypeOK
<1>3. CASE TakeOff(i)
  <2> DEFINE u == [Idle EXCEPT !.at = "clear", !.todo = <<rows[i].slot>>]
  <2>1. rows[i].slot \in Slots
    BY <1>3 DEF TakeOff, Worn
  <2>2. <<rows[i].slot>> \in Places
    BY <2>1 DEF Places
  <2>3. u \in Use /\ u.at = "clear" /\ u.item = None /\ u.todo = <<rows[i].slot>>
    BY <1>1, <2>2 DEF Use, ConnSteps, Idle
  <2> HIDE DEF u
  <2>4. Holds(u)
    BY <2>2, <2>3 DEF Holds
  <2> QED BY <1>1, <1>3, <2>3, <2>4, Reading DEF u, TakeOff, Typed, ItemsTypeOK
<1> QED BY <1>2, <1>3

LEMMA TakeTypes ==
  ASSUME Typed, NEW i \in Items,
         Open(i) \/ Register(i) \/ Shoot(i) \/ (\E inCombat \in BOOLEAN : Drink(i, inCombat))
  PROVE  Typed'
<1>1. PICK k \in {"consume", "register", "weapon"} :
        /\ Go("conn", Consuming(i, k)) /\ UNCHANGED <<rows, shown, doll, queue, arm, charged>>
        /\ May(i) /\ Code(i) = "none"
        /\ k = "register" => T[i].handler = "Recipes"
        /\ k = "consume" => T[i].handler \in {"ItemSkills", "ExtractableItems", "Recipes"}
        /\ k = "weapon" => i \in SoulShots
  BY DEF Open, Register, Shoot, Drink, Handled, SoulShots
<1>2. Stock(rows[i])
  BY <1>1 DEF May, Live, Stock, Typed, ItemsTypeOK, Row, Placed
<1>3. DOMAIN h' = HistoryFields /\ h'.failures \in Nat
  BY DEF Open, Register, Shoot, Drink, Typed, HistoryFields
<1> DEFINE u == Consuming(i, k)
<1>4. u \in Use /\ u.at = k /\ u.item = i /\ u.copy = rows[i]
  <2>1. k \in ConnSteps
    BY <1>1 DEF ConnSteps
  <2>2. Consuming(i, k) \in Use BY <1>2, <2>1, Beginning
  <2>3. Consuming(i, k).at = k BY <2>1 DEF Consuming, Idle
  <2>4. Consuming(i, k).item = i BY <1>2, <2>1, Beginning
  <2>5. Consuming(i, k).copy = rows[i] BY <1>2, <2>1, Beginning
  <2> QED BY <2>2, <2>3, <2>4, <2>5 DEF u
<1> HIDE DEF u
<1>5. Holds(u)
  BY <1>1, <1>2, <1>4 DEF Holds
<1> QED BY <1>1, <1>3, <1>4, <1>5, Reading DEF u, Typed, ItemsTypeOK, Actors

\* A step that writes a row of the bag.
LEMMA Spending ==
  ASSUME Typed, NEW p \in Actors, NEW u \in Use, Go(p, u), Holds(u), u.at # "grant",
         NEW i \in Items, NEW r, r = Gone \/ Stock(r), rows' = Update(i, r),
         UNCHANGED <<shown, doll, queue, arm, charged>>,
         p = "pass" => u.at \in PassSteps /\ (u.at \in {"weapon", "spend", "charge"} => u.auto),
         DOMAIN h' = HistoryFields, h'.failures \in Nat
  PROVE  Typed'
<1>1. r \in Row \union {Gone} /\ r.slot \notin Slots
  BY DEF Stock, Gone, Slots
<1>2. rows' \in [Items -> Row \union {Gone, Unborn}]
  BY <1>1, Writing
<1>3. ItemsTypeOK'
  BY <1>2 DEF Typed, ItemsTypeOK
<1>4. \A j \in Items : rows'[j] = rows[j] \/ rows'[j].slot \notin Slots
  BY <1>1 DEF Update, Typed, ItemsTypeOK
<1>5. \A j \in Items : Placed(j, rows'[j])
  BY <1>4 DEF Placed, Typed
<1>6. use.conn.at = "grant" /\ use.conn.todo[2] # None => rows'[use.conn.todo[2]].slot \notin Slots
  <2>1. use.conn.at = "grant" /\ use.conn.todo[2] # None => use.conn.todo[2] \in Items
    BY DEF Typed, Holds, Rolled, Actors
  <2> QED BY <1>4, <2>1 DEF Typed
<1> QED BY <1>3, <1>5, <1>6, Turning DEF Typed

LEMMA ConsumeTypes ==
  ASSUME Typed, AddRecipe \/ ConsumeOne \/ \E n \in Nat : Roll(n)
  PROVE  Typed'
<1> DEFINE c == use.conn
<1>1. c \in Use /\ Holds(c) /\ "conn" \in Actors /\ DOMAIN h' = HistoryFields /\ h'.failures \in Nat
  BY DEF Typed, AddRecipe, ConsumeOne, Roll, Actors
<1>2. CASE AddRecipe
  <2> DEFINE u == [c EXCEPT !.at = "consume"]
  <2>1. /\ u \in Use /\ u.at = "consume" /\ u.item = c.item /\ u.copy = c.copy
    BY <1>1 DEF Use, ConnSteps
  <2>2. c.at = "register"
    BY <1>2 DEF AddRecipe, At
  <2> HIDE DEF u
  <2>3. Holds(u)
    BY <1>1, <2>1, <2>2 DEF Holds
  <2> QED BY <1>1, <1>2, <2>1, <2>3, Reading DEF u, AddRecipe, Typed, ItemsTypeOK
<1>3. CASE ConsumeOne
  <2> DEFINE r == Less(c.copy, 1)
             a == IF T[c.item].handler = "ExtractableItems" THEN "roll" ELSE "show"
             v == [c EXCEPT !.other = "used", !.at = a]
             u == Says(v, c.item, r)
  <2>1. c.at = "consume" /\ c.item \in Items /\ Stock(c.copy) /\ Code(c.item) = "none"
    BY <1>1, <1>3 DEF ConsumeOne, At, Holds
  <2>2. r = Gone \/ Stock(r)
    BY <2>1, Writing
  <2>3. Consume(c.item, c.copy, 1) = Update(c.item, r)
    BY <2>1, Writing
  <2>4. r \in Row \union {Gone} /\ a \in ConnSteps
    BY <2>2 DEF Stock, ConnSteps
  <2>5. c.changed \in Changes
    BY <1>1 DEF Use
  <2> HIDE DEF r, a
  <2>6. Over([j \in {c.item} |-> r], c.changed) \in Changes
    BY <2>1, <2>4, <2>5, Saying
  <2>7. /\ u \in Use /\ u.at = a /\ u.item = c.item /\ u.copy = c.copy /\ u.other = "used"
    BY <1>1, <2>4, <2>6 DEF Use, Says
  <2> HIDE DEF u
  <2>8. Holds(u)
    BY <2>1, <2>7 DEF Holds, a
  <2>9. Go("conn", u) /\ rows' = Update(c.item, r) /\ u.at # "grant" /\ UNCHANGED <<shown, doll, queue, arm, charged>>
    BY <1>3, <2>3, <2>7 DEF ConsumeOne, u, r, a
  <2> QED BY <1>1, <2>1, <2>2, <2>7, <2>8, <2>9, Spending
<1>4. ASSUME NEW n \in Nat, Roll(n) PROVE Typed'
  <2>1. PICK j \in Items \union {None} :
          /\ Go("conn", [c EXCEPT !.at = IF n = 0 THEN "show" ELSE "grant", !.todo = <<n, j>>,
                                  !.ocopy = IF j = None THEN Gone ELSE rows[j]])
          /\ j # None => j \in Stacks(T[c.item].gives)
    BY <1>4 DEF Roll, Stacks, GetByCharacter
  <2> DEFINE a == IF n = 0 THEN "show" ELSE "grant"
             b == IF j = None THEN Gone ELSE rows[j]
             u == [c EXCEPT !.at = a, !.todo = <<n, j>>, !.ocopy = b]
  <2>2. c.at = "roll" /\ c.item \in Items /\ Stock(c.copy) /\ Code(c.item) = "none"
    BY <1>1, <1>4 DEF Roll, At, Holds
  <2>3. j # None => j \in Items /\ Stock(rows[j])
    BY <2>1 DEF Stacks, GetByCharacter, Live, Stock, Typed, ItemsTypeOK
  <2>4. b \in Row \union {Gone} /\ a \in ConnSteps
    BY <2>1, <2>3 DEF Stock, ConnSteps
  <2>5. <<n, j>> \in Nat \X (Items \union {None})
    BY <2>1
  <2> HIDE DEF a, b
  <2>6. /\ u \in Use /\ u.at = a /\ u.item = c.item /\ u.copy = c.copy /\ u.other = c.other
        /\ u.todo = <<n, j>> /\ u.ocopy = b
    BY <1>1, <2>4, <2>5 DEF Use
  <2> HIDE DEF u
  <2>7. u.at = "grant" => u.todo \in Rolled /\ (u.todo[2] # None => Stock(u.ocopy) /\ rows[u.todo[2]].slot \notin Slots)
    BY <2>3, <2>5, <2>6 DEF Rolled, a, b, Stock, Slots
  <2>8. Holds(u)
    BY <1>1, <2>2, <2>6, <2>7 DEF Holds, a
  <2>9. Go("conn", u) /\ UNCHANGED <<rows, shown, doll, queue, arm, charged>>
    BY <1>4, <2>1 DEF u, a, b, Roll
  <2> QED BY <1>1, <2>6, <2>7, <2>8, <2>9, Reading DEF Typed, ItemsTypeOK
<1> QED BY <1>2, <1>3, <1>4

\* What the slots and the reward change of the rows.
LEMMA Rewarding ==
  ASSUME Typed, GiveReward
  PROVE  \E j \in Items, r \in Row :
           /\ Stock(r) /\ rows[j].slot \notin Slots
           /\ Go("conn", Says([use.conn EXCEPT !.at = "show"], j, r))
           /\ \/ rows' = Update(j, r) /\ j = use.conn.todo[2] /\ r.count >= use.conn.ocopy.count
              \/ rows' = [rows EXCEPT ![j] = r] /\ rows[j] = Unborn /\ use.conn.todo[2] = None
<1> DEFINE c == use.conn
           n == c.todo[1]
           grown == [c.ocopy EXCEPT !.count = @ + n]
           fresh == [slot |-> "bag", count |-> n, level |-> 0]
<1>1. /\ c.at = "grant" /\ n \in Nat \ {0} /\ c.todo[2] \in Items \union {None}
      /\ c.todo[2] # None => Stock(c.ocopy) /\ rows[c.todo[2]].slot \notin Slots
  BY DEF Typed, GiveReward, At, Holds, Rolled, Actors
<1>2. CASE /\ c.todo[2] # None /\ rows' = Update(c.todo[2], grown)
           /\ Go("conn", Says([c EXCEPT !.at = "show"], c.todo[2], grown))
  <2>1. Stock(grown) /\ grown \in Row /\ grown.count >= c.ocopy.count
    BY <1>1, <1>2 DEF Stock, Row
  <2>2. c.todo[2] \in Items
    BY <1>1, <1>2
  <2> HIDE DEF grown
  <2> QED BY <1>1, <1>2, <2>1, <2>2
<1>3. ASSUME NEW j \in Items, c.todo[2] = None, rows[j] = Unborn, rows' = [rows EXCEPT ![j] = fresh],
             Go("conn", Says([c EXCEPT !.at = "show"], j, fresh))
      PROVE  Stock(fresh) /\ fresh \in Row /\ rows[j].slot \notin Slots
  BY <1>1, <1>3 DEF Stock, Row, Unborn, Slots
<1> HIDE DEF fresh, grown
<1> QED BY <1>2, <1>3 DEF GiveReward, fresh, grown

LEMMA RewardTypes ==
  ASSUME Typed, GiveReward
  PROVE  Typed'
<1> DEFINE c == use.conn
<1>1. /\ c \in Use /\ Holds(c) /\ "conn" \in Actors /\ DOMAIN h' = HistoryFields /\ h'.failures \in Nat
      /\ UNCHANGED <<shown, doll, queue, arm, charged>> /\ c.at = "grant"
  BY DEF Typed, GiveReward, Actors, At
<1>2. PICK j \in Items, r \in Row :
           /\ Stock(r) /\ rows[j].slot \notin Slots
           /\ Go("conn", Says([c EXCEPT !.at = "show"], j, r))
           /\ \/ rows' = Update(j, r) /\ j = c.todo[2] /\ r.count >= c.ocopy.count
              \/ rows' = [rows EXCEPT ![j] = r] /\ rows[j] = Unborn /\ c.todo[2] = None
  BY Rewarding
<1>3. r \in Row /\ r.slot \notin Slots /\ c.changed \in Changes
  BY <1>1, <1>2 DEF Stock, Slots, Use
<1>4. Over([k \in {j} |-> r], c.changed) \in Changes
  BY <1>3, Saying
<1> DEFINE v == [c EXCEPT !.at = "show"]
           u == Says(v, j, r)
<1>5. u \in Use /\ u.at = "show" /\ u.item = c.item /\ u.other = c.other
  BY <1>1, <1>4 DEF Use, Says, ConnSteps
<1> HIDE DEF u
<1>6. Holds(u)
  BY <1>1, <1>5 DEF Holds
<1>7. Go("conn", u)
  BY <1>2 DEF u
<1>8. CASE rows' = Update(j, r)
  BY <1>1, <1>2, <1>5, <1>6, <1>7, <1>8, Spending
<1>9. CASE rows' = [rows EXCEPT ![j] = r]
  <2>1. ItemsTypeOK'
    BY <1>1, <1>3, <1>9 DEF Typed, ItemsTypeOK
  <2>2. \A i \in Items : Placed(i, rows'[i])
    BY <1>3, <1>9 DEF Typed, ItemsTypeOK, Placed
  <2> QED BY <1>1, <1>5, <1>6, <1>7, <2>1, <2>2, Turning DEF Typed
<1> QED BY <1>2, <1>8, <1>9

LEMMA Clearing ==
  ASSUME Typed, ClearSlot
  PROVE  LET c == use.conn
             s == Head(c.todo)
         IN  /\ c.at = "clear" /\ c.todo \in Places /\ s \in Slots
             /\ \A i \in Items :
                  /\ rows[i].slot = s => rows'[i] = [rows[i] EXCEPT !.slot = "bag"] /\ Stock(rows'[i])
                  /\ rows[i].slot # s => rows'[i] = rows[i]
             /\ rows' \in [Items -> Row \union {Gone, Unborn}]
             /\ \E u \in Use :
                  /\ Go("conn", u) /\ Holds(u) /\ u.item = c.item /\ u.copy = c.copy
                  /\ u.changed = Over([i \in In(rows, s) |-> [rows[i] EXCEPT !.slot = "bag"]], c.changed)
                  /\ \/ Len(c.todo) = 2 /\ u.at = "clear" /\ u.todo = Tail(c.todo)
                     \/ Len(c.todo) = 1 /\ c.item = None /\ u.at = "show" /\ u.other = s
                     \/ Len(c.todo) = 1 /\ c.item # None /\ u.at = "equip" /\ u.other = s
<1> DEFINE c == use.conn
           s == Head(c.todo)
           bare(i) == [rows[i] EXCEPT !.slot = "bag"]
<1>1. c \in Use /\ Holds(c) /\ "conn" \in Actors
  BY DEF Typed, Actors
<1>2. c.at = "clear" /\ c.todo \in Places
  BY <1>1 DEF ClearSlot, At, Holds
<1>3. s \in Slots
  BY <1>2, PlacesSplit
<1>4. \A i \in Items : rows[i].slot = s => Stock(bare(i))
  <2> SUFFICES ASSUME NEW i \in Items, rows[i].slot = s PROVE Stock(bare(i))
    OBVIOUS
  <2>1. rows[i] \in Row
    BY <1>3 DEF Typed, ItemsTypeOK, Gone, Unborn, Slots
  <2> QED BY <2>1 DEF Stock, Row
<1>5. rows' = [i \in Items |-> IF i \in In(rows, s) THEN bare(i) ELSE rows[i]]
  BY DEF ClearSlot
<1>6. \A i \in Items : i \in In(rows, s) <=> rows[i].slot = s
  BY DEF In
<1>7. \A i \in Items :
        /\ rows[i].slot = s => rows'[i] = bare(i) /\ Stock(rows'[i])
        /\ rows[i].slot # s => rows'[i] = rows[i]
  <2> HIDE DEF bare
  <2> QED BY <1>4, <1>5, <1>6
<1>8. rows' \in [Items -> Row \union {Gone, Unborn}]
  <2>1. \A i \in Items : rows'[i] \in Row \union {Gone, Unborn}
    BY <1>7 DEF Stock, Typed, ItemsTypeOK
  <2> HIDE DEF bare
  <2> QED BY <1>5, <2>1
<1> DEFINE off == [i \in In(rows, s) |-> bare(i)]
           told == Over(off, c.changed)
<1>9. told \in Changes
  <2>1. off \in Changes
    <3>1. In(rows, s) \subseteq Items
      BY DEF In
    <3>2. \A i \in In(rows, s) : bare(i) \in Row \union {Gone}
      BY <1>4, <1>6, <3>1 DEF Stock
    <3> HIDE DEF bare
    <3>3. off \in [In(rows, s) -> Row \union {Gone}]
      BY <3>2
    <3> QED BY <3>1, <3>3 DEF Changes
  <2>2. c.changed \in Changes
    BY <1>1 DEF Use
  <2> HIDE DEF off
  <2> QED BY <2>1, <2>2, Overlaying
<1> DEFINE a == IF Len(c.todo) > 1 THEN "clear" ELSE IF c.item = None THEN "show" ELSE "equip"
           u == [c EXCEPT !.todo = Tail(@), !.changed = told, !.at = a, !.other = s]
<1>10. Go("conn", u)
  BY DEF ClearSlot
<1>11. a \in ConnSteps
  BY DEF ConnSteps
<1> HIDE DEF told, a
<1>12. Tail(c.todo) \in {<<>>} \union Places
  <2>1. ASSUME NEW x \in Slots, c.todo = <<x>> PROVE Tail(c.todo) = <<>>
    BY <2>1
  <2>2. ASSUME NEW x \in Slots, NEW y \in Slots, c.todo = <<x, y>> PROVE Tail(c.todo) = <<y>>
    BY <2>2
  <2>3. \A y \in Slots : <<y>> \in Places
    BY DEF Places
  <2> QED BY <1>2, <2>1, <2>2, <2>3 DEF Places
<1> HIDE DEF s
<1>13. /\ u \in Use /\ u.todo = Tail(c.todo) /\ u.changed = told /\ u.at = a /\ u.other = s
       /\ u.item = c.item /\ u.copy = c.copy
  BY <1>1, <1>3, <1>9, <1>11, <1>12 DEF Use
<1> HIDE DEF u
<1>14. \/ Len(c.todo) = 2 /\ a = "clear" /\ Tail(c.todo) \in Places
          /\ Tail(c.todo)[Len(Tail(c.todo))] = c.todo[Len(c.todo)]
       \/ Len(c.todo) = 1 /\ s = c.todo[Len(c.todo)] /\ a = IF c.item = None THEN "show" ELSE "equip"
  <2>1. CASE \E x \in Slots : c.todo = <<x>> /\ Len(c.todo) = 1 /\ Head(c.todo) = x /\ c.todo[Len(c.todo)] = x
    BY <2>1 DEF a, s
  <2>2. CASE \E x, y \in Slots : c.todo = <<x, y>> /\ Len(c.todo) = 2 /\ c.todo[Len(c.todo)] = y /\ Tail(c.todo) = <<y>>
    BY <2>2 DEF a, Places
  <2> QED BY <1>2, <2>1, <2>2, PlacesSplit
<1>15. Holds(u)
  BY <1>1, <1>2, <1>3, <1>13, <1>14 DEF Holds, Donning
<1>16. \/ Len(c.todo) = 2 /\ u.at = "clear" /\ u.todo = Tail(c.todo)
       \/ Len(c.todo) = 1 /\ c.item = None /\ u.at = "show" /\ u.other = s
       \/ Len(c.todo) = 1 /\ c.item # None /\ u.at = "equip" /\ u.other = s
  BY <1>13, <1>14
<1> QED BY <1>2, <1>3, <1>7, <1>8, <1>10, <1>13, <1>15, <1>16 DEF s, told

LEMMA EquipTypes ==
  ASSUME Typed, ClearSlot \/ EquipItem
  PROVE  Typed'
<1> DEFINE c == use.conn
<1>1. /\ c \in Use /\ Holds(c) /\ "conn" \in Actors /\ DOMAIN h' = HistoryFields /\ h'.failures \in Nat
      /\ UNCHANGED <<shown, doll, queue, arm>>
  BY DEF Typed, ClearSlot, EquipItem, Actors
<1>2. CASE ClearSlot
  <2> DEFINE s == Head(c.todo)
  <2>1. /\ s \in Slots
        /\ \A i \in Items :
             /\ rows[i].slot = s => Stock(rows'[i])
             /\ rows[i].slot # s => rows'[i] = rows[i]
        /\ rows' \in [Items -> Row \union {Gone, Unborn}]
    BY <1>2, Clearing
  <2>2. PICK u \in Use : Go("conn", u) /\ Holds(u) /\ u.at \in {"clear", "show", "equip"}
    BY <1>2, Clearing
  <2> HIDE DEF s
  <2>3. \A i \in Items : Placed(i, rows'[i])
    BY <2>1 DEF Typed, Placed, Stock, Slots
  <2>4. charged' \subseteq Items
    BY <1>2 DEF ClearSlot, Typed, ItemsTypeOK
  <2>5. ItemsTypeOK'
    BY <1>1, <2>1, <2>4 DEF Typed, ItemsTypeOK
  <2> QED BY <1>1, <2>2, <2>3, <2>5, Turning DEF Typed
<1>3. CASE EquipItem
  <2> DEFINE worn == [c.copy EXCEPT !.slot = c.other]
             v == [c EXCEPT !.at = "show"]
             u == Says(v, c.item, worn)
  <2>1. c.at = "equip" /\ c.other \in Slots /\ Donning(c, c.other)
    BY <1>1, <1>3 DEF EquipItem, At, Holds
  <2>2. worn \in Row /\ worn.slot = c.other /\ c.item \in Items /\ c.changed \in Changes
    BY <1>1, <2>1 DEF Donning, Stock, Row, Use
  <2> HIDE DEF worn
  <2>3. Over([k \in {c.item} |-> worn], c.changed) \in Changes
    BY <2>2, Saying
  <2>4. u \in Use /\ u.at = "show" /\ u.other = c.other
    BY <1>1, <2>3 DEF Use, Says, ConnSteps
  <2>5. Go("conn", u)
    BY <1>3 DEF EquipItem, worn
  <2> HIDE DEF u
  <2>6. Holds(u)
    BY <2>1, <2>4 DEF Holds
  <2>7. rows' = IF Live(c.item) THEN [rows EXCEPT ![c.item].slot = c.other] ELSE rows
    BY <1>3 DEF EquipItem
  <2>8. \A i \in Items : /\ rows'[i] \in Row \union {Gone, Unborn}
                         /\ rows'[i] = rows[i] \/ (i = c.item /\ rows'[i].slot = c.other)
    BY <2>1, <2>2, <2>7 DEF Typed, ItemsTypeOK, Row, Live
  <2>9. rows' \in [Items -> Row \union {Gone, Unborn}]
    BY <2>7, <2>8 DEF Typed, ItemsTypeOK
  <2>10. \A i \in Items : Placed(i, rows'[i])
    BY <2>1, <2>8 DEF Typed, Placed, Donning
  <2>11. ItemsTypeOK'
    BY <1>1, <1>3, <2>9 DEF Typed, ItemsTypeOK, EquipItem
  <2> QED BY <1>1, <2>4, <2>5, <2>6, <2>10, <2>11, Turning DEF Typed
<1> QED BY <1>2, <1>3

LEMMA ShowTypes ==
  ASSUME Typed, Show \/ ShowUnread \/ \E p \in Actors : Report(p)
  PROVE  Typed'
<1>1. ASSUME NEW p \in Actors PROVE Told(use[p]) \in [Items -> Row \union {Gone, Unborn}]
  BY Overlaying DEF Typed, ItemsTypeOK, Told, Use
<1>2. Dolled(rows) \in [Slots -> Items \union {None}]
  <2>1. \A s \in Slots : Dolled(rows)[s] \in Items \union {None}
    BY DEF Dolled, In
  <2> QED BY <2>1 DEF Dolled
<1>3. PICK p \in Actors :
        /\ Go(p, Idle) /\ UNCHANGED <<rows, queue, arm, charged>>
        /\ shown' = Told(use[p]) /\ (doll' = doll \/ doll' = Dolled(rows))
  BY DEF Show, ShowUnread, Report, Actors
<1>4. DOMAIN h' = HistoryFields /\ h'.failures \in Nat
  <2>1. DOMAIN h = HistoryFields /\ h.failures \in Nat
    BY DEF Typed
  <2>2. \/ h' = h
        \/ \E w : h' = [h EXCEPT !.uses = w]
        \/ \E w : h' = [h EXCEPT !.failures = @ + 1, !.uses = w]
        \/ h' = [h EXCEPT !.failures = @ + 1]
    <3>1. CASE Show
      BY <3>1 DEF Show, Stamped
    <3>2. CASE ShowUnread
      <4>1. CASE use.conn.other = "used" /\ T[use.conn.item].delay > 0
        BY <3>2, <4>1 DEF ShowUnread
      <4>2. CASE ~(use.conn.other = "used" /\ T[use.conn.item].delay > 0)
        BY <3>2, <4>2 DEF ShowUnread, Count
      <4> QED BY <4>1, <4>2
    <3> QED BY <3>1, <3>2 DEF Report
  <2>3. ASSUME h' = h PROVE DOMAIN h' = HistoryFields /\ h'.failures \in Nat
    BY <2>1, <2>3
  <2>4. ASSUME NEW w, h' = [h EXCEPT !.uses = w] PROVE DOMAIN h' = HistoryFields /\ h'.failures \in Nat
    BY <2>1, <2>4 DEF HistoryFields
  <2>5. ASSUME NEW w, h' = [h EXCEPT !.failures = @ + 1, !.uses = w]
        PROVE  DOMAIN h' = HistoryFields /\ h'.failures \in Nat
    BY <2>1, <2>5 DEF HistoryFields
  <2>6. ASSUME h' = [h EXCEPT !.failures = @ + 1] PROVE DOMAIN h' = HistoryFields /\ h'.failures \in Nat
    BY <2>1, <2>6 DEF HistoryFields
  <2> QED BY <2>2, <2>3, <2>4, <2>5, <2>6
<1>5. ItemsTypeOK'
  BY <1>1, <1>2, <1>3 DEF Typed, ItemsTypeOK
<1> QED BY <1>3, <1>4, <1>5, Idling, Turning DEF Typed, PassSteps

LEMMA ShotTypes ==
  ASSUME Typed, NEW p \in Actors, ShotWeapon(p) \/ ShotSpend(p) \/ ShotCharge(p)
  PROVE  Typed'
<1> DEFINE c == use[p]
<1>1. /\ c \in Use /\ Holds(c) /\ DOMAIN h' = HistoryFields /\ h'.failures \in Nat
      /\ UNCHANGED <<shown, doll, queue, arm>>
      /\ p = "pass" => c.at \in PassSteps /\ (c.at \in {"weapon", "spend", "charge"} => c.auto)
  <2>1. DOMAIN h = HistoryFields /\ h.failures \in Nat
    BY DEF Typed
  <2>2. h' = h \/ h' = [h EXCEPT !.charges = @ + T[c.other].shots]
    BY DEF ShotWeapon, ShotSpend, ShotCharge
  <2>3. DOMAIN h' = HistoryFields /\ h'.failures \in Nat
    BY <2>1, <2>2 DEF HistoryFields
  <2> QED BY <2>3 DEF Typed, ShotWeapon, ShotSpend, ShotCharge
<1>2. ASSUME ShotWeapon(p), Go(p, Idle) PROVE Typed'
  BY <1>1, <1>2, Idling, Reading DEF ShotWeapon, PassSteps, Typed, ItemsTypeOK
<1>3. ASSUME ShotWeapon(p), NEW w \in In(rows, "rhand"), Go(p, [c EXCEPT !.at = "spend", !.other = w])
      PROVE  Typed'
  <2> DEFINE u == [c EXCEPT !.at = "spend", !.other = w]
  <2>1. w \in Items /\ c.at = "weapon"
    BY <1>3 DEF In, ShotWeapon, At
  <2>2. u \in Use /\ u.at = "spend" /\ u.other = w /\ u.item = c.item /\ u.copy = c.copy /\ u.auto = c.auto
    BY <1>1, <2>1 DEF Use, ConnSteps
  <2> HIDE DEF u
  <2>3. Holds(u)
    BY <1>1, <2>1, <2>2 DEF Holds
  <2> QED BY <1>1, <1>3, <2>1, <2>2, <2>3, Reading DEF u, ShotWeapon, PassSteps, Typed, ItemsTypeOK
<1>4. CASE ShotSpend(p)
  <2> DEFINE n == T[c.other].shots
             r == Less(c.copy, n)
             v == [c EXCEPT !.at = "charge"]
             u == Says(v, c.item, r)
  <2>1. /\ c.at = "spend" /\ c.item \in Items /\ Stock(c.copy) /\ Code(c.item) = "none"
        /\ c.item \in SoulShots /\ c.other \in Items
    BY <1>1, <1>4 DEF ShotSpend, At, Holds
  <2>2. n \in Nat
    BY <2>1, ItemsAssumption DEF Template
  <2> HIDE DEF n
  <2>3. (r = Gone \/ Stock(r)) /\ Consume(c.item, c.copy, n) = Update(c.item, r)
    BY <2>1, <2>2, Writing
  <2>4. r \in Row \union {Gone} /\ c.changed \in Changes
    BY <1>1, <2>3 DEF Stock, Use
  <2> HIDE DEF r
  <2>5. Over([j \in {c.item} |-> r], c.changed) \in Changes
    BY <2>1, <2>4, Saying
  <2>6. /\ u \in Use /\ u.at = "charge" /\ u.item = c.item /\ u.copy = c.copy /\ u.other = c.other
        /\ u.auto = c.auto
    BY <1>1, <2>5 DEF Use, Says, ConnSteps
  <2>7. Go(p, u) /\ rows' = Update(c.item, r) /\ UNCHANGED charged
    BY <1>4, <2>3 DEF ShotSpend, r, n
  <2> HIDE DEF u
  <2>8. Holds(u)
    BY <2>1, <2>6 DEF Holds
  <2> QED BY <1>1, <2>1, <2>3, <2>6, <2>7, <2>8, Spending DEF PassSteps
<1>5. CASE ShotCharge(p)
  <2> DEFINE a == IF c.auto THEN "report" ELSE "show"
             u == [c EXCEPT !.other = "used", !.at = a]
  <2>1. c.at = "charge" /\ c.item \in Items /\ c.other \in Items /\ a \in ConnSteps
    BY <1>1, <1>5 DEF ShotCharge, At, Holds, ConnSteps
  <2>2. u \in Use /\ u.at = a /\ u.other = "used" /\ u.item = c.item
    BY <1>1, <2>1 DEF Use
  <2>3. Go(p, u) /\ charged' \subseteq Items /\ UNCHANGED rows
    BY <1>5, <2>1 DEF ShotCharge, Typed, ItemsTypeOK
  <2> HIDE DEF u
  <2>4. Holds(u)
    BY <2>1, <2>2 DEF Holds
  <2> QED BY <1>1, <2>1, <2>2, <2>3, <2>4, Reading DEF PassSteps
<1> QED BY <1>2, <1>3, <1>4, <1>5 DEF ShotWeapon

LEMMA RechargeTypes ==
  ASSUME Typed, PassTakes \/ (\E p \in Actors : Recharge(p)) \/ (\E i : EnableAuto(i))
  PROVE  Typed'
<1> DEFINE list == [Idle EXCEPT !.at = "list"]
<1>1. list \in Use /\ list.at = "list" /\ Holds(list) /\ {"conn", "pass"} \subseteq Actors
  BY Idling DEF Use, ConnSteps, Holds, Actors
<1> HIDE DEF list
<1>2. DOMAIN h' = HistoryFields /\ h'.failures \in Nat
  BY DEF Typed, PassTakes, Recharge, EnableAuto, HistoryFields
<1>3. ASSUME NEW i, EnableAuto(i) PROVE Typed'
  BY <1>1, <1>2, <1>3, Reading DEF EnableAuto, list, Typed, ItemsTypeOK
<1>4. CASE PassTakes
  <2>0. queue' \in 0 .. QueueCap
    <3>1. queue \in 0 .. QueueCap /\ queue > 0 /\ queue' = queue - 1 /\ QueueCap \in Nat
      BY <1>4, ItemsAssumption DEF PassTakes, Typed, ItemsTypeOK
    <3> QED BY <3>1
  <2>1. ItemsTypeOK'
    BY <1>4, <2>0 DEF PassTakes, Typed, ItemsTypeOK
  <2> QED BY <1>1, <1>2, <1>4, <2>1, Turning DEF PassTakes, list, Typed, PassSteps
<1>5. ASSUME NEW p \in Actors, Recharge(p) PROVE Typed'
  <2>1. UNCHANGED <<rows, shown, doll, queue, arm, charged>>
    BY <1>5 DEF Recharge
  <2>2. CASE Go(p, Idle)
    BY <1>2, <2>1, <2>2, Idling, Reading DEF PassSteps, Typed, ItemsTypeOK
  <2>3. ASSUME NEW i \in AutoSoulShots, NEW j \in Stacks(i), Go(p, [Consuming(j, "weapon") EXCEPT !.auto = TRUE])
        PROVE  Typed'
    <3> DEFINE v == Consuming(j, "weapon")
               u == [v EXCEPT !.auto = TRUE]
    <3>1. j \in SoulShots /\ Stock(rows[j])
      BY Stacked
    <3>2. j \in Items /\ Code(j) = "none"
      BY <3>1, KindsApart
    <3>3. v \in Use /\ v.at = "weapon" /\ v.item = j /\ v.copy = rows[j]
      BY <3>1, <3>2, Idling DEF Consuming, Use, Stock, ConnSteps, Idle
    <3> HIDE DEF v
    <3>4. u \in Use /\ u.at = "weapon" /\ u.item = j /\ u.copy = rows[j] /\ u.auto
      BY <3>3 DEF Use
    <3>5. Go(p, u)
      BY <2>3 DEF v
    <3> HIDE DEF u
    <3>6. Holds(u)
      BY <3>1, <3>2, <3>4 DEF Holds
    <3> QED BY <1>2, <2>1, <3>4, <3>5, <3>6, Reading DEF PassSteps, Typed, ItemsTypeOK
  <2> QED BY <1>5, <2>2, <2>3 DEF Recharge
<1> QED BY <1>3, <1>4, <1>5

\* What an attempt leaves of a row.
LEMMA Outcomes ==
  ASSUME NEW s \in Items, NEW r \in Row, NEW won \in BOOLEAN
  PROVE  /\ Outcome(s, r, won) = Gone \/ (Outcome(s, r, won) \in Row /\ Outcome(s, r, won).slot = r.slot
                                          /\ Outcome(s, r, won).count = r.count)
<1>1. T[s].scroll \in {"normal", "blessed", "safe"}
  BY ItemsAssumption DEF Template
<1>2. CASE won
  BY <1>2 DEF Outcome, Row
<1>3. CASE ~won /\ T[s].scroll = "safe"
  BY <1>3 DEF Outcome, Row
<1>4. CASE ~won /\ T[s].scroll = "blessed"
  BY <1>4 DEF Outcome, Row
<1>5. CASE ~won /\ T[s].scroll = "normal"
  BY <1>5 DEF Outcome, Row
<1> QED BY <1>1, <1>2, <1>3, <1>4, <1>5

\* What the request for an attempt finds.
LEMMA Enchanting ==
  ASSUME Typed, NEW t \in Items, EnchantItem(t), Live(arm) /\ Live(t) /\ Fits(arm, t, rows[t].level)
  PROVE  \E won \in BOOLEAN : \E u \in Use :
           /\ Go("conn", u) /\ Holds(u)
           /\ arm \in Scrolls /\ Stock(rows[arm]) /\ rows[t] \in Row /\ T[t].type # "EtcItem"
           /\ u.at = "pay" /\ u.item = arm /\ u.copy = rows[arm] /\ u.other = t
           /\ u.ocopy = Outcome(arm, rows[t], won) /\ DOMAIN u.changed = {} /\ ~u.auto
<1>1. arm \in Scrolls /\ arm \in Items /\ Code(arm) = "none" /\ T[arm].handler = "EnchantScrolls"
  BY KindsApart DEF EnchantItem, Typed
<1>2. rows[t] \in Row /\ Stock(rows[arm])
  BY <1>1 DEF Live, Stock, Typed, ItemsTypeOK, Row, Placed
<1>3. T[t].type # "EtcItem"
  BY <1>1, KindsApart DEF Fits
<1>4. PICK won \in BOOLEAN :
        Go("conn", [Consuming(arm, "pay") EXCEPT !.other = t, !.ocopy = Outcome(arm, rows[t], won)])
  BY DEF EnchantItem, Rolls
<1> DEFINE v == Consuming(arm, "pay")
           r == Outcome(arm, rows[t], won)
           u == [v EXCEPT !.other = t, !.ocopy = r]
<1>5. v \in Use /\ v.at = "pay" /\ v.item = arm /\ v.copy = rows[arm] /\ DOMAIN v.changed = {} /\ ~v.auto
  BY <1>1, <1>2, Idling DEF Consuming, Use, Stock, ConnSteps, Idle
<1> HIDE DEF v
<1>6. r = Gone \/ (r \in Row /\ r.slot = rows[t].slot)
  BY <1>1, <1>2, Outcomes
<1> HIDE DEF r
<1>7. /\ u \in Use /\ u.at = "pay" /\ u.item = arm /\ u.copy = rows[arm] /\ u.other = t /\ u.ocopy = r
      /\ DOMAIN u.changed = {} /\ ~u.auto
  BY <1>5, <1>6 DEF Use
<1>8. Go("conn", u)
  BY <1>4 DEF v, r
<1> HIDE DEF u
<1>9. Placed(t, r)
  BY <1>6 DEF Placed, Typed, Gone, Slots
<1>10. Holds(u)
  BY <1>1, <1>2, <1>3, <1>7, <1>9 DEF Holds
<1> QED BY <1>1, <1>2, <1>3, <1>7, <1>8, <1>10 DEF r

\* A step of the registries.
LEMMA Staying ==
  ASSUME Typed, UNCHANGED <<rows, use>>, ItemsTypeOK', arm' # None => arm' \in Scrolls,
         DOMAIN h' = HistoryFields, h'.failures \in Nat
  PROVE  Typed'
BY DEF Typed, Holds, Donning, Placed, Rolled

LEMMA EnchantTypes ==
  ASSUME Typed, NEW t \in Items, ArmScroll(t) \/ PutTarget(t) \/ EnchantItem(t)
  PROVE  Typed'
<1>1. DOMAIN h' = HistoryFields /\ h'.failures \in Nat
  <2>1. DOMAIN h = HistoryFields /\ h.failures \in Nat
    BY DEF Typed
  <2>2. h' = h \/ h' = [h EXCEPT !.windows = 1]
    BY DEF ArmScroll, PutTarget, EnchantItem
  <2> QED BY <2>1, <2>2 DEF HistoryFields
<1>2. CASE UNCHANGED use
  <2>1. arm' # None => arm' \in Scrolls
    BY <1>2, ItemsAssumption DEF ArmScroll, PutTarget, EnchantItem, Handled, SetActive, Scrolls
  <2>2. UNCHANGED <<rows, shown, doll, charged, queue>>
    BY DEF ArmScroll, PutTarget, EnchantItem
  <2>3. ItemsTypeOK'
    BY <2>1, <2>2 DEF Typed, ItemsTypeOK, Scrolls
  <2> QED BY <1>1, <1>2, <2>1, <2>2, <2>3, Staying
<1>3. CASE EnchantItem(t) /\ Live(arm) /\ Live(t) /\ Fits(arm, t, rows[t].level)
  <2>1. PICK u \in Use : Go("conn", u) /\ Holds(u) /\ u.at = "pay"
    BY <1>3, Enchanting
  <2>2. UNCHANGED <<rows, shown, doll, charged, queue>> /\ arm' = None
    BY <1>3 DEF EnchantItem
  <2> QED BY <1>1, <2>1, <2>2, Reading DEF Typed, ItemsTypeOK, Actors
<1> QED BY <1>2, <1>3 DEF ArmScroll, PutTarget, EnchantItem

LEMMA PayTypes ==
  ASSUME Typed, ConsumeScroll \/ EnchantResult
  PROVE  Typed'
<1> DEFINE c == use.conn
<1>1. c \in Use /\ Holds(c) /\ "conn" \in Actors /\ c.changed \in Changes
  BY DEF Typed, Actors, Use
<1>2. c.at \in {"pay", "result"} /\ c.item \in Items /\ Stock(c.copy) /\ Code(c.item) = "none" /\ c.item \in Scrolls
      /\ c.other \in Items /\ Placed(c.other, c.ocopy) /\ T[c.other].type # "EtcItem"
  BY <1>1 DEF ConsumeScroll, EnchantResult, At, Holds
<1>3. DOMAIN h' = HistoryFields /\ h'.failures \in Nat
  <2>1. DOMAIN h = HistoryFields /\ h.failures \in Nat
    BY DEF Typed
  <2>2. h' = [h EXCEPT !.attempts = @ + 1] \/ h' = [h EXCEPT !.pays = @ + 1, !.windows = @ - 1]
    BY DEF ConsumeScroll, EnchantResult, Count
  <2> QED BY <2>1, <2>2 DEF HistoryFields
<1>4. CASE ConsumeScroll
  <2> DEFINE r == Less(c.copy, 1)
             v == [c EXCEPT !.at = "result"]
             u == Says(v, c.item, r)
  <2>1. (r = Gone \/ Stock(r)) /\ Consume(c.item, c.copy, 1) = Update(c.item, r)
    BY <1>2, Writing
  <2>2. r \in Row \union {Gone}
    BY <2>1 DEF Stock
  <2> HIDE DEF r
  <2>3. Over([j \in {c.item} |-> r], c.changed) \in Changes
    BY <1>1, <1>2, <2>2, Saying
  <2>4. /\ u \in Use /\ u.at = "result" /\ u.item = c.item /\ u.copy = c.copy /\ u.other = c.other
        /\ u.ocopy = c.ocopy
    BY <1>1, <2>3 DEF Use, Says, ConnSteps
  <2>5. Go("conn", u) /\ rows' = Update(c.item, r) /\ UNCHANGED <<shown, doll, queue, arm, charged>>
    BY <1>4, <2>1 DEF ConsumeScroll, r
  <2> HIDE DEF u
  <2>6. Holds(u)
    BY <1>2, <2>4 DEF Holds
  <2> QED BY <1>1, <1>2, <1>3, <2>1, <2>4, <2>5, <2>6, Spending
<1>5. CASE EnchantResult
  <2> DEFINE v == [c EXCEPT !.at = "report"]
             u == Says(v, c.other, c.ocopy)
  <2>1. c.ocopy \in Row \union {Gone}
    BY <1>1 DEF Use
  <2>2. Over([j \in {c.other} |-> c.ocopy], c.changed) \in Changes
    BY <1>1, <1>2, <2>1, Saying
  <2>3. u \in Use /\ u.at = "report"
    BY <1>1, <2>2 DEF Use, Says, ConnSteps
  <2>4. /\ Go("conn", u) /\ rows' = Update(c.other, c.ocopy)
        /\ UNCHANGED <<shown, doll, queue, arm, charged>>
    BY <1>2, <1>5, Writing DEF EnchantResult
  <2> HIDE DEF u
  <2>5. Holds(u)
    BY <2>3 DEF Holds
  <2>6. rows' \in [Items -> Row \union {Gone, Unborn}]
    BY <1>2, <2>1, <2>4, Writing
  <2>7. \A i \in Items : Placed(i, rows'[i])
    BY <1>2, <2>4 DEF Update, Typed, ItemsTypeOK, Placed
  <2>8. ItemsTypeOK'
    BY <2>4, <2>6 DEF Typed, ItemsTypeOK
  <2> QED BY <1>1, <1>3, <2>3, <2>4, <2>5, <2>7, <2>8, Turning DEF Typed
<1> QED BY <1>4, <1>5

LEMMA OtherTypes ==
  ASSUME Typed,
         \/ CancelEnchant \/ \E i : DisableAuto(i)
         \/ Swing \/ HitLands \/ Tick \/ Relog \/ UNCHANGED vars
         \/ \E p \in Actors : StatementFails(p)
  PROVE  Typed'
<1>1. DOMAIN h = HistoryFields /\ h.failures \in Nat
  BY DEF Typed
<1>2. Dolled(rows) \in [Slots -> Items \union {None}]
  <2>1. \A s \in Slots : Dolled(rows)[s] \in Items \union {None}
    BY DEF Dolled, In
  <2> QED BY <2>1 DEF Dolled
<1>3. CASE UNCHANGED vars \/ CancelEnchant \/ \E i : DisableAuto(i)
  <2>1. UNCHANGED <<rows, use, shown, doll, charged, queue, h>> /\ arm' \in {arm, None}
    BY <1>3 DEF vars, DisableAuto, CancelEnchant
  <2>2. ItemsTypeOK'
    BY <2>1 DEF Typed, ItemsTypeOK
  <2> QED BY <1>1, <2>1, <2>2, Staying DEF Typed
<1>4. CASE Swing \/ HitLands \/ Tick
  <2>1. UNCHANGED <<rows, use, shown, doll, arm, h>> /\ charged' \subseteq charged
    BY <1>4 DEF Swing, HitLands, Tick
  <2>2. queue' \in 0 .. QueueCap
    BY <1>4, ItemsAssumption DEF Swing, HitLands, Tick, Typed, ItemsTypeOK
  <2>3. ItemsTypeOK'
    BY <2>1, <2>2 DEF Typed, ItemsTypeOK
  <2> QED BY <1>1, <2>1, <2>3, Staying DEF Typed
<1>5. CASE Relog
  <2>1. UNCHANGED <<rows, use, arm, charged, queue>> /\ shown' = rows /\ doll' = Dolled(rows)
        /\ h' = [h EXCEPT !.uses = <<>>]
    BY <1>5 DEF Relog
  <2>2. ItemsTypeOK'
    BY <1>2, <2>1 DEF Typed, ItemsTypeOK
  <2>3. DOMAIN h' = HistoryFields /\ h'.failures \in Nat
    BY <1>1, <2>1 DEF HistoryFields
  <2> QED BY <2>1, <2>2, <2>3, Staying DEF Typed
<1>6. ASSUME NEW p \in Actors, StatementFails(p) PROVE Typed'
  <2>1. UNCHANGED <<rows, arm, shown, doll, charged, queue>> /\ h' = [h EXCEPT !.failures = @ + 1] /\ Go(p, Idle)
    BY <1>6 DEF StatementFails, Count
  <2>2. DOMAIN h' = HistoryFields /\ h'.failures \in Nat
    BY <1>1, <2>1 DEF HistoryFields
  <2> QED BY <2>1, <2>2, Idling, Reading DEF Typed, ItemsTypeOK, PassSteps
<1> QED BY <1>3, <1>4, <1>5, <1>6

LEMMA StartTypes ==
  ASSUME ItemsInit
  PROVE  Typed
<1>1. rows \in [Items -> Row \union {Gone, Unborn}] /\ \A i \in Items : Placed(i, rows[i])
  BY StartsAssumption DEF ItemsInit
<1>2. Dolled(rows) \in [Slots -> Items \union {None}]
  <2>1. \A s \in Slots : Dolled(rows)[s] \in Items \union {None}
    BY DEF Dolled, In
  <2> QED BY <2>1 DEF Dolled
<1>3. ItemsTypeOK
  BY <1>1, <1>2, ItemsAssumption DEF ItemsInit, ItemsTypeOK
<1>4. use \in [Actors -> Use] /\ \A p \in Actors : use[p] = Idle
  BY Idling DEF ItemsInit
<1>5. DOMAIN h = HistoryFields /\ h.failures \in Nat
  BY DEF ItemsInit, HistoryFields
<1> QED BY <1>1, <1>3, <1>4, <1>5, Idling DEF ItemsInit, Typed, Actors, PassSteps

LEMMA CrashTypes ==
  ASSUME Typed, Crash
  PROVE  Typed'
<1>1. /\ rows' = rows /\ shown' = rows /\ doll' = Dolled(rows) /\ charged' = {} /\ queue' = 0 /\ arm' = None
      /\ use' = [p \in Actors |-> Idle]
      /\ h' = [h EXCEPT !.crashes = @ + 1, !.uses = <<>>, !.lost = @ + InFlight]
  BY DEF Crash
<1>2. Dolled(rows) \in [Slots -> Items \union {None}]
  <2>1. \A s \in Slots : Dolled(rows)[s] \in Items \union {None}
    BY DEF Dolled, In
  <2> QED BY <2>1 DEF Dolled
<1>3. ItemsTypeOK'
  BY <1>1, <1>2, ItemsAssumption DEF Typed, ItemsTypeOK
<1>4. use' \in [Actors -> Use] /\ \A p \in Actors : use'[p] = Idle
  BY <1>1, Idling
<1>5. DOMAIN h' = HistoryFields /\ h'.failures \in Nat
  <2>1. DOMAIN h = HistoryFields /\ h.failures \in Nat
    BY DEF Typed
  <2> QED BY <1>1, <2>1 DEF HistoryFields
<1>6. \A p \in Actors : Holds(use'[p])
  BY <1>4, Idling
<1> QED BY <1>1, <1>3, <1>4, <1>5, <1>6, Idling DEF Typed, Actors, PassSteps, Holds, Donning, Rolled, Placed

\* The steps, apart from those that leave everything as it is.
LEMMA Steps ==
  ASSUME [ItemsNext]_vars
  PROVE  \/ \E i \in Items : PutOn(i) \/ TakeOff(i)
         \/ \E i \in Items : Open(i) \/ Register(i) \/ Shoot(i) \/ (\E inCombat \in BOOLEAN : Drink(i, inCombat))
         \/ \E i \in Items : ArmScroll(i) \/ PutTarget(i) \/ EnchantItem(i)
         \/ PassTakes \/ (\E p \in Actors : Recharge(p)) \/ (\E i : EnableAuto(i))
         \/ ClearSlot \/ EquipItem
         \/ Show \/ ShowUnread \/ \E p \in Actors : Report(p)
         \/ AddRecipe \/ ConsumeOne \/ \E n \in Nat : Roll(n)
         \/ GiveReward
         \/ ConsumeScroll \/ EnchantResult
         \/ \E p \in Actors : ShotWeapon(p) \/ ShotSpend(p) \/ ShotCharge(p)
         \/ CancelEnchant \/ \E i : DisableAuto(i)
         \/ Swing \/ HitLands \/ Tick \/ Relog \/ UNCHANGED vars
         \/ \E p \in Actors : StatementFails(p)
         \/ Crash
<1>1. \A n \in UNION {T[i].amounts : i \in Items} : n \in Nat
  BY ItemsAssumption DEF Template
<1> QED BY <1>1 DEF ItemsNext

LEMMA TypedSteps ==
  ASSUME Typed, [ItemsNext]_vars
  PROVE  Typed'
BY Steps, DressTypes, TakeTypes, EnchantTypes, RechargeTypes, EquipTypes, ShowTypes, ConsumeTypes,
   RewardTypes, PayTypes, ShotTypes, OtherTypes, CrashTypes

---------------------------------------------------------------------------
(* What the steps do to what a goroutine holds. *)

LEMMA DressMoves ==
  ASSUME Typed, NEW i \in Items, PutOn(i) \/ TakeOff(i)
  PROVE  /\ use'.pass = use.pass /\ use.conn.at = "idle" /\ use'.conn.at = "clear"
         /\ DOMAIN use'.conn.changed = {}
         /\ \/ /\ PutOn(i) /\ Stock(rows[i]) /\ Code(i) # "none"
               /\ use'.conn.item = i /\ use'.conn.copy = rows[i] /\ use'.conn.todo \in SlotConflicts(Code(i))
            \/ use'.conn.item = None
<1>1. Idle \in Use /\ "conn" \in Actors /\ "pass" \in Actors \ {"conn"} /\ use.conn.at = "idle" /\ DOMAIN Idle.changed = {}
  BY Idling DEF Actors, PutOn, TakeOff, May, At
<1>2. CASE PutOn(i)
  <2>1. PICK w \in SlotConflicts(Code(i)) :
          Go("conn", [Idle EXCEPT !.at = "clear", !.item = i, !.copy = rows[i], !.todo = w])
    BY <1>2 DEF PutOn
  <2>2. Stock(rows[i]) /\ Code(i) # "none"
    BY <1>2 DEF PutOn, May, Live, Worn, Stock, Typed, ItemsTypeOK, Row
  <2> DEFINE u == [Idle EXCEPT !.at = "clear", !.item = i, !.copy = rows[i], !.todo = w]
  <2>3. u.at = "clear" /\ u.item = i /\ u.copy = rows[i] /\ u.todo = w /\ u.changed = Idle.changed
    BY <1>1 DEF Use
  <2>4. Go("conn", u)
    BY <2>1
  <2> HIDE DEF u
  <2>5. use'.conn = u /\ use'.pass = use.pass
    BY <1>1, <2>4 DEF Go, Typed
  <2> QED BY <1>1, <1>2, <2>2, <2>3, <2>5
<1>3. CASE TakeOff(i)
  <2> DEFINE u == [Idle EXCEPT !.at = "clear", !.todo = <<rows[i].slot>>]
  <2>1. u.at = "clear" /\ u.item = None /\ u.changed = Idle.changed
    BY <1>1 DEF Use, Idle
  <2>2. Go("conn", u)
    BY <1>3 DEF TakeOff
  <2> HIDE DEF u
  <2>3. use'.conn = u /\ use'.pass = use.pass
    BY <1>1, <2>2 DEF Go, Typed
  <2> QED BY <1>1, <2>1, <2>3
<1> QED BY <1>2, <1>3

LEMMA EquipMoves ==
  ASSUME Typed, EquipItem
  PROVE  LET c == use.conn
             d == use'.conn
             worn == [c.copy EXCEPT !.slot = c.other]
         IN  /\ c.at = "equip" /\ c.other \in Slots /\ Donning(c, c.other) /\ c.changed \in Changes
             /\ worn \in Row /\ worn.slot = c.other /\ worn.count = c.copy.count
             /\ rows' = IF Live(c.item) THEN [rows EXCEPT ![c.item].slot = c.other] ELSE rows
             /\ use'.pass = use.pass /\ d.at = "show" /\ d.item = c.item /\ d.other = c.other
             /\ d.changed = Over([j \in {c.item} |-> worn], c.changed)
<1> DEFINE c == use.conn
           worn == [c.copy EXCEPT !.slot = c.other]
           v == [c EXCEPT !.at = "show"]
           u == Says(v, c.item, worn)
<1>1. c \in Use /\ Holds(c) /\ "conn" \in Actors /\ "pass" \in Actors \ {"conn"}
  BY DEF Typed, Actors
<1>2. c.at = "equip" /\ c.other \in Slots /\ Donning(c, c.other) /\ c.changed \in Changes
  BY <1>1 DEF EquipItem, At, Holds, Use
<1>3. worn \in Row /\ worn.slot = c.other /\ worn.count = c.copy.count
  BY <1>2 DEF Donning, Stock, Row
<1>4. rows' = (IF Live(c.item) THEN [rows EXCEPT ![c.item].slot = c.other] ELSE rows) /\ Go("conn", u)
  BY DEF EquipItem
<1> HIDE DEF worn
<1>5. u.at = "show" /\ u.item = c.item /\ u.other = c.other /\ u.changed = Over([j \in {c.item} |-> worn], c.changed)
  BY <1>1 DEF Use, Says
<1> HIDE DEF u
<1>6. use'.conn = u /\ use'.pass = use.pass
  BY <1>1, <1>4 DEF Go, Typed
<1> QED BY <1>2, <1>3, <1>4, <1>5, <1>6 DEF worn

LEMMA TakeMoves ==
  ASSUME Typed, NEW i \in Items,
         Open(i) \/ Register(i) \/ Shoot(i) \/ (\E inCombat \in BOOLEAN : Drink(i, inCombat))
  PROVE  LET d == use'.conn IN
         /\ rows' = rows /\ use'.pass = use.pass /\ use.conn.at = "idle" /\ May(i) /\ Code(i) = "none"
         /\ d.item = i /\ d.copy = rows[i] /\ Stock(rows[i]) /\ DOMAIN d.changed = {} /\ ~d.auto
         /\ d.at \in {"consume", "register", "weapon"}
         /\ d.at = "register" => T[i].handler = "Recipes"
         /\ d.at = "consume" => T[i].handler \in {"ItemSkills", "ExtractableItems"}
         /\ d.at = "weapon" => i \in SoulShots
<1>1. PICK k \in {"consume", "register", "weapon"} :
        /\ Go("conn", Consuming(i, k)) /\ UNCHANGED rows
        /\ May(i) /\ Code(i) = "none"
        /\ k = "register" => T[i].handler = "Recipes"
        /\ k = "consume" => T[i].handler \in {"ItemSkills", "ExtractableItems"}
        /\ k = "weapon" => i \in SoulShots
  BY DEF Open, Register, Shoot, Drink, Handled, SoulShots
<1>2. Stock(rows[i])
  BY <1>1 DEF May, Live, Stock, Typed, ItemsTypeOK, Row, Placed
<1> DEFINE u == Consuming(i, k)
<1>3. u.at = k /\ u.item = i /\ u.copy = rows[i] /\ DOMAIN u.changed = {} /\ ~u.auto
  <2>1. k \in ConnSteps
    BY <1>1 DEF ConnSteps
  <2>2. Consuming(i, k).at = k BY <2>1 DEF Consuming, Idle
  <2>3. Consuming(i, k).item = i BY <1>2, <2>1, Beginning
  <2>4. Consuming(i, k).copy = rows[i] BY <1>2, <2>1, Beginning
  <2>5. DOMAIN Consuming(i, k).changed = {} BY <1>2, <2>1, Beginning
  <2>6. ~Consuming(i, k).auto BY <2>1 DEF Consuming, Idle
  <2> QED BY <2>2, <2>3, <2>4, <2>5, <2>6 DEF u
<1>4. Go("conn", u)
  BY <1>1
<1> HIDE DEF u
<1>5. use'.conn = u /\ use'.pass = use.pass
  BY <1>4 DEF Go, Typed, Actors
<1> QED BY <1>1, <1>2, <1>3, <1>5 DEF May, At

LEMMA ConsumeMoves ==
  ASSUME Typed, ConsumeOne
  PROVE  LET c == use.conn
             d == use'.conn
             r == Less(c.copy, 1)
         IN  /\ c.at = "consume" /\ c.item \in Items /\ Stock(c.copy) /\ Code(c.item) = "none" /\ c.changed \in Changes
             /\ r = Gone \/ (Stock(r) /\ r.count <= c.copy.count)
             /\ rows' = Update(c.item, r) /\ use'.pass = use.pass
             /\ d.at = IF T[c.item].handler = "ExtractableItems" THEN "roll" ELSE "show"
             /\ d.item = c.item /\ d.copy = c.copy /\ d.other = "used" /\ d.auto = c.auto
             /\ d.changed = Over([j \in {c.item} |-> r], c.changed)
<1> DEFINE c == use.conn
           r == Less(c.copy, 1)
           a == IF T[c.item].handler = "ExtractableItems" THEN "roll" ELSE "show"
           v == [c EXCEPT !.other = "used", !.at = a]
           u == Says(v, c.item, r)
<1>1. c \in Use /\ Holds(c)
  BY DEF Typed, Actors
<1>2. c.at = "consume" /\ c.item \in Items /\ Stock(c.copy) /\ Code(c.item) = "none" /\ c.changed \in Changes
  BY <1>1 DEF ConsumeOne, At, Holds, Use
<1>3. (r = Gone \/ (Stock(r) /\ r.count <= c.copy.count)) /\ Consume(c.item, c.copy, 1) = Update(c.item, r)
  BY <1>2, Writing
<1>4. Go("conn", u) /\ rows' = Update(c.item, r)
  BY <1>3 DEF ConsumeOne
<1> HIDE DEF r, a
<1>5. /\ u.at = a /\ u.item = c.item /\ u.copy = c.copy /\ u.other = "used" /\ u.auto = c.auto
      /\ u.changed = Over([j \in {c.item} |-> r], c.changed)
  BY <1>1 DEF Use, Says
<1> HIDE DEF u
<1>6. use'.conn = u /\ use'.pass = use.pass
  BY <1>4 DEF Go, Typed, Actors
<1> QED BY <1>2, <1>3, <1>4, <1>5, <1>6 DEF r, a

LEMMA RecipeMoves ==
  ASSUME Typed, AddRecipe
  PROVE  LET c == use.conn
             d == use'.conn
         IN  /\ c.at = "register" /\ c.item \in Items /\ T[c.item].handler = "Recipes"
             /\ rows' = rows /\ book' = book \union {T[c.item].recipe} /\ use'.pass = use.pass
             /\ d.at = "consume" /\ d.item = c.item /\ d.copy = c.copy /\ d.changed = c.changed /\ d.auto = c.auto
<1> DEFINE c == use.conn
           u == [c EXCEPT !.at = "consume"]
<1>1. c \in Use /\ Holds(c)
  BY DEF Typed, Actors
<1>2. c.at = "register" /\ c.item \in Items /\ T[c.item].handler = "Recipes"
  BY <1>1 DEF AddRecipe, At, Holds
<1>3. u.at = "consume" /\ u.item = c.item /\ u.copy = c.copy /\ u.changed = c.changed /\ u.auto = c.auto
  BY <1>1 DEF Use
<1>4. Go("conn", u) /\ rows' = rows /\ book' = book \union {T[c.item].recipe}
  BY DEF AddRecipe
<1> HIDE DEF u
<1>5. use'.conn = u /\ use'.pass = use.pass
  BY <1>4 DEF Go, Typed, Actors
<1> QED BY <1>2, <1>3, <1>4, <1>5

LEMMA RollMoves ==
  ASSUME Typed, NEW n \in Nat, Roll(n)
  PROVE  LET c == use.conn
             d == use'.conn
         IN  /\ c.at = "roll" /\ c.item \in Items /\ c.other = "used"
             /\ rows' = rows /\ use'.pass = use.pass
             /\ d.at \in {"show", "grant"} /\ d.item = c.item /\ d.changed = c.changed
             /\ d.other = c.other /\ d.auto = c.auto
             /\ d.todo[2] \in Items \union {None}
             /\ d.todo[2] # None => /\ d.ocopy = rows[d.todo[2]] /\ Live(d.todo[2])
                                    /\ T[d.todo[2]].item = T[c.item].gives
<1> DEFINE c == use.conn
<1>1. c \in Use /\ Holds(c)
  BY DEF Typed, Actors
<1>2. c.at = "roll" /\ c.item \in Items /\ c.other = "used" /\ rows' = rows
  BY <1>1 DEF Roll, At, Holds
<1>3. PICK j \in Items \union {None} :
        /\ Go("conn", [c EXCEPT !.at = IF n = 0 THEN "show" ELSE "grant", !.todo = <<n, j>>,
                                !.ocopy = IF j = None THEN Gone ELSE rows[j]])
        /\ j # None => j \in Stacks(T[c.item].gives)
  BY DEF Roll, Stacks, GetByCharacter
<1> DEFINE a == IF n = 0 THEN "show" ELSE "grant"
           b == IF j = None THEN Gone ELSE rows[j]
           u == [c EXCEPT !.at = a, !.todo = <<n, j>>, !.ocopy = b]
<1>4. j # None => b = rows[j] /\ Live(j) /\ T[j].item = T[c.item].gives
  BY <1>3 DEF Stacks, GetByCharacter
<1>5. a \in {"show", "grant"} /\ Go("conn", u)
  BY <1>3
<1> HIDE DEF a, b
<1>6. /\ u.at = a /\ u.item = c.item /\ u.changed = c.changed /\ u.other = c.other /\ u.auto = c.auto
      /\ u.todo = <<n, j>> /\ u.ocopy = b
  BY <1>1 DEF Use
<1> HIDE DEF u
<1>7. use'.conn = u /\ use'.pass = use.pass
  BY <1>5 DEF Go, Typed, Actors
<1>8. u.todo[2] = j
  BY <1>6
<1> QED BY <1>2, <1>3, <1>4, <1>5, <1>6, <1>7, <1>8

LEMMA RewardMoves ==
  ASSUME Typed, GiveReward
  PROVE  LET c == use.conn
             d == use'.conn
         IN  /\ c.at = "grant" /\ c.item \in Items /\ c.other = "used" /\ c.changed \in Changes
             /\ use'.pass = use.pass /\ d.at = "show" /\ d.item = c.item /\ d.other = c.other
             /\ \E j \in Items, r \in Row :
                  /\ Stock(r) /\ rows[j].slot \notin Slots
                  /\ d.changed = Over([k \in {j} |-> r], c.changed)
                  /\ \/ rows' = Update(j, r) /\ j = c.todo[2] /\ r.count >= c.ocopy.count
                     \/ rows' = [rows EXCEPT ![j] = r] /\ rows[j] = Unborn /\ c.todo[2] = None
<1> DEFINE c == use.conn
<1>1. c \in Use /\ Holds(c)
  BY DEF Typed, Actors
<1>2. c.at = "grant" /\ c.item \in Items /\ c.other = "used" /\ c.changed \in Changes
  BY <1>1 DEF GiveReward, At, Holds, Use
<1>3. PICK j \in Items, r \in Row :
           /\ Stock(r) /\ rows[j].slot \notin Slots
           /\ Go("conn", Says([c EXCEPT !.at = "show"], j, r))
           /\ \/ rows' = Update(j, r) /\ j = c.todo[2] /\ r.count >= c.ocopy.count
              \/ rows' = [rows EXCEPT ![j] = r] /\ rows[j] = Unborn /\ c.todo[2] = None
  BY Rewarding
<1> DEFINE v == [c EXCEPT !.at = "show"]
           u == Says(v, j, r)
<1>4. /\ u.at = "show" /\ u.item = c.item /\ u.other = c.other
      /\ u.changed = Over([k \in {j} |-> r], c.changed)
  BY <1>1 DEF Use, Says
<1>5. Go("conn", u)
  BY <1>3
<1> HIDE DEF u
<1>6. use'.conn = u /\ use'.pass = use.pass
  BY <1>5 DEF Go, Typed, Actors
<1> QED BY <1>2, <1>3, <1>4, <1>6

LEMMA ShotMoves ==
  ASSUME Typed, NEW p \in Actors, ShotWeapon(p) \/ ShotSpend(p) \/ ShotCharge(p)
  PROVE  LET c == use[p]
             d == use'[p]
             r == Less(c.copy, T[c.other].shots)
         IN  /\ c.item \in SoulShots /\ Stock(c.copy) /\ c.changed \in Changes
             /\ \A q \in Actors \ {p} : use'[q] = use[q]
             /\ \/ ShotWeapon(p) /\ c.at = "weapon" /\ d = Idle /\ rows' = rows
                \/ /\ ShotWeapon(p) /\ c.at = "weapon" /\ rows' = rows
                   /\ d.at = "spend" /\ d.item = c.item /\ d.copy = c.copy
                   /\ d.changed = c.changed /\ d.auto = c.auto /\ d.copy.count >= T[d.other].shots
                \/ /\ ShotSpend(p) /\ c.at = "spend" /\ rows' = Update(c.item, r)
                   /\ r = Gone \/ (Stock(r) /\ r.count <= c.copy.count)
                   /\ d.at = "charge" /\ d.item = c.item /\ d.copy = c.copy /\ d.other = c.other
                   /\ d.changed = Over([j \in {c.item} |-> r], c.changed) /\ d.auto = c.auto
                \/ /\ ShotCharge(p) /\ c.at = "charge" /\ rows' = rows
                   /\ d.at = IF c.auto THEN "report" ELSE "show"
                   /\ d.item = c.item /\ d.other = "used" /\ d.changed = c.changed /\ d.auto = c.auto
<1> DEFINE c == use[p]
           n == T[c.other].shots
           r == Less(c.copy, n)
<1>1. c \in Use /\ Holds(c) /\ c.changed \in Changes
  BY DEF Typed, Use
<1>2. c.at \in {"weapon", "spend", "charge"} /\ c.item \in SoulShots /\ Stock(c.copy) /\ c.item \in Items
  BY <1>1 DEF ShotWeapon, ShotSpend, ShotCharge, At, Holds
<1>3. ASSUME NEW u, Go(p, u) PROVE use'[p] = u /\ \A q \in Actors \ {p} : use'[q] = use[q]
  BY <1>3 DEF Go, Typed
<1>4. CASE ShotWeapon(p) /\ Go(p, Idle)
  BY <1>1, <1>2, <1>3, <1>4 DEF ShotWeapon, At
<1>5. ASSUME ShotWeapon(p), NEW w \in In(rows, "rhand"), ShotFits(p, w),
             Go(p, [c EXCEPT !.at = "spend", !.other = w])
      PROVE  /\ c.at = "weapon" /\ rows' = rows
             /\ use'[p].at = "spend" /\ use'[p].item = c.item /\ use'[p].copy = c.copy
             /\ use'[p].changed = c.changed /\ use'[p].auto = c.auto
             /\ use'[p].copy.count >= T[use'[p].other].shots
             /\ \A q \in Actors \ {p} : use'[q] = use[q]
  <2> DEFINE u == [c EXCEPT !.at = "spend", !.other = w]
  <2>1. /\ u.at = "spend" /\ u.item = c.item /\ u.copy = c.copy /\ u.changed = c.changed /\ u.auto = c.auto
        /\ u.other = w
    BY <1>1 DEF Use
  <2>2. Go(p, u)
    BY <1>5
  <2> HIDE DEF u
  <2>3. c.copy.count >= T[w].shots
    BY <1>5 DEF ShotFits
  <2> QED BY <1>3, <1>5, <2>1, <2>2, <2>3 DEF ShotWeapon, At
<1>6. ASSUME ShotSpend(p)
      PROVE  /\ c.at = "spend" /\ rows' = Update(c.item, r)
             /\ r = Gone \/ (Stock(r) /\ r.count <= c.copy.count)
             /\ use'[p].at = "charge" /\ use'[p].item = c.item /\ use'[p].copy = c.copy
             /\ use'[p].other = c.other
             /\ use'[p].changed = Over([j \in {c.item} |-> r], c.changed) /\ use'[p].auto = c.auto
             /\ \A q \in Actors \ {p} : use'[q] = use[q]
  <2> DEFINE v == [c EXCEPT !.at = "charge"]
             u == Says(v, c.item, r)
  <2>1. c.at = "spend" /\ c.other \in Items
    BY <1>1, <1>6 DEF ShotSpend, At, Holds
  <2>2. n \in Nat
    BY <2>1, ItemsAssumption DEF Template
  <2>3. rows' = Consume(c.item, c.copy, n) /\ Go(p, u)
    BY <1>6 DEF ShotSpend
  <2> HIDE DEF n
  <2>4. (r = Gone \/ (Stock(r) /\ r.count <= c.copy.count)) /\ rows' = Update(c.item, r)
    BY <1>2, <2>2, <2>3, Writing
  <2> HIDE DEF r
  <2>5. /\ u.at = "charge" /\ u.item = c.item /\ u.copy = c.copy /\ u.auto = c.auto /\ u.other = c.other
        /\ u.changed = Over([j \in {c.item} |-> r], c.changed)
    BY <1>1 DEF Use, Says
  <2> HIDE DEF u
  <2> QED BY <1>3, <2>1, <2>3, <2>4, <2>5
<1>7. ASSUME ShotCharge(p)
      PROVE  /\ c.at = "charge" /\ rows' = rows
             /\ use'[p].at = IF c.auto THEN "report" ELSE "show"
             /\ use'[p].item = c.item /\ use'[p].other = "used" /\ use'[p].changed = c.changed
             /\ use'[p].auto = c.auto
             /\ \A q \in Actors \ {p} : use'[q] = use[q]
  <2> DEFINE a == IF c.auto THEN "report" ELSE "show"
             u == [c EXCEPT !.other = "used", !.at = a]
  <2>1. u.at = a /\ u.other = "used" /\ u.item = c.item /\ u.changed = c.changed /\ u.auto = c.auto
    <3> HIDE DEF a
    <3> QED BY <1>1 DEF Use
  <2>2. Go(p, u)
    BY <1>7 DEF ShotCharge
  <2> HIDE DEF u
  <2> QED BY <1>3, <1>7, <2>1, <2>2 DEF ShotCharge, At
<1> HIDE DEF r, n
<1>8. \/ ShotWeapon(p) /\ Go(p, Idle)
      \/ ShotWeapon(p) /\ \E w \in In(rows, "rhand") :
           ShotFits(p, w) /\ Go(p, [c EXCEPT !.at = "spend", !.other = w])
      \/ ShotSpend(p) \/ ShotCharge(p)
  BY DEF ShotWeapon
<1> QED BY <1>1, <1>2, <1>4, <1>5, <1>6, <1>7, <1>8 DEF r, n

LEMMA RechargeMoves ==
  ASSUME Typed, NEW p \in Actors, Recharge(p)
  PROVE  /\ \A q \in Actors \ {p} : use'[q] = use[q]
         /\ use[p].at = "list" /\ rows' = rows
         /\ \/ use'[p] = Idle
            \/ /\ use'[p].at = "weapon" /\ use'[p].item \in SoulShots /\ use'[p].copy = rows[use'[p].item]
               /\ DOMAIN use'[p].changed = {} /\ use'[p].auto
<1>1. ASSUME NEW u, Go(p, u) PROVE use'[p] = u /\ \A q \in Actors \ {p} : use'[q] = use[q]
  BY <1>1 DEF Go, Typed
<1>2. ASSUME NEW i \in AutoSoulShots, NEW j \in Stacks(i), Go(p, [Consuming(j, "weapon") EXCEPT !.auto = TRUE])
      PROVE  /\ use'[p].at = "weapon" /\ use'[p].item \in SoulShots /\ use'[p].copy = rows[use'[p].item]
             /\ DOMAIN use'[p].changed = {} /\ use'[p].auto
             /\ \A q \in Actors \ {p} : use'[q] = use[q]
  <2> DEFINE v == Consuming(j, "weapon")
             u == [v EXCEPT !.auto = TRUE]
  <2>1. j \in SoulShots /\ Stock(rows[j])
    BY Stacked
  <2>2. j \in Items
    BY <2>1, KindsApart
  <2>3. v \in Use /\ v.at = "weapon" /\ v.item = j /\ v.copy = rows[j] /\ DOMAIN v.changed = {}
    BY <2>1, <2>2, Idling DEF Consuming, Use, Stock, ConnSteps, Idle
  <2>4. Go(p, u)
    BY <1>2
  <2> HIDE DEF v
  <2>5. u.at = "weapon" /\ u.item = j /\ u.copy = rows[j] /\ DOMAIN u.changed = {} /\ u.auto
    BY <2>3 DEF Use
  <2> HIDE DEF u
  <2> QED BY <1>1, <2>1, <2>4, <2>5
<1>3. use[p].at = "list" /\ rows' = rows
  BY DEF Recharge, At
<1>4. \/ Go(p, Idle)
      \/ \E i \in AutoSoulShots : \E j \in Stacks(i) : Go(p, [Consuming(j, "weapon") EXCEPT !.auto = TRUE])
  BY DEF Recharge
<1> QED BY <1>1, <1>2, <1>3, <1>4

LEMMA ListMoves ==
  ASSUME Typed, NEW p \in Actors, Go(p, [Idle EXCEPT !.at = "list"])
  PROVE  use'[p].at = "list" /\ DOMAIN use'[p].changed = {} /\ \A q \in Actors \ {p} : use'[q] = use[q]
<1> DEFINE u == [Idle EXCEPT !.at = "list"]
<1>1. u.at = "list" /\ DOMAIN u.changed = {}
  BY Idling DEF Idle
<1> HIDE DEF u
<1>2. Go(p, u)
  BY DEF u
<1> QED BY <1>1, <1>2 DEF Go, Typed

LEMMA PayMoves ==
  ASSUME Typed, ConsumeScroll
  PROVE  LET c == use.conn
             d == use'.conn
             r == Less(c.copy, 1)
         IN  /\ c.at = "pay" /\ c.item \in Scrolls /\ Stock(c.copy) /\ c.changed \in Changes
             /\ c.other \in Items /\ T[c.other].type # "EtcItem" /\ Placed(c.other, c.ocopy)
             /\ r = Gone \/ (Stock(r) /\ r.count <= c.copy.count)
             /\ rows' = Update(c.item, r) /\ use'.pass = use.pass
             /\ d.at = "result" /\ d.item = c.item /\ d.other = c.other /\ d.ocopy = c.ocopy
             /\ d.changed = Over([j \in {c.item} |-> r], c.changed)
<1> DEFINE c == use.conn
           r == Less(c.copy, 1)
           v == [c EXCEPT !.at = "result"]
           u == Says(v, c.item, r)
<1>1. c \in Use /\ Holds(c)
  BY DEF Typed, Actors
<1>2. /\ c.at = "pay" /\ c.item \in Scrolls /\ Stock(c.copy) /\ c.changed \in Changes /\ c.item \in Items
      /\ c.other \in Items /\ T[c.other].type # "EtcItem" /\ Placed(c.other, c.ocopy)
  BY <1>1 DEF ConsumeScroll, At, Holds, Use
<1>3. (r = Gone \/ (Stock(r) /\ r.count <= c.copy.count)) /\ Consume(c.item, c.copy, 1) = Update(c.item, r)
  BY <1>2, Writing
<1>4. Go("conn", u) /\ rows' = Update(c.item, r)
  BY <1>3 DEF ConsumeScroll
<1> HIDE DEF r
<1>5. /\ u.at = "result" /\ u.item = c.item /\ u.other = c.other /\ u.ocopy = c.ocopy
      /\ u.changed = Over([j \in {c.item} |-> r], c.changed)
  BY <1>1 DEF Use, Says
<1> HIDE DEF u
<1>6. use'.conn = u /\ use'.pass = use.pass
  BY <1>4 DEF Go, Typed, Actors
<1> QED BY <1>2, <1>3, <1>4, <1>5, <1>6 DEF r

LEMMA ResultMoves ==
  ASSUME Typed, EnchantResult
  PROVE  LET c == use.conn
             d == use'.conn
         IN  /\ c.at = "result" /\ c.item \in Scrolls /\ c.changed \in Changes
             /\ c.other \in Items /\ T[c.other].type # "EtcItem" /\ Placed(c.other, c.ocopy)
             /\ c.ocopy \in Row \union {Gone}
             /\ rows' = Update(c.other, c.ocopy) /\ use'.pass = use.pass
             /\ d.at = "report" /\ d.changed = Over([j \in {c.other} |-> c.ocopy], c.changed)
<1> DEFINE c == use.conn
           v == [c EXCEPT !.at = "report"]
           u == Says(v, c.other, c.ocopy)
<1>1. c \in Use /\ Holds(c)
  BY DEF Typed, Actors
<1>2. /\ c.at = "result" /\ c.item \in Scrolls /\ c.changed \in Changes /\ c.ocopy \in Row \union {Gone}
      /\ c.other \in Items /\ T[c.other].type # "EtcItem" /\ Placed(c.other, c.ocopy)
  BY <1>1 DEF EnchantResult, At, Holds, Use
<1>3. Go("conn", u) /\ rows' = Update(c.other, c.ocopy)
  BY <1>2, Writing DEF EnchantResult
<1>4. u.at = "report" /\ u.changed = Over([j \in {c.other} |-> c.ocopy], c.changed)
  BY <1>1 DEF Use, Says
<1> HIDE DEF u
<1>5. use'.conn = u /\ use'.pass = use.pass
  BY <1>3 DEF Go, Typed, Actors
<1> QED BY <1>2, <1>3, <1>4, <1>5

---------------------------------------------------------------------------
(* Slots stay exclusive. *)

\* Rows that are worn as before, or no longer.
LEMMA Undress ==
  ASSUME NEW R, NEW Q, Exclusive(R), \A i \in Items : Q[i].slot \in Slots => Q[i].slot = R[i].slot
  PROVE  Exclusive(Q)
<1>1. "lhand" \in Slots
  BY DEF Slots
<1> QED BY <1>1 DEF Exclusive

\* The rows with the item on, for an item that just started its way.
LEMMA Dressing ==
  ASSUME Typed, Exclusive(rows), NEW i \in Items, Stock(rows[i]), Code(i) # "none",
         NEW u, u.item = i, u.copy = rows[i], u.todo \in SlotConflicts(Code(i))
  PROVE  Exclusive(Dressed(u))
<1> DEFINE w == u.todo
           D == Dressed(u)
           s == w[Len(w)]
           W == {w[k] : k \in DOMAIN w}
<1>1. /\ w \in Places
      /\ Code(i) = "lrhand" => w = <<"lhand", "rhand">>
      /\ Code(i) = "full" => w = <<"legs", "chest">>
      /\ Code(i) \in DOMAIN SecondSlot => \E x \in Slots \ {"rhand", "lhand"} : w = <<x>>
      /\ Code(i) = "lhand" => w = <<"lhand">> \/ w = <<"rhand", "lhand">>
      /\ Code(i) = "lhand" /\ TwoHandedHeld => w = <<"rhand", "lhand">>
      /\ Code(i) \notin {"lrhand", "full", "lhand"} \union DOMAIN SecondSlot => w = <<Code(i)>> /\ Code(i) \in Slots
  BY Conflicts
<1>2. \/ \E x \in Slots : w = <<x>> /\ s = x /\ W = {x}
      \/ \E x, y \in Slots : w = <<x, y>> /\ s = y /\ W = {x, y}
  BY <1>1, PlacesSplit
<1>3. s \in Slots /\ s \in W
  BY <1>2
<1>4. /\ Code(i) = "lrhand" => s = "rhand" /\ W = {"lhand", "rhand"}
      /\ Code(i) # "lrhand" /\ s = "lhand" => Code(i) = "lhand"
      /\ Code(i) = "lhand" /\ TwoHandedHeld => "rhand" \in W
  <2>1. ASSUME NEW x, w = <<x>> PROVE s = x
    BY <2>1
  <2>2. ASSUME NEW x, NEW y, w = <<x, y>> PROVE s = y /\ W = {x, y}
    BY <2>2
  <2> HIDE DEF w, s, W
  <2> QED BY <1>1, <2>1, <2>2
<1>5. /\ D[i].slot = s
      /\ \A j \in Items \ {i} : D[j].slot \in Slots => D[j].slot = rows[j].slot /\ rows[j].slot \notin W
  <2>1. "bag" \notin Slots
    BY DEF Slots
  <2>2. D[i] = [u.copy EXCEPT !.slot = s]
    BY DEF Dressed
  <2>3. D[i].slot = s
    BY <2>2 DEF Stock, Row
  <2>4. ASSUME NEW j \in Items \ {i}, D[j].slot \in Slots
        PROVE  D[j].slot = rows[j].slot /\ rows[j].slot \notin W
    <3>1. D[j] = IF rows[j].slot \in W THEN [rows[j] EXCEPT !.slot = "bag"] ELSE rows[j]
      BY DEF Dressed
    <3>2. rows[j] \in Row \union {Gone, Unborn}
      BY DEF Typed, ItemsTypeOK
    <3>3. [rows[j] EXCEPT !.slot = "bag"].slot = "bag"
      BY <3>2 DEF Row, Gone, Unborn
    <3> HIDE DEF D, W
    <3> QED BY <2>1, <2>4, <3>1, <3>3
  <2> QED BY <2>3, <2>4
<1> HIDE DEF D, s, W, w
<1>6. ASSUME NEW j \in Items, NEW k \in Items, D[j].slot \in Slots, D[j].slot = D[k].slot
      PROVE  j = k
  BY <1>3, <1>5, <1>6 DEF Exclusive
<1>7. ASSUME NEW j \in Items, NEW k \in Items, D[j].slot \in Slots, Code(j) = "lrhand", D[k].slot = "lhand"
      PROVE  FALSE
  <2>1. "lhand" \in Slots /\ "rhand" \in Slots
    BY DEF Slots
  <2>2. CASE j = i
    BY <1>4, <1>5, <1>7, <2>1, <2>2
  <2>3. CASE j # i /\ k # i
    BY <1>5, <1>7, <2>1, <2>3 DEF Exclusive
  <2>4. CASE j # i /\ k = i
    <3>1. rows[j].slot \in Slots /\ rows[j].slot \notin W
      BY <1>5, <1>7, <2>4
    <3>2. rows[j].slot = "rhand"
      BY <1>7, <3>1 DEF Typed, Placed
    <3>3. TwoHandedHeld
      BY <1>7, <3>2 DEF TwoHandedHeld, In
    <3>4. Code(i) # "lrhand"
      BY <1>4, <3>1, <3>2
    <3> QED BY <1>4, <1>5, <1>7, <2>4, <3>1, <3>2, <3>3, <3>4
  <2> QED BY <2>2, <2>3, <2>4
<1> QED BY <1>6, <1>7 DEF D, Exclusive

\* Nothing is put on, and the connection does not begin to.
LEMMA Shedding ==
  ASSUME Typed, Typed', Slotted,
         \A i \in Items : rows'[i] = rows[i] \/ rows'[i].slot \notin Slots,
         \/ use'.conn = use.conn
         \/ use'.conn.at \notin {"clear", "equip", "pay", "result"}
         \/ use'.conn.at = "clear" /\ use'.conn.item = None
  PROVE  Slotted'
<1>1. Exclusive(rows')
  BY Undress DEF Slotted
<1>2. CASE use'.conn = use.conn
  <2> DEFINE c == use.conn
  <2>1. c \in Use /\ Holds(c)
    BY DEF Typed, Actors
  <2>2. ASSUME c.at = "clear", c.item # None PROVE Exclusive(Dressed(use.conn)')
    <3> DEFINE W == {c.todo[k] : k \in DOMAIN c.todo}
               D == Dressed(c)
               E == Dressed(use.conn)'
    <3>1. "bag" \notin Slots
      BY DEF Slots
    <3>2. ASSUME NEW j \in Items, E[j].slot \in Slots PROVE E[j].slot = D[j].slot
      <4>1. CASE j = c.item
        BY <1>2, <4>1 DEF Dressed
      <4>2. CASE j # c.item
        <5>1. /\ D[j] = IF rows[j].slot \in W THEN [rows[j] EXCEPT !.slot = "bag"] ELSE rows[j]
              /\ E[j] = IF rows'[j].slot \in W THEN [rows'[j] EXCEPT !.slot = "bag"] ELSE rows'[j]
          BY <1>2, <4>2 DEF Dressed
        <5>2. rows'[j] \in Row \union {Gone, Unborn}
          BY DEF Typed, ItemsTypeOK
        <5>3. [rows'[j] EXCEPT !.slot = "bag"].slot = "bag"
          BY <5>2 DEF Row, Gone, Unborn
        <5> HIDE DEF W, D, E
        <5> QED BY <3>1, <3>2, <5>1, <5>3
      <4> QED BY <4>1, <4>2
    <3>3. Exclusive(D)
      BY <2>2 DEF Slotted
    <3> HIDE DEF D, E
    <3>4. Exclusive(E)
      BY <3>2, <3>3, Undress
    <3> QED BY <3>4 DEF E
  <2>3. ASSUME NEW k \in Items, NEW r, Exclusive([rows EXCEPT ![k] = r])
        PROVE  Exclusive([rows' EXCEPT ![k] = r])
    <3>1. \A j \in Items : /\ [rows EXCEPT ![k] = r][j] = IF j = k THEN r ELSE rows[j]
                           /\ [rows' EXCEPT ![k] = r][j] = IF j = k THEN r ELSE rows'[j]
      BY DEF Typed, ItemsTypeOK
    <3> DEFINE R == [rows EXCEPT ![k] = r]
               Q == [rows' EXCEPT ![k] = r]
    <3> HIDE DEF R, Q
    <3>2. \A j \in Items : Q[j].slot \in Slots => Q[j].slot = R[j].slot
      BY <3>1 DEF R, Q
    <3>3. Exclusive(R)
      BY <2>3 DEF R
    <3>4. Exclusive(Q)
      BY <3>2, <3>3, Undress
    <3> QED BY <3>4 DEF Q
  <2>4. c.at = "equip" => Exclusive([rows' EXCEPT ![c.item] = [c.copy EXCEPT !.slot = c.other]])
    BY <2>1, <2>3 DEF Slotted, Holds, Donning
  <2>5. c.at \in {"pay", "result"} => Exclusive([rows' EXCEPT ![c.other] = c.ocopy])
    BY <2>1, <2>3 DEF Slotted, Holds
  <2> QED BY <1>1, <1>2, <2>2, <2>4, <2>5 DEF Slotted
<1>3. CASE use'.conn.at \notin {"clear", "equip", "pay", "result"}
  BY <1>1, <1>3 DEF Slotted
<1>4. CASE use'.conn.at = "clear" /\ use'.conn.item = None
  BY <1>1, <1>4 DEF Slotted
<1> QED BY <1>2, <1>3, <1>4

LEMMA Sparing ==
  ASSUME Typed, NEW i \in Items, NEW r, r = Gone \/ Stock(r),
         rows' = Update(i, r) \/ rows' = [rows EXCEPT ![i] = r]
  PROVE  \A j \in Items : rows'[j] = rows[j] \/ rows'[j].slot \notin Slots
<1>1. r.slot \notin Slots
  BY DEF Stock, Gone, Slots
<1> QED BY <1>1 DEF Update, Typed, ItemsTypeOK

\* One slot is emptied.
LEMMA SlottedClear ==
  ASSUME Typed, Typed', Slotted, ClearSlot
  PROVE  Slotted'
<1> DEFINE c == use.conn
           s == Head(c.todo)
           bare(i) == [rows[i] EXCEPT !.slot = "bag"]
<1>1. /\ c.at = "clear" /\ c.todo \in Places /\ s \in Slots
      /\ \A i \in Items :
           /\ rows[i].slot = s => rows'[i] = bare(i) /\ Stock(rows'[i])
           /\ rows[i].slot # s => rows'[i] = rows[i]
  BY Clearing
<1>2. PICK u \in Use :
        /\ Go("conn", u) /\ u.item = c.item /\ u.copy = c.copy
        /\ \/ Len(c.todo) = 2 /\ u.at = "clear" /\ u.todo = Tail(c.todo)
           \/ Len(c.todo) = 1 /\ c.item = None /\ u.at = "show" /\ u.other = s
           \/ Len(c.todo) = 1 /\ c.item # None /\ u.at = "equip" /\ u.other = s
  BY Clearing
<1>3. use'.conn = u
  BY <1>2 DEF Go, Typed, Actors
<1>4. \A i \in Items : rows'[i] = rows[i] \/ (rows'[i].slot = "bag" /\ rows[i].slot = s)
  <2> HIDE DEF s, bare
  <2> QED BY <1>1 DEF Stock
<1>5. "bag" \notin Slots
  BY DEF Slots
<1>6. Exclusive(rows')
  BY <1>4, <1>5, Undress DEF Slotted
<1> DEFINE W == {c.todo[k] : k \in DOMAIN c.todo}
           D == Dressed(c)
           last == c.todo[Len(c.todo)]
<1>7. ASSUME c.item # None
      PROVE  /\ c.item \in Items /\ Stock(c.copy) /\ Exclusive(D)
             /\ D[c.item] = [c.copy EXCEPT !.slot = last]
             /\ \A j \in Items \ {c.item} : D[j] = IF rows[j].slot \in W THEN bare(j) ELSE rows[j]
  <2>1. Donning(c, last)
    BY <1>1, <1>7 DEF Typed, Actors, Holds
  <2>2. Exclusive(D)
    BY <1>1, <1>7 DEF Slotted
  <2> QED BY <2>1, <2>2 DEF Donning, Dressed
<1>8. \A j \in Items : bare(j).slot = "bag"
  BY DEF Typed, ItemsTypeOK, Row, Gone, Unborn
<1>9. CASE c.item # None /\ Len(c.todo) = 2 /\ u.at = "clear" /\ u.todo = Tail(c.todo)
  <2>1. PICK y \in Slots : Tail(c.todo) = <<y>> /\ last = y /\ W = {s, y}
    <3>1. ASSUME NEW x \in Slots, c.todo = <<x>> PROVE FALSE
      BY <1>9, <3>1
    <3> QED BY <1>1, <3>1, PlacesSplit
  <2> DEFINE E == Dressed(use.conn)'
  <2>2. /\ E[c.item] = [c.copy EXCEPT !.slot = y]
        /\ \A j \in Items \ {c.item} : E[j] = IF rows'[j].slot = y THEN [rows'[j] EXCEPT !.slot = "bag"] ELSE rows'[j]
    <3>1. u.todo[Len(u.todo)] = y /\ {u.todo[k] : k \in DOMAIN u.todo} = {y}
      <4>1. ASSUME NEW v, v = <<y>> PROVE v[Len(v)] = y /\ {v[k] : k \in DOMAIN v} = {y}
        BY <4>1
      <4>2. u.todo = <<y>>
        BY <1>9, <2>1
      <4> QED BY <4>1, <4>2
    <3>2. E = [i \in Items |->
                 IF i = u.item THEN [u.copy EXCEPT !.slot = u.todo[Len(u.todo)]]
                 ELSE IF rows'[i].slot \in {u.todo[k] : k \in DOMAIN u.todo} THEN [rows'[i] EXCEPT !.slot = "bag"]
                 ELSE rows'[i]]
      BY <1>3 DEF Dressed
    <3>3. E = [i \in Items |->
                 IF i = c.item THEN [c.copy EXCEPT !.slot = y]
                 ELSE IF rows'[i].slot \in {y} THEN [rows'[i] EXCEPT !.slot = "bag"]
                 ELSE rows'[i]]
      BY <1>2, <3>1, <3>2
    <3> HIDE DEF E
    <3> QED BY <1>7, <1>9, <3>3
  <2>3. ASSUME NEW j \in Items, E[j].slot \in Slots PROVE E[j].slot = D[j].slot
    <3>1. CASE j = c.item
      BY <1>7, <1>9, <2>1, <2>2, <3>1
    <3>2. CASE j # c.item
      <4>1. rows'[j] \in Row \union {Gone, Unborn}
        BY DEF Typed, ItemsTypeOK
      <4>2. [rows'[j] EXCEPT !.slot = "bag"].slot = "bag"
        BY <4>1 DEF Row, Gone, Unborn
      <4>3. rows'[j].slot \in Slots /\ rows'[j].slot # y /\ E[j] = rows'[j]
        <5> HIDE DEF E
        <5> QED BY <1>5, <2>2, <2>3, <3>2, <4>2
      <4>4. rows'[j] = rows[j] /\ rows[j].slot # s
        <5>1. rows[j].slot = s => rows'[j].slot = "bag"
          BY <1>1 DEF Stock
        <5> HIDE DEF s
        <5> QED BY <1>4, <1>5, <4>3, <5>1
      <4>5. D[j] = rows[j]
        <5> HIDE DEF D, W, s, bare
        <5> QED BY <1>7, <1>9, <2>1, <3>2, <4>3, <4>4
      <4> QED BY <4>3, <4>4, <4>5
    <3> QED BY <3>1, <3>2
  <2> HIDE DEF E, D
  <2>4. Exclusive(E)
    BY <1>7, <1>9, <2>3, Undress
  <2> QED BY <1>3, <1>6, <1>9, <2>4 DEF E, Slotted
<1>10. CASE c.item # None /\ Len(c.todo) = 1 /\ u.at = "equip" /\ u.other = s
  <2>1. last = s /\ W = {s}
    <3>1. ASSUME NEW x \in Slots, NEW y \in Slots, c.todo = <<x, y>> PROVE FALSE
      BY <1>10, <3>1
    <3> QED BY <1>1, <3>1, PlacesSplit
  <2> DEFINE E == [rows' EXCEPT ![c.item] = [c.copy EXCEPT !.slot = s]]
  <2>2. /\ E[c.item] = [c.copy EXCEPT !.slot = s]
        /\ \A j \in Items \ {c.item} : E[j] = rows'[j]
    BY <1>7, <1>10 DEF Typed, ItemsTypeOK
  <2> HIDE DEF E
  <2>3. ASSUME NEW j \in Items, E[j].slot \in Slots PROVE E[j].slot = D[j].slot
    <3> HIDE DEF D, W, s, last, bare
    <3>1. CASE j = c.item
      BY <1>7, <1>10, <2>1, <2>2, <3>1
    <3>2. CASE j # c.item
      BY <1>1, <1>4, <1>5, <1>7, <1>10, <2>1, <2>2, <2>3, <3>2
    <3> QED BY <3>1, <3>2
  <2> HIDE DEF D
  <2>4. Exclusive(E)
    BY <1>7, <1>10, <2>3, Undress
  <2> HIDE DEF s
  <2> QED BY <1>2, <1>3, <1>6, <1>10, <2>4 DEF E, Slotted
<1>11. CASE c.item = None
  BY <1>2, <1>3, <1>6, <1>11 DEF Slotted
<1> QED BY <1>2, <1>9, <1>10, <1>11

\* The item goes on, and the enchanted item is written.
LEMMA SlottedWrite ==
  ASSUME Typed, Typed', Slotted, EquipItem \/ ConsumeScroll \/ EnchantResult
  PROVE  Slotted'
<1> DEFINE c == use.conn
           d == use'.conn
<1>1. ASSUME NEW k \in Items, NEW r, NEW Q, Exclusive([rows EXCEPT ![k] = r]),
             Q[k].slot \in Slots => Q[k].slot = r.slot,
             \A j \in Items \ {k} : Q[j].slot \in Slots => Q[j].slot = rows[j].slot
      PROVE  Exclusive(Q)
  <2> DEFINE R == [rows EXCEPT ![k] = r]
  <2>1. R[k] = r /\ \A j \in Items \ {k} : R[j] = rows[j]
    BY DEF Typed, ItemsTypeOK
  <2> HIDE DEF R
  <2>2. \A j \in Items : Q[j].slot \in Slots => Q[j].slot = R[j].slot
    BY <1>1, <2>1
  <2>3. Exclusive(R)
    BY <1>1 DEF R
  <2> QED BY <2>2, <2>3, Undress
<1>2. CASE EquipItem
  <2> DEFINE worn == [c.copy EXCEPT !.slot = c.other]
  <2>1. /\ c.at = "equip" /\ c.item \in Items /\ worn.slot = c.other /\ d.at = "show"
        /\ rows' = IF Live(c.item) THEN [rows EXCEPT ![c.item].slot = c.other] ELSE rows
    BY <1>2, EquipMoves DEF Donning
  <2>2. Exclusive([rows EXCEPT ![c.item] = worn])
    BY <2>1 DEF Slotted
  <2>3. CASE Live(c.item)
    <3>1. rows'[c.item].slot = c.other /\ \A j \in Items \ {c.item} : rows'[j] = rows[j]
      BY <2>1, <2>3 DEF Live, Typed, ItemsTypeOK, Row
    <3> DEFINE R == [rows EXCEPT ![c.item] = worn]
    <3>2. R[c.item] = worn /\ \A j \in Items \ {c.item} : R[j] = rows[j]
      BY <2>1 DEF Typed, ItemsTypeOK
    <3> HIDE DEF worn, R
    <3>3. \A j \in Items : rows'[j].slot = R[j].slot
      BY <2>1, <3>1, <3>2
    <3>4. Exclusive(R)
      BY <2>2 DEF R
    <3>5. Exclusive(rows')
      BY <3>3, <3>4, Undress
    <3> QED BY <2>1, <3>5 DEF Slotted
  <2>4. CASE ~Live(c.item)
    BY <2>1, <2>4 DEF Slotted
  <2> QED BY <2>3, <2>4
<1>3. CASE ConsumeScroll
  <2> DEFINE r == Less(c.copy, 1)
  <2>1. /\ c.at = "pay" /\ c.item \in Items /\ c.other \in Items /\ (r = Gone \/ Stock(r))
        /\ rows' = Update(c.item, r) /\ d.at = "result" /\ d.other = c.other /\ d.ocopy = c.ocopy
    BY <1>3, PayMoves DEF Scrolls
  <2> HIDE DEF r
  <2>2. \A j \in Items : rows'[j] = rows[j] \/ rows'[j].slot \notin Slots
    BY <2>1, Sparing
  <2>3. Exclusive(rows')
    BY <2>2, Undress DEF Slotted
  <2> DEFINE Q == [rows' EXCEPT ![c.other] = c.ocopy]
  <2>4. Q[c.other] = c.ocopy /\ \A j \in Items \ {c.other} : Q[j] = rows'[j]
    BY <2>1 DEF Typed, ItemsTypeOK
  <2> HIDE DEF Q
  <2>5. Exclusive([rows EXCEPT ![c.other] = c.ocopy])
    BY <2>1 DEF Slotted
  <2>6. \A j \in Items \ {c.other} : Q[j].slot \in Slots => Q[j].slot = rows[j].slot
    BY <2>2, <2>4
  <2>7. Exclusive(Q)
    BY <1>1, <2>1, <2>4, <2>5, <2>6
  <2> QED BY <2>1, <2>3, <2>7 DEF Q, Slotted
<1>4. CASE EnchantResult
  <2>1. /\ c.at = "result" /\ c.other \in Items /\ rows' = Update(c.other, c.ocopy) /\ d.at = "report"
    BY <1>4, ResultMoves
  <2>2. Exclusive([rows EXCEPT ![c.other] = c.ocopy])
    BY <2>1 DEF Slotted
  <2> QED BY <2>1, <2>2 DEF Update, Slotted
<1> QED BY <1>2, <1>3, <1>4

LEMMA SlottedSteps ==
  ASSUME Typed, Typed', Slotted, [ItemsNext]_vars
  PROVE  Slotted'
<1> DEFINE d == use'.conn
           Still == \A i \in Items : rows'[i] = rows[i] \/ rows'[i].slot \notin Slots
           Calm == use'.conn = use.conn \/ use'.conn.at \notin {"clear", "equip", "pay", "result"}
<1>1. ASSUME rows' = rows PROVE Still
  BY <1>1
<1>2. ASSUME NEW i \in Items, PutOn(i) \/ TakeOff(i) PROVE Slotted'
  <2>1. d.at = "clear" /\ rows' = rows
    BY <1>2, DressMoves DEF PutOn, TakeOff
  <2>2. CASE d.item = None
    BY <1>1, <2>1, <2>2, Shedding
  <2>3. CASE Stock(rows[i]) /\ Code(i) # "none" /\ d.item = i /\ d.copy = rows[i] /\ d.todo \in SlotConflicts(Code(i))
    <3>1. Exclusive(rows)
      BY DEF Slotted
    <3>2. Exclusive(Dressed(d))
      BY <2>3, <3>1, Dressing
    <3>3. Dressed(use.conn)' = Dressed(d)
      BY <2>1 DEF Dressed
    <3> QED BY <2>1, <3>1, <3>2, <3>3 DEF Slotted
  <2> QED BY <1>2, <2>2, <2>3, DressMoves
<1>3. ASSUME NEW i \in Items, ArmScroll(i) \/ PutTarget(i) \/ EnchantItem(i) PROVE Slotted'
  <2>1. rows' = rows
    BY <1>3 DEF ArmScroll, PutTarget, EnchantItem
  <2>2. CASE UNCHANGED use
    BY <1>1, <2>1, <2>2, Shedding
  <2>3. CASE EnchantItem(i) /\ Live(arm) /\ Live(i) /\ Fits(arm, i, rows[i].level)
    <3>1. PICK won \in BOOLEAN, u \in Use :
            /\ Go("conn", u) /\ arm \in Items /\ rows[i] \in Row
            /\ u.at = "pay" /\ u.other = i /\ u.ocopy = Outcome(arm, rows[i], won)
      BY <2>3, Enchanting DEF Scrolls
    <3>2. d = u
      BY <3>1 DEF Go, Typed, Actors
    <3>3. u.ocopy = Gone \/ u.ocopy.slot = rows[i].slot
      BY <3>1, Outcomes
    <3> DEFINE Q == [rows EXCEPT ![i] = u.ocopy]
    <3>4. Q[i] = u.ocopy /\ \A j \in Items \ {i} : Q[j] = rows[j]
      BY DEF Typed, ItemsTypeOK
    <3>5. Gone.slot \notin Slots
      BY DEF Gone, Slots
    <3> HIDE DEF Q
    <3>6. \A j \in Items : Q[j].slot \in Slots => Q[j].slot = rows[j].slot
      BY <3>3, <3>4, <3>5
    <3>7. Exclusive(Q) /\ Exclusive(rows)
      BY <3>6, Undress DEF Slotted
    <3> QED BY <2>1, <3>1, <3>2, <3>7 DEF Q, Slotted
  <2> QED BY <1>3, <2>2, <2>3 DEF ArmScroll, PutTarget, EnchantItem
<1>4. ASSUME NEW i \in Items,
             Open(i) \/ Register(i) \/ Shoot(i) \/ (\E inCombat \in BOOLEAN : Drink(i, inCombat))
      PROVE  Slotted'
  <2>1. rows' = rows /\ d.at \notin {"clear", "equip", "pay", "result"}
    BY <1>4, TakeMoves
  <2> QED BY <1>1, <2>1, Shedding
<1>5. CASE AddRecipe \/ ConsumeOne \/ (\E n \in Nat : Roll(n)) \/ GiveReward
  <2>1. d.at \notin {"clear", "equip", "pay", "result"}
    BY <1>5, RecipeMoves, ConsumeMoves, RollMoves, RewardMoves
  <2>2. CASE ConsumeOne
    <3>1. PICK i \in Items, r \in Row \union {Gone} : (r = Gone \/ Stock(r)) /\ rows' = Update(i, r)
      BY <2>2, ConsumeMoves DEF Stock
    <3>2. Still
      BY <3>1, Sparing
    <3> QED BY <2>1, <3>2, Shedding
  <2>3. CASE GiveReward
    <3>1. PICK i \in Items, r \in Row \union {Gone} : Stock(r) /\ (rows' = Update(i, r) \/ rows' = [rows EXCEPT ![i] = r])
      BY <2>3, RewardMoves
    <3>2. Still
      BY <3>1, Sparing
    <3> QED BY <2>1, <3>2, Shedding
  <2>4. CASE AddRecipe \/ \E n \in Nat : Roll(n)
    <3>1. rows' = rows
      BY <2>4 DEF AddRecipe, Roll
    <3> QED BY <1>1, <2>1, <3>1, Shedding
  <2> QED BY <1>5, <2>2, <2>3, <2>4
<1>6. ASSUME NEW p \in Actors, ShotWeapon(p) \/ ShotSpend(p) \/ ShotCharge(p)
      PROVE  Slotted'
  <2>1. Calm
    <3>1. CASE p = "conn"
      BY <1>6, <3>1, ShotMoves, Idling
    <3>2. CASE p # "conn"
      BY <1>6, <3>2, ShotMoves DEF Actors
    <3> QED BY <3>1, <3>2
  <2>2. rows' = rows \/ \E i \in Items, r \in Row \union {Gone} : (r = Gone \/ Stock(r)) /\ rows' = Update(i, r)
    BY <1>6, ShotMoves DEF SoulShots, Stock
  <2>3. Still
    BY <2>2, Sparing
  <2> QED BY <2>1, <2>3, Shedding
<1>7. ASSUME PassTakes \/ (\E p \in Actors : Recharge(p)) \/ (\E i : EnableAuto(i))
      PROVE  Slotted'
  <2>1. rows' = rows
    BY <1>7 DEF PassTakes, Recharge, EnableAuto
  <2>2. Calm
    <3>1. CASE PassTakes
      BY <3>1, ListMoves DEF PassTakes, Actors
    <3>2. ASSUME NEW i, EnableAuto(i) PROVE Calm
      <4>1. "conn" \in Actors /\ Go("conn", [Idle EXCEPT !.at = "list"])
        BY <3>2 DEF EnableAuto, Actors
      <4>2. d.at = "list"
        BY <4>1, ListMoves
      <4> QED BY <4>2
    <3>3. ASSUME NEW p \in Actors, Recharge(p) PROVE Calm
      <4>1. CASE p = "conn"
        BY <3>3, <4>1, RechargeMoves, Idling
      <4>2. CASE p # "conn"
        BY <3>3, <4>2, RechargeMoves DEF Actors
      <4> QED BY <4>1, <4>2
    <3> QED BY <1>7, <3>1, <3>2, <3>3
  <2> QED BY <1>1, <2>1, <2>2, Shedding
<1>8. CASE Show \/ ShowUnread \/ (\E p \in Actors : Report(p)) \/ \E p \in Actors : StatementFails(p)
  <2>1. PICK p \in Actors : Go(p, Idle) /\ rows' = rows
    BY <1>8 DEF Show, ShowUnread, Report, StatementFails, Actors
  <2>2. Calm
    BY <2>1, Idling DEF Go, Typed, Actors
  <2> QED BY <1>1, <2>1, <2>2, Shedding
<1>9. CASE CancelEnchant \/ (\E i : DisableAuto(i)) \/ Swing \/ HitLands \/ Tick \/ Relog \/ UNCHANGED vars
  BY <1>1, <1>9, Shedding DEF CancelEnchant, DisableAuto, Swing, HitLands, Tick, Relog, vars
<1>10. CASE Crash
  <2>1. rows' = rows /\ d = Idle
    BY <1>10 DEF Crash, Actors
  <2> QED BY <1>1, <2>1, Idling, Shedding
<1> QED BY <1>2, <1>3, <1>4, <1>5, <1>6, <1>7, <1>8, <1>9, <1>10, Steps, SlottedClear, SlottedWrite

LEMMA SlottedStart ==
  ASSUME ItemsInit
  PROVE  Slotted
<1>1. Exclusive(rows) /\ use.conn = Idle
  BY StartsAssumption DEF ItemsInit, Actors
<1> QED BY <1>1, Idling DEF Slotted

---------------------------------------------------------------------------
(* What the steps do to the history. *)

LEMMA Recorded ==
  ASSUME Typed, [ItemsNext]_vars
  PROVE  /\ h'.start = h.start
         /\ h'.failures = h.failures \/ (h'.failures # 0 /\ (ShowUnread \/ \E p \in Actors : StatementFails(p)))
         /\ h.late => h'.late
         /\ \/ UNCHANGED <<h.attempts, h.pays, h.windows>>
            \/ ConsumeScroll \/ EnchantResult \/ \E i \in Items : ArmScroll(i)
         /\ h'.uses = h.uses \/ h'.uses = <<>> \/ Show \/ ShowUnread
<1>1. DOMAIN h = HistoryFields /\ h.failures \in Nat
  BY DEF Typed
<1>2. ASSUME NEW m, NEW l, h' = [h EXCEPT !.mixed = m, !.late = @ \/ l]
      PROVE  /\ UNCHANGED <<h.start, h.failures, h.attempts, h.pays, h.windows, h.uses>>
             /\ h.late => h'.late
  BY <1>1, <1>2 DEF HistoryFields
<1>3. CASE (\E i \in Items : Open(i) \/ Shoot(i)) \/ PassTakes \/ \E i : EnableAuto(i)
  <2>1. \E m, l : h' = [h EXCEPT !.mixed = m, !.late = @ \/ l]
    <3>1. ASSUME NEW i \in Items, Open(i) \/ Shoot(i) PROVE \E m, l : h' = [h EXCEPT !.mixed = m, !.late = @ \/ l]
      BY <3>1 DEF Open, Shoot
    <3>2. ASSUME NEW i, EnableAuto(i) PROVE \E m, l : h' = [h EXCEPT !.mixed = m, !.late = @ \/ l]
      BY <3>2 DEF EnableAuto
    <3>3. ASSUME PassTakes PROVE \E m, l : h' = [h EXCEPT !.mixed = m, !.late = @ \/ l]
      <4>1. h' = [h EXCEPT !.late = @ \/ ~At("conn", "idle"),
                           !.mixed = @ \/ use.conn.at \in {"list", "weapon", "spend", "charge", "consume", "roll", "grant"}]
        BY <3>3 DEF PassTakes
      <4> DEFINE m == h.mixed \/ use.conn.at \in {"list", "weapon", "spend", "charge", "consume", "roll", "grant"}
      <4>2. h' = [h EXCEPT !.mixed = m, !.late = @ \/ ~At("conn", "idle")]
        BY <1>1, <4>1 DEF HistoryFields
      <4> QED BY <4>2
    <3> QED BY <1>3, <3>1, <3>2, <3>3
  <2> QED BY <1>2, <2>1
<1>4. CASE h' = h
  BY <1>4
<1>5. CASE GiveReward \/ \E p \in Actors : ShotCharge(p)
  <2>1. \E x : h' = [h EXCEPT !.granted = x] \/ h' = [h EXCEPT !.charges = x]
    BY <1>5 DEF GiveReward, ShotCharge
  <2> QED BY <1>1, <2>1 DEF HistoryFields
<1>6. ASSUME NEW i \in Items, ArmScroll(i)
      PROVE  UNCHANGED <<h.start, h.failures, h.late, h.attempts, h.pays, h.uses>>
  BY <1>1, <1>6 DEF ArmScroll, HistoryFields
<1>7. CASE ConsumeScroll \/ EnchantResult
  <2>1. \/ \E x, y : h' = [h EXCEPT !.pays = x, !.windows = y]
        \/ \E x : h' = [h EXCEPT !.attempts = x]
    BY <1>7 DEF ConsumeScroll, EnchantResult, Count
  <2>2. UNCHANGED <<h.start, h.failures, h.late, h.uses>>
    BY <1>1, <2>1 DEF HistoryFields
  <2> QED BY <1>7, <2>2
<1>8. ASSUME NEW p \in Actors, StatementFails(p)
      PROVE  UNCHANGED <<h.start, h.late, h.attempts, h.pays, h.windows, h.uses>> /\ h'.failures # 0
  BY <1>1, <1>8 DEF StatementFails, Count, HistoryFields
<1>9. CASE Show
  <2>1. h' = h \/ \E w : h' = [h EXCEPT !.uses = w]
    BY <1>9 DEF Show, Stamped
  <2>2. UNCHANGED <<h.start, h.failures, h.late, h.attempts, h.pays, h.windows>>
    BY <1>1, <2>1 DEF HistoryFields
  <2> QED BY <1>9, <2>2
<1>10. CASE ShowUnread
  <2>1. \/ \E w : h' = [h EXCEPT !.failures = @ + 1, !.uses = w]
        \/ h' = [h EXCEPT !.failures = @ + 1]
    <3>1. CASE use.conn.other = "used" /\ T[use.conn.item].delay > 0
      BY <1>10, <3>1 DEF ShowUnread
    <3>2. CASE ~(use.conn.other = "used" /\ T[use.conn.item].delay > 0)
      BY <1>10, <3>2 DEF ShowUnread, Count
    <3> QED BY <3>1, <3>2
  <2>2. UNCHANGED <<h.start, h.late, h.attempts, h.pays, h.windows>>
    BY <1>1, <2>1 DEF HistoryFields
  <2>3. h'.failures = h.failures + 1
    BY <1>1, <2>1 DEF HistoryFields
  <2>4. h'.failures # 0
    BY <1>1, <2>3
  <2> QED BY <1>10, <2>2, <2>4
<1>11. CASE Crash \/ Relog
  <2>1. \/ \E x, y : h' = [h EXCEPT !.crashes = x, !.uses = <<>>, !.lost = y]
        \/ h' = [h EXCEPT !.uses = <<>>]
    BY <1>11 DEF Crash, Relog
  <2>2. UNCHANGED <<h.start, h.failures, h.late, h.attempts, h.pays, h.windows>> /\ h'.uses = <<>>
    BY <1>1, <2>1 DEF HistoryFields
  <2> QED BY <2>2
<1>12. \/ h' = h
       \/ (\E i \in Items : Open(i) \/ Shoot(i)) \/ PassTakes \/ \E i : EnableAuto(i)
       \/ GiveReward \/ \E p \in Actors : ShotCharge(p)
       \/ \E i \in Items : ArmScroll(i)
       \/ ConsumeScroll \/ EnchantResult
       \/ \E p \in Actors : StatementFails(p)
       \/ Show \/ ShowUnread \/ Crash \/ Relog
  BY Steps DEF PutOn, TakeOff, Register, Drink, PutTarget, EnchantItem, Recharge, ClearSlot, EquipItem,
               Report, AddRecipe, ConsumeOne, Roll, ShotWeapon, ShotSpend, CancelEnchant, DisableAuto,
               Swing, HitLands, Tick, vars
<1> QED BY <1>3, <1>4, <1>5, <1>6, <1>7, <1>8, <1>9, <1>10, <1>11, <1>12

---------------------------------------------------------------------------
(* The paperdoll is the rows. *)

LEMMA Dolls ==
  \A s \in Slots : /\ In(rows, s) = {} => Dolled(rows)[s] = None
                   /\ In(rows, s) # {} => Dolled(rows)[s] \in In(rows, s)
BY DEF Dolled

LEMMA SameDoll ==
  ASSUME NEW R, NEW Q, \A s \in Slots : In(Q, s) = In(R, s)
  PROVE  \A s \in Slots : Dolled(Q)[s] = Dolled(R)[s]
<1> DEFINE Drawing(X) == IF X = {} THEN None ELSE CHOOSE i \in X : TRUE
<1>1. \A s \in Slots : Dolled(R)[s] = Drawing(In(R, s)) /\ Dolled(Q)[s] = Drawing(In(Q, s))
  BY DEF Dolled
<1> HIDE DEF Drawing
<1> QED BY <1>1

\* The bag changes; nothing that is worn does.
LEMMA Painting ==
  ASSUME Typed, Typed', Drawn, doll' = doll, h'.failures = 0 => h.failures = 0,
         \A j \in Items : \/ rows'[j] = rows[j]
                          \/ /\ rows[j].slot \notin Slots /\ rows'[j].slot \notin Slots
                             /\ rows'[j] # Unborn /\ (rows[j] = Gone => rows'[j] = Gone),
         use.conn.at \notin {"clear", "equip", "show"} \/ use'.conn.at \in {"clear", "equip", "show"},
         use'.conn.at \in {"pay", "result"} =>
           use'.conn.ocopy = Gone \/ use'.conn.ocopy.slot = rows'[use'.conn.other].slot
  PROVE  Drawn'
<1>1. \A s \in Slots : In(rows', s) = In(rows, s)
  BY DEF In
<1>2. \A s \in Slots : Dolled(rows')[s] = Dolled(rows)[s]
  BY <1>1, SameDoll
<1>3. \A s \in Slots : doll[s] # None => doll[s] \in Items
  BY DEF Typed, ItemsTypeOK
<1>4. ASSUME NEW s \in Slots, doll[s] # None PROVE rows'[doll[s]] # Unborn
  BY <1>3, <1>4 DEF Drawn
<1>5. ASSUME use'.conn.at \notin {"clear", "equip", "show"}, h'.failures = 0, NEW s \in Slots
      PROVE  Matches(s)'
  <2>1. Matches(s)
    BY <1>5 DEF Drawn
  <2>2. CASE doll[s] = Dolled(rows)[s]
    BY <1>2, <2>2 DEF Matches
  <2>3. CASE doll[s] # None /\ ~Live(doll[s]) /\ In(rows, s) = {}
    <3>1. rows[doll[s]] = Gone
      BY <1>3, <2>3 DEF Live, Drawn
    <3>2. rows'[doll[s]] = Gone
      BY <1>3, <2>3, <3>1
    <3> QED BY <1>1, <2>3, <3>2 DEF Matches, Live
  <2> QED BY <2>1, <2>2, <2>3 DEF Matches
<1> QED BY <1>4, <1>5 DEF Drawn

\* The paperdoll is read again.
LEMMA Repainting ==
  ASSUME rows' = rows, doll' = Dolled(rows), Typed, use'.conn.at \notin {"pay", "result"}
  PROVE  Drawn'
<1>1. ASSUME NEW s \in Slots, doll'[s] # None PROVE rows'[doll'[s]] # Unborn
  <2>1. doll'[s] \in In(rows, s)
    BY <1>1, Dolls
  <2> QED BY <2>1 DEF In, Unborn, Slots
<1>2. ASSUME NEW s \in Slots PROVE Matches(s)'
  BY <1>2 DEF Matches
<1> QED BY <1>1, <1>2 DEF Drawn

\* Rows of the bag that a step may write.
LEMMA Pale ==
  ASSUME Typed, NEW i \in Items, Code(i) = "none", NEW r, r = Gone \/ Stock(r), rows' = Update(i, r)
  PROVE  \A j \in Items :
           \/ rows'[j] = rows[j]
           \/ /\ j = i /\ rows[j].slot \notin Slots /\ rows'[j].slot \notin Slots
              /\ rows'[j] # Unborn /\ (rows[j] = Gone => rows'[j] = Gone)
<1>1. rows[i].slot \notin Slots
  BY DEF Typed, Placed
<1>2. r.slot \notin Slots /\ r # Unborn
  BY DEF Stock, Gone, Slots, Unborn
<1> QED BY <1>1, <1>2 DEF Update, Typed, ItemsTypeOK, Live

\* An enchant writes its target.
LEMMA DrawnResult ==
  ASSUME Typed, Typed', Slotted, Drawn, EnchantResult, h'.failures = 0 => h.failures = 0
  PROVE  Drawn'
<1> DEFINE c == use.conn
           t == c.other
           r == c.ocopy
<1>1. /\ c.at = "result" /\ t \in Items /\ r \in Row \union {Gone} /\ rows' = Update(t, r)
      /\ use'.conn.at = "report"
  BY ResultMoves
<1>2. doll' = doll
  BY DEF EnchantResult
<1>3. r = Gone \/ r.slot = rows[t].slot
  BY <1>1 DEF Drawn
<1>4. \A s \in Slots : Matches(s) \/ h.failures # 0
  BY <1>1 DEF Drawn
<1>5. \A s \in Slots : doll[s] # None => doll[s] \in Items /\ rows[doll[s]] # Unborn
  BY DEF Typed, ItemsTypeOK, Drawn
<1> HIDE DEF t, r
<1>6. /\ Live(t) => rows'[t] = r
      /\ \A j \in Items : rows'[j] = rows[j] \/ (j = t /\ Live(t) /\ rows'[j] = r)
  BY <1>1 DEF Update, Typed, ItemsTypeOK
<1>7. r # Unborn
  BY <1>1 DEF Row, Gone, Unborn, Slots
<1>8. ASSUME NEW s \in Slots, doll[s] # None PROVE rows'[doll[s]] # Unborn
  BY <1>5, <1>6, <1>7, <1>8
<1>9. CASE r # Gone
  <2>1. \A s \in Slots : In(rows', s) = In(rows, s)
    BY <1>3, <1>6, <1>9 DEF In
  <2>2. \A s \in Slots : Dolled(rows')[s] = Dolled(rows)[s]
    BY <2>1, SameDoll
  <2>3. ASSUME NEW s \in Slots, h.failures = 0 PROVE Matches(s)'
    <3>1. CASE doll[s] = Dolled(rows)[s]
      BY <1>2, <2>2, <3>1 DEF Matches
    <3>2. CASE doll[s] # None /\ ~Live(doll[s]) /\ In(rows, s) = {}
      <4>1. rows'[doll[s]] = rows[doll[s]]
        BY <1>5, <1>6, <3>2
      <4> QED BY <1>2, <2>1, <3>2, <4>1 DEF Matches, Live
    <3> QED BY <1>4, <2>3, <3>1, <3>2 DEF Matches
  <2> QED BY <1>1, <1>2, <1>8, <2>3 DEF Drawn
<1>10. CASE r = Gone
  <2>1. ASSUME NEW s \in Slots, h.failures = 0 PROVE Matches(s)'
    <3>1. Gone.slot # s
      BY DEF Gone, Slots
    <3>2. CASE rows[t].slot # s
      <4>1. In(rows', s) = In(rows, s)
        BY <1>6, <1>10, <3>1, <3>2 DEF In
      <4>2. Dolled(rows')[s] = Dolled(rows)[s]
        <5> DEFINE Drawing(X) == IF X = {} THEN None ELSE CHOOSE i \in X : TRUE
        <5>1. Dolled(rows)[s] = Drawing(In(rows, s)) /\ Dolled(rows')[s] = Drawing(In(rows', s))
          BY DEF Dolled
        <5> HIDE DEF Drawing
        <5> QED BY <4>1, <5>1
      <4>3. CASE doll[s] = Dolled(rows)[s]
        BY <1>2, <4>2, <4>3 DEF Matches
      <4>4. CASE doll[s] # None /\ ~Live(doll[s]) /\ In(rows, s) = {}
        <5>1. rows'[doll[s]] = rows[doll[s]]
          BY <1>5, <1>6, <4>4
        <5> QED BY <1>2, <4>1, <4>4, <5>1 DEF Matches, Live
      <4> QED BY <1>4, <2>1, <4>3, <4>4 DEF Matches
    <3>3. CASE rows[t].slot = s
      <4>1. In(rows, s) = {t}
        BY <1>1, <3>3 DEF In, Slotted, Exclusive, t
      <4>2. doll[s] = t
        BY <1>4, <2>1, <4>1, Dolls DEF Matches
      <4>3. Live(t)
        BY <3>3 DEF Live, Gone, Unborn, Slots
      <4>4. rows'[t] = Gone
        BY <1>6, <1>10, <4>3
      <4>5. ASSUME NEW j \in Items PROVE rows'[j].slot # s
        <5>1. CASE j = t
          BY <1>10, <3>1, <4>4, <5>1
        <5>2. CASE j # t
          BY <1>6, <4>1, <5>2 DEF In
        <5> QED BY <5>1, <5>2
      <4>6. In(rows', s) = {}
        BY <4>5 DEF In
      <4>7. doll'[s] # None
        BY <1>1, <1>2, <4>2, ItemsAssumption DEF t
      <4> QED BY <1>2, <4>2, <4>4, <4>6, <4>7 DEF Matches, Live
    <3> QED BY <3>2, <3>3
  <2> QED BY <1>1, <1>2, <1>8, <2>1 DEF Drawn
<1> QED BY <1>9, <1>10

LEMMA DrawnSteps ==
  ASSUME Typed, Typed', Slotted, Drawn, [ItemsNext]_vars
  PROVE  Drawn'
<1> DEFINE c == use.conn
           d == use'.conn
           Same == \A j \in Items : rows'[j] = rows[j]
           Faint == \A j \in Items : \/ rows'[j] = rows[j]
                                     \/ /\ rows[j].slot \notin Slots /\ rows'[j].slot \notin Slots
                                        /\ rows'[j] # Unborn /\ (rows[j] = Gone => rows'[j] = Gone)
           Kept == d.at \in {"pay", "result"} => d.ocopy = Gone \/ d.ocopy.slot = rows'[d.other].slot
<1>1. h'.failures = 0 => h.failures = 0
  BY Recorded
<1>2. \A s \in Slots : doll[s] # None => doll[s] \in Items /\ rows[doll[s]] # Unborn
  BY DEF Typed, ItemsTypeOK, Drawn
<1>3. ASSUME NEW i \in Items, PutOn(i) \/ TakeOff(i) PROVE Drawn'
  <2>1. d.at = "clear" /\ rows' = rows /\ doll' = doll /\ h' = h
    BY <1>3, DressMoves DEF PutOn, TakeOff
  <2> QED BY <1>1, <2>1, Painting
<1>4. ASSUME NEW i \in Items, ArmScroll(i) \/ PutTarget(i) \/ EnchantItem(i) PROVE Drawn'
  <2>1. rows' = rows /\ doll' = doll
    BY <1>4 DEF ArmScroll, PutTarget, EnchantItem
  <2>2. CASE UNCHANGED use
    <3>1. Kept
      BY <2>1, <2>2 DEF Drawn
    <3> QED BY <1>1, <2>1, <2>2, <3>1, Painting
  <2>3. CASE EnchantItem(i) /\ Live(arm) /\ Live(i) /\ Fits(arm, i, rows[i].level)
    <3>1. PICK won \in BOOLEAN, u \in Use :
            /\ Go("conn", u) /\ arm \in Items /\ rows[i] \in Row
            /\ u.at = "pay" /\ u.other = i /\ u.ocopy = Outcome(arm, rows[i], won)
      BY <2>3, Enchanting DEF Scrolls
    <3>2. d = u
      BY <3>1 DEF Go, Typed, Actors
    <3>3. u.ocopy = Gone \/ u.ocopy.slot = rows[i].slot
      BY <3>1, Outcomes
    <3>4. c.at = "idle"
      BY <2>3 DEF EnchantItem, At
    <3> QED BY <1>1, <2>1, <3>1, <3>2, <3>3, <3>4, Painting
  <2> QED BY <1>4, <2>2, <2>3 DEF ArmScroll, PutTarget, EnchantItem
<1>5. ASSUME NEW i \in Items,
             Open(i) \/ Register(i) \/ Shoot(i) \/ (\E inCombat \in BOOLEAN : Drink(i, inCombat))
      PROVE  Drawn'
  <2>1. rows' = rows /\ d.at \in {"consume", "register", "weapon"} /\ c.at = "idle"
    BY <1>5, TakeMoves
  <2>2. doll' = doll
    BY <1>5 DEF Open, Register, Shoot, Drink
  <2> QED BY <1>1, <2>1, <2>2, Painting
<1>6. CASE AddRecipe \/ ConsumeOne \/ (\E n \in Nat : Roll(n)) \/ GiveReward
  <2>1. /\ d.at \notin {"pay", "result"} /\ c.at \in {"register", "consume", "roll", "grant"}
    BY <1>6, RecipeMoves, ConsumeMoves, RollMoves, RewardMoves
  <2>2. doll' = doll
    BY <1>6 DEF AddRecipe, ConsumeOne, Roll, GiveReward
  <2>3. CASE ConsumeOne
    <3>1. PICK i \in Items, r \in Row \union {Gone} :
            (r = Gone \/ Stock(r)) /\ rows' = Update(i, r) /\ Code(i) = "none"
      BY <2>3, ConsumeMoves DEF Stock
    <3>2. Faint
      BY <3>1, Pale
    <3> QED BY <1>1, <2>1, <2>2, <3>2, Painting
  <2>4. CASE GiveReward
    <3>1. PICK j \in Items, r \in Row :
            /\ Stock(r) /\ rows[j].slot \notin Slots
            /\ rows' = Update(j, r) \/ (rows' = [rows EXCEPT ![j] = r] /\ rows[j] = Unborn)
      BY <2>4, RewardMoves
    <3>2. r.slot \notin Slots /\ r # Unborn /\ Unborn # Gone
      BY <3>1 DEF Stock, Slots, Unborn, Gone
    <3>3. Faint
      BY <3>1, <3>2 DEF Update, Typed, ItemsTypeOK, Live
    <3> QED BY <1>1, <2>1, <2>2, <3>3, Painting
  <2>5. CASE AddRecipe \/ \E n \in Nat : Roll(n)
    <3>1. rows' = rows
      BY <2>5 DEF AddRecipe, Roll
    <3> QED BY <1>1, <2>1, <2>2, <3>1, Painting
  <2> QED BY <1>6, <2>3, <2>4, <2>5
<1>7. ASSUME NEW p \in Actors, ShotWeapon(p) \/ ShotSpend(p) \/ ShotCharge(p)
      PROVE  Drawn'
  <2>1. doll' = doll
    BY <1>7 DEF ShotWeapon, ShotSpend, ShotCharge
  <2>2. rows' = rows \/ \E i \in SoulShots, r \in Row \union {Gone} : (r = Gone \/ Stock(r)) /\ rows' = Update(i, r)
    BY <1>7, ShotMoves DEF Stock
  <2>3. \A j \in Items : rows'[j] = rows[j] \/ (j \in SoulShots /\ rows[j].slot \notin Slots /\ rows'[j].slot \notin Slots
                                                /\ rows'[j] # Unborn /\ (rows[j] = Gone => rows'[j] = Gone))
    BY <2>2, KindsApart, Pale
  <2>4. CASE p = "conn"
    <3>1. c.at \in {"weapon", "spend", "charge"} /\ d.at \notin {"pay", "result"}
      BY <1>7, <2>4, ShotMoves, Idling
    <3> QED BY <1>1, <2>1, <2>3, <3>1, Painting
  <2>5. CASE p = "pass"
    <3>1. d = c
      BY <1>7, <2>5, ShotMoves DEF Actors
    <3>2. c.at \in {"pay", "result"} => c.other \in Items /\ c.other \notin SoulShots
      BY KindsApart DEF Typed, Actors, Holds
    <3>3. Kept
      BY <2>3, <3>1, <3>2 DEF Drawn
    <3> QED BY <1>1, <2>1, <2>3, <3>1, <3>3, Painting
  <2> QED BY <2>4, <2>5 DEF Actors
<1>8. ASSUME PassTakes \/ (\E p \in Actors : Recharge(p)) \/ (\E i : EnableAuto(i))
      PROVE  Drawn'
  <2>1. rows' = rows /\ doll' = doll
    BY <1>8 DEF PassTakes, Recharge, EnableAuto
  <2>2. d = c \/ (c.at \in {"idle", "list"} /\ d.at \notin {"pay", "result"})
    <3>1. CASE PassTakes
      BY <3>1, ListMoves DEF PassTakes, Actors
    <3>2. ASSUME NEW i, EnableAuto(i) PROVE c.at = "idle" /\ d.at = "list"
      <4>1. "conn" \in Actors /\ Go("conn", [Idle EXCEPT !.at = "list"]) /\ c.at = "idle"
        BY <3>2 DEF EnableAuto, Actors, At
      <4>2. d.at = "list"
        BY <4>1, ListMoves
      <4> QED BY <4>1, <4>2
    <3>3. ASSUME NEW p \in Actors, Recharge(p) PROVE d = c \/ (c.at = "list" /\ d.at \notin {"pay", "result"})
      <4>1. CASE p = "conn"
        BY <3>3, <4>1, RechargeMoves, Idling
      <4>2. CASE p # "conn"
        BY <3>3, <4>2, RechargeMoves DEF Actors
      <4> QED BY <4>1, <4>2
    <3> QED BY <1>8, <3>1, <3>2, <3>3
  <2>3. Kept
    BY <2>1, <2>2 DEF Drawn
  <2> QED BY <1>1, <2>1, <2>2, <2>3, Painting
<1>9. ASSUME NEW p \in Actors, Report(p) PROVE Drawn'
  <2>1. rows' = rows /\ doll' = doll /\ h' = h /\ use[p].at = "report"
    BY <1>9 DEF Report, At
  <2>2. d = c \/ (c.at = "report" /\ d = Idle)
    BY <1>9, <2>1 DEF Report, Go, Typed, Actors
  <2>3. Kept
    BY <2>1, <2>2, Idling DEF Drawn
  <2> QED BY <1>1, <2>1, <2>2, <2>3, Painting
<1>10. CASE Show \/ Relog \/ Crash
  <2>1. rows' = rows /\ doll' = Dolled(rows)
    BY <1>10 DEF Show, Relog, Crash
  <2>2. d.at = "idle"
    BY <1>10, Idling DEF Show, Go, Relog, Crash, At, Typed, Actors
  <2> QED BY <2>1, <2>2, Repainting
<1>11. CASE ShowUnread \/ \E p \in Actors : StatementFails(p)
  <2>1. rows' = rows /\ doll' = doll
    BY <1>11 DEF ShowUnread, StatementFails
  <2>2. h'.failures # 0
    <3>1. \E x : \/ h' = [h EXCEPT !.failures = @ + 1, !.uses = x]
                 \/ h' = [h EXCEPT !.failures = @ + 1]
      <4>1. CASE ShowUnread /\ use.conn.other = "used" /\ T[use.conn.item].delay > 0
        BY <4>1 DEF ShowUnread
      <4>2. CASE ShowUnread /\ ~(use.conn.other = "used" /\ T[use.conn.item].delay > 0)
        BY <4>2 DEF ShowUnread, Count
      <4>3. ASSUME NEW p \in Actors, StatementFails(p) PROVE h' = [h EXCEPT !.failures = @ + 1]
        BY <4>3 DEF StatementFails, Count
      <4> QED BY <1>11, <4>1, <4>2, <4>3
    <3>2. h'.failures = h.failures + 1 /\ h.failures \in Nat
      BY <3>1 DEF Typed, HistoryFields
    <3> QED BY <3>2
  <2>3. d = c \/ d = Idle
    BY <1>11 DEF ShowUnread, StatementFails, Go, Typed, Actors
  <2>4. Kept
    BY <2>1, <2>3, Idling DEF Drawn
  <2> QED BY <1>2, <2>1, <2>2, <2>4 DEF Drawn
<1>12. CASE CancelEnchant \/ (\E i : DisableAuto(i)) \/ Swing \/ HitLands \/ Tick \/ UNCHANGED vars
  <2>1. UNCHANGED <<rows, doll, use, h>>
    BY <1>12 DEF CancelEnchant, DisableAuto, Swing, HitLands, Tick, vars
  <2>2. Kept
    BY <2>1 DEF Drawn
  <2> QED BY <1>1, <2>1, <2>2, Painting
<1>13. CASE ClearSlot \/ EquipItem
  <2>1. doll' = doll /\ h' = h
    BY <1>13 DEF ClearSlot, EquipItem
  <2>2. d.at \in {"clear", "equip", "show"}
    <3>1. CASE ClearSlot
      BY <3>1, Clearing DEF Go, Typed, Actors
    <3> QED BY <1>13, <3>1, EquipMoves
  <2>3. \A j \in Items : rows[j] # Unborn => rows'[j] # Unborn
    <3>1. CASE ClearSlot
      <4>1. \A j \in Items : rows'[j] = rows[j] \/ Stock(rows'[j])
        BY <3>1, Clearing
      <4> QED BY <4>1 DEF Stock, Unborn
    <3>2. CASE EquipItem
      <4>1. /\ c.other \in Slots
            /\ rows' = IF Live(c.item) THEN [rows EXCEPT ![c.item].slot = c.other] ELSE rows
        BY <3>2, EquipMoves
      <4>2. \A j \in Items : rows'[j] = rows[j] \/ rows'[j].slot = c.other
        BY <4>1 DEF Typed, ItemsTypeOK, Row, Live
      <4> QED BY <4>1, <4>2 DEF Unborn, Slots
    <3> QED BY <1>13, <3>1, <3>2
  <2> QED BY <1>2, <2>1, <2>2, <2>3 DEF Drawn
<1>14. CASE ConsumeScroll
  <2>1. doll' = doll
    BY <1>14 DEF ConsumeScroll
  <2> DEFINE r == Less(c.copy, 1)
  <2>2. /\ c.at = "pay" /\ c.item \in Items /\ Code(c.item) = "none" /\ T[c.item].type = "EtcItem"
        /\ (r = Gone \/ Stock(r)) /\ rows' = Update(c.item, r)
        /\ c.other \in Items /\ T[c.other].type # "EtcItem"
        /\ d.at = "result" /\ d.other = c.other /\ d.ocopy = c.ocopy
    BY <1>14, PayMoves, KindsApart
  <2> HIDE DEF r
  <2>3. \A j \in Items : \/ rows'[j] = rows[j]
                         \/ /\ j = c.item /\ rows[j].slot \notin Slots /\ rows'[j].slot \notin Slots
                            /\ rows'[j] # Unborn /\ (rows[j] = Gone => rows'[j] = Gone)
    BY <2>2, Pale
  <2>4. rows'[c.other] = rows[c.other]
    BY <2>2, <2>3
  <2>5. Kept
    BY <2>2, <2>4 DEF Drawn
  <2> QED BY <1>1, <2>1, <2>2, <2>3, <2>5, Painting
<1>15. CASE EnchantResult
  BY <1>1, <1>15, DrawnResult
<1> QED BY <1>3, <1>4, <1>5, <1>6, <1>7, <1>8, <1>9, <1>10, <1>11, <1>12, <1>13, <1>14, <1>15, Steps

LEMMA DrawnStart ==
  ASSUME ItemsInit, Typed
  PROVE  Drawn
<1>1. doll = Dolled(rows) /\ use.conn = Idle
  BY DEF ItemsInit, Actors
<1>2. ASSUME NEW s \in Slots, doll[s] # None PROVE rows[doll[s]] # Unborn
  <2>1. doll[s] \in In(rows, s)
    BY <1>1, <1>2, Dolls
  <2> QED BY <2>1 DEF In, Unborn, Slots
<1> QED BY <1>1, <1>2, Idling DEF Drawn, Matches

---------------------------------------------------------------------------
(* No recipe is lost. *)

LEMMA Keeping ==
  ASSUME Typed, Typed', Registered, h'.start = h.start, book \subseteq book',
         \A i \in Items : T[i].handler = "Recipes" => rows'[i].count >= rows[i].count \/ T[i].recipe \in book,
         use'.conn.at = "consume" /\ T[use'.conn.item].handler = "Recipes" => T[use'.conn.item].recipe \in book',
         \/ use'.conn = use.conn /\ \A i \in Items : T[i].handler = "Recipes" => rows'[i] = rows[i]
         \/ use'.conn.at # "grant"
         \/ use'.conn.todo[2] # None => use'.conn.ocopy = rows'[use'.conn.todo[2]]
  PROVE  Registered'
<1>1. \A i \in Items : {rows[i].count, rows'[i].count, h.start[i].count} \subseteq Nat
  BY DEF Registered, Typed, ItemsTypeOK, Row, Gone, Unborn
<1>2. ASSUME NEW i \in Items, T[i].handler = "Recipes", rows'[i].count < h'.start[i].count
      PROVE  T[i].recipe \in book'
  <2>1. CASE rows'[i].count >= rows[i].count
    <3>1. rows[i].count < h.start[i].count
      BY <1>1, <1>2, <2>1
    <3> QED BY <1>2, <3>1 DEF Registered, RecipeNeverLost
  <2> QED BY <1>2, <2>1
<1>3. ASSUME use'.conn.at = "grant", use'.conn.todo[2] # None, rows'[use'.conn.todo[2]] \notin {Gone, Unborn},
             T[use'.conn.todo[2]].handler = "Recipes"
      PROVE  rows'[use'.conn.todo[2]].count <= use'.conn.ocopy.count
  <2>1. use'.conn.todo[2] \in Items
    BY <1>3 DEF Typed, Actors, Holds, Rolled
  <2>2. CASE use'.conn = use.conn /\ \A i \in Items : T[i].handler = "Recipes" => rows'[i] = rows[i]
    <3>1. rows'[use'.conn.todo[2]] = rows[use.conn.todo[2]]
      BY <1>3, <2>1, <2>2
    <3>2. Live(use.conn.todo[2])
      BY <1>3, <2>2, <3>1 DEF Live
    <3> QED BY <1>3, <2>2, <3>1, <3>2 DEF Registered
  <2>3. CASE use'.conn.ocopy = rows'[use'.conn.todo[2]]
    BY <1>1, <2>1, <2>3
  <2> QED BY <1>3, <2>2, <2>3
<1> QED BY <1>2, <1>3 DEF Registered, RecipeNeverLost, Live

LEMMA RegisteredSteps ==
  ASSUME Typed, Typed', Registered, [ItemsNext]_vars
  PROVE  Registered'
<1> DEFINE c == use.conn
           d == use'.conn
           Booked == d.at = "consume" /\ T[d.item].handler = "Recipes" => T[d.item].recipe \in book'
           Whole == \A i \in Items : T[i].handler = "Recipes" => rows'[i] = rows[i]
           Grown == \A i \in Items : T[i].handler = "Recipes" => rows'[i].count >= rows[i].count \/ T[i].recipe \in book
<1>1. h'.start = h.start
  BY Recorded
<1>2. ASSUME Whole PROVE Grown
  <2>1. \A i \in Items : rows[i].count \in Nat
    BY DEF Typed, ItemsTypeOK, Row, Gone, Unborn
  <2> QED BY <1>2, <2>1
<1>3. \A i \in Items : T[i].handler = "Recipes" => i \notin SoulShots /\ i \notin Scrolls /\ T[i].type = "EtcItem"
  BY KindsApart DEF SoulShots, Scrolls
<1>4. ASSUME d = c, book' = book, Whole PROVE Registered'
  <2>1. Booked
    BY <1>4 DEF Registered
  <2> QED BY <1>1, <1>2, <1>4, <2>1, Keeping
<1>5. ASSUME d.at \notin {"consume", "grant"}, book' = book, Grown PROVE Registered'
  BY <1>1, <1>5, Keeping
<1> HIDE DEF Booked, Whole, Grown
<1>6. ASSUME NEW i \in Items, PutOn(i) \/ TakeOff(i) PROVE Registered'
  <2>1. d.at = "clear" /\ Whole /\ book' = book
    BY <1>6, DressMoves DEF PutOn, TakeOff, Whole
  <2> QED BY <1>2, <1>5, <2>1
<1>7. ASSUME NEW i \in Items, ArmScroll(i) \/ PutTarget(i) \/ EnchantItem(i) PROVE Registered'
  <2>1. Whole /\ book' = book
    BY <1>7 DEF ArmScroll, PutTarget, EnchantItem, Whole
  <2>2. d = c \/ d.at = "pay"
    <3>1. CASE EnchantItem(i) /\ Live(arm) /\ Live(i) /\ Fits(arm, i, rows[i].level)
      <4>1. PICK u \in Use : Go("conn", u) /\ u.at = "pay"
        BY <3>1, Enchanting
      <4> QED BY <4>1 DEF Go, Typed, Actors
    <3> QED BY <1>7, <3>1 DEF ArmScroll, PutTarget, EnchantItem
  <2> QED BY <1>2, <1>4, <1>5, <2>1, <2>2
<1>8. ASSUME NEW i \in Items,
             Open(i) \/ Register(i) \/ Shoot(i) \/ (\E inCombat \in BOOLEAN : Drink(i, inCombat))
      PROVE  Registered'
  <2>1. rows' = rows /\ d.at # "grant" /\ Booked
    BY <1>8, TakeMoves DEF Booked
  <2>2. Whole /\ book' = book
    BY <1>8, <2>1 DEF Open, Register, Shoot, Drink, Whole
  <2> QED BY <1>1, <1>2, <2>1, <2>2, Keeping DEF Booked, Whole, Grown
<1>9. CASE AddRecipe
  <2>1. /\ rows' = rows /\ book \subseteq book' /\ d.at = "consume" /\ d.item = c.item
        /\ T[c.item].recipe \in book'
    BY <1>9, RecipeMoves
  <2>2. Whole
    BY <2>1 DEF Whole
  <2>3. Grown
    BY <1>2, <2>2
  <2> QED BY <1>1, <2>1, <2>3, Keeping DEF Grown
<1>10. CASE ConsumeOne
  <2> DEFINE r == Less(c.copy, 1)
  <2>1. c.at = "consume" /\ c.item \in Items /\ rows' = Update(c.item, r) /\ d.at \notin {"consume", "grant"}
    BY <1>10, ConsumeMoves
  <2>2. book' = book
    BY <1>10 DEF ConsumeOne
  <2> HIDE DEF r
  <2>3. \A i \in Items \ {c.item} : rows'[i] = rows[i]
    BY <2>1 DEF Update, Typed, ItemsTypeOK
  <2>4. T[c.item].handler = "Recipes" => T[c.item].recipe \in book
    BY <2>1 DEF Registered
  <2>5. \A i \in Items : rows[i].count \in Nat
    BY DEF Typed, ItemsTypeOK, Row, Gone, Unborn
  <2>6. Grown
    BY <2>3, <2>4, <2>5 DEF Grown
  <2> QED BY <1>5, <2>1, <2>2, <2>6
<1>11. ASSUME NEW n \in Nat, Roll(n) PROVE Registered'
  <2>1. /\ rows' = rows /\ d.at # "consume"
        /\ d.todo[2] # None => d.ocopy = rows'[d.todo[2]]
    BY <1>11, RollMoves
  <2>2. Whole /\ book' = book
    BY <1>11, <2>1 DEF Roll, Whole
  <2>3. Grown
    BY <1>2, <2>2
  <2> QED BY <1>1, <2>1, <2>2, <2>3, Keeping DEF Grown
<1>12. CASE GiveReward
  <2>1. PICK j \in Items, r \in Row :
          /\ rows[j].slot \notin Slots
          /\ \/ rows' = Update(j, r) /\ j = c.todo[2] /\ r.count >= c.ocopy.count
             \/ rows' = [rows EXCEPT ![j] = r] /\ rows[j] = Unborn /\ c.todo[2] = None
    BY <1>12, RewardMoves
  <2>2. c.at = "grant" /\ d.at = "show" /\ book' = book
    BY <1>12, RewardMoves DEF GiveReward
  <2>3. \A i \in Items : rows[i].count \in Nat
    BY DEF Typed, ItemsTypeOK, Row, Gone, Unborn
  <2>4. ASSUME NEW i \in Items, T[i].handler = "Recipes" PROVE rows'[i].count >= rows[i].count
    <3>1. CASE rows' = Update(j, r) /\ (i # j \/ ~Live(j))
      BY <2>1, <2>3, <3>1 DEF Update, Typed, ItemsTypeOK
    <3>2. CASE i = j /\ Live(j) /\ rows' = Update(j, r) /\ j = c.todo[2] /\ r.count >= c.ocopy.count
      <4>1. rows'[i] = r
        BY <3>2 DEF Update, Typed, ItemsTypeOK
      <4>2. c.todo[2] # None /\ Live(c.todo[2])
        BY <3>2, ItemsAssumption
      <4>3. rows[i].count <= c.ocopy.count
        BY <2>2, <2>4, <3>2, <4>2 DEF Registered
      <4>4. c.ocopy.count \in Nat /\ r.count \in Nat
        BY <2>2, <4>2 DEF Typed, Actors, Holds, Stock, Row
      <4> QED BY <2>3, <3>2, <4>1, <4>3, <4>4
    <3>3. CASE rows' = [rows EXCEPT ![j] = r] /\ rows[j] = Unborn
      <4>1. r.count \in Nat /\ Unborn.count = 0 /\ j \in Items
        BY <2>1 DEF Row, Unborn
      <4> QED BY <2>3, <3>3, <4>1 DEF Typed, ItemsTypeOK
    <3> QED BY <2>1, <3>1, <3>2, <3>3
  <2>5. Grown
    BY <2>4 DEF Grown
  <2> QED BY <1>5, <2>2, <2>5
<1>13. ASSUME NEW p \in Actors, ShotWeapon(p) \/ ShotSpend(p) \/ ShotCharge(p)
      PROVE  Registered'
  <2>1. book' = book
    BY <1>13 DEF ShotWeapon, ShotSpend, ShotCharge
  <2>2. rows' = rows \/ \E i \in SoulShots, r \in Row \union {Gone} : rows' = Update(i, r)
    BY <1>13, ShotMoves DEF Stock
  <2>3. Whole
    BY <1>3, <2>2 DEF Update, Typed, ItemsTypeOK, Whole
  <2>4. CASE p = "conn"
    <3>1. d.at \notin {"consume", "grant"}
      BY <1>13, <2>4, ShotMoves, Idling
    <3> QED BY <1>2, <1>5, <2>1, <2>3, <3>1
  <2>5. CASE p = "pass"
    <3>1. d = c
      BY <1>13, <2>5, ShotMoves DEF Actors
    <3> QED BY <1>4, <2>1, <2>3, <3>1
  <2> QED BY <2>4, <2>5 DEF Actors
<1>14. ASSUME PassTakes \/ (\E p \in Actors : Recharge(p)) \/ (\E i : EnableAuto(i))
      PROVE  Registered'
  <2>1. Whole /\ book' = book
    BY <1>14 DEF PassTakes, Recharge, EnableAuto, Whole
  <2>2. d = c \/ d.at \notin {"consume", "grant"}
    <3>1. CASE PassTakes
      BY <3>1, ListMoves DEF PassTakes, Actors
    <3>2. ASSUME NEW i, EnableAuto(i) PROVE d.at = "list"
      <4>1. "conn" \in Actors /\ Go("conn", [Idle EXCEPT !.at = "list"])
        BY <3>2 DEF EnableAuto, Actors
      <4> QED BY <4>1, ListMoves
    <3>3. ASSUME NEW p \in Actors, Recharge(p) PROVE d = c \/ d.at \notin {"consume", "grant"}
      <4>1. CASE p = "conn"
        BY <3>3, <4>1, RechargeMoves, Idling
      <4>2. CASE p # "conn"
        BY <3>3, <4>2, RechargeMoves DEF Actors
      <4> QED BY <4>1, <4>2
    <3> QED BY <1>14, <3>1, <3>2, <3>3
  <2> QED BY <1>2, <1>4, <1>5, <2>1, <2>2
<1>15. CASE Show \/ ShowUnread \/ (\E p \in Actors : Report(p)) \/ \E p \in Actors : StatementFails(p)
  <2>1. PICK p \in Actors : Go(p, Idle) /\ rows' = rows /\ book' = book
    BY <1>15 DEF Show, ShowUnread, Report, StatementFails, Actors
  <2>2. d = c \/ d = Idle
    BY <2>1 DEF Go, Typed, Actors
  <2>3. Whole
    BY <2>1 DEF Whole
  <2> QED BY <1>2, <1>4, <1>5, <2>1, <2>2, <2>3, Idling
<1>16. CASE CancelEnchant \/ (\E i : DisableAuto(i)) \/ Swing \/ HitLands \/ Tick \/ Relog \/ UNCHANGED vars
  <2>1. Whole /\ book' = book /\ use' = use
    BY <1>16 DEF CancelEnchant, DisableAuto, Swing, HitLands, Tick, Relog, vars, Whole
  <2> QED BY <1>4, <2>1
<1>17. CASE Crash
  <2>1. Whole /\ book' = book /\ d = Idle
    BY <1>17 DEF Crash, Actors, Whole
  <2> QED BY <1>2, <1>5, <2>1, Idling
<1>18. CASE ClearSlot \/ EquipItem
  <2>1. \A i \in Items : rows'[i].count = rows[i].count
    <3>1. CASE ClearSlot
      <4>1. \A i \in Items : rows'[i] = rows[i] \/ rows'[i] = [rows[i] EXCEPT !.slot = "bag"]
        BY <3>1, Clearing
      <4>2. \A i \in Items : [rows[i] EXCEPT !.slot = "bag"].count = rows[i].count
        BY DEF Typed, ItemsTypeOK, Row, Gone, Unborn
      <4> QED BY <4>1, <4>2
    <3>2. CASE EquipItem
      BY <3>2, EquipMoves DEF Live, Typed, ItemsTypeOK, Row
    <3> QED BY <1>18, <3>1, <3>2
  <2>2. d.at \notin {"consume", "grant"}
    <3>1. CASE ClearSlot
      BY <3>1, Clearing DEF Go, Typed, Actors
    <3> QED BY <1>18, <3>1, EquipMoves
  <2>3. \A i \in Items : rows[i].count \in Nat
    BY DEF Typed, ItemsTypeOK, Row, Gone, Unborn
  <2>4. Grown /\ book' = book
    BY <1>18, <2>1, <2>3 DEF Grown, ClearSlot, EquipItem
  <2> QED BY <1>5, <2>2, <2>4
<1>19. CASE ConsumeScroll \/ EnchantResult
  <2>1. d.at \notin {"consume", "grant"} /\ book' = book
    BY <1>19, PayMoves, ResultMoves DEF ConsumeScroll, EnchantResult
  <2>2. \E i \in Items, r \in Row \union {Gone} : rows' = Update(i, r) /\ (i \in Scrolls \/ T[i].type # "EtcItem")
    BY <1>19, PayMoves, ResultMoves DEF Scrolls, Stock
  <2>3. Whole
    BY <1>3, <2>2 DEF Update, Typed, ItemsTypeOK, Whole
  <2> QED BY <1>2, <1>5, <2>1, <2>3
<1> QED BY <1>6, <1>7, <1>8, <1>9, <1>10, <1>11, <1>12, <1>13, <1>14, <1>15, <1>16, <1>17, <1>18, <1>19, Steps

LEMMA RegisteredStart ==
  ASSUME ItemsInit, Typed
  PROVE  Registered
<1>1. h.start = rows /\ use.conn = Idle
  BY DEF ItemsInit, Actors
<1>2. \A i \in Items : rows[i].count \in Nat
  BY DEF Typed, ItemsTypeOK, Row, Gone, Unborn
<1>3. RecipeNeverLost
  BY <1>1, <1>2 DEF RecipeNeverLost
<1> QED BY <1>1, <1>3, Idling DEF Registered, Typed, ItemsTypeOK

---------------------------------------------------------------------------
(* Attempts are paid for. *)

\* Nothing is armed, paid or attempted.
LEMMA Spared ==
  ASSUME Typed, Typed', Paying, UNCHANGED <<h.attempts, h.pays, h.windows>>, arm' = arm \/ arm' = None,
         \/ use'.conn.at \notin {"pay", "result"}
         \/ use'.conn = use.conn /\ \A i \in Items : T[i].type # "EtcItem" => rows'[i] = rows[i]
  PROVE  Paying'
<1> DEFINE c == use.conn
           d == use'.conn
<1>1. CASE d.at \notin {"pay", "result"}
  BY <1>1 DEF Paying, AttemptsArePaid
<1>2. CASE d = c /\ \A i \in Items : T[i].type # "EtcItem" => rows'[i] = rows[i]
  <2>1. ASSUME c.at \in {"pay", "result"}
        PROVE  rows'[d.other] \notin {Gone, Unborn} /\ Fits(d.item, d.other, rows'[d.other].level)
    <3>1. rows'[c.other] = rows[c.other]
      BY <1>2, <2>1 DEF Typed, Actors, Holds
    <3>2. Live(c.other) /\ Fits(c.item, c.other, rows[c.other].level)
      BY <2>1 DEF Paying, AttemptsArePaid
    <3> QED BY <1>2, <3>1, <3>2 DEF Live
  <2> QED BY <1>2, <2>1 DEF Paying, AttemptsArePaid, Live
<1> QED BY <1>1, <1>2

\* The counters count one more.
LEMMA Counted ==
  ASSUME Typed, Paying
  PROVE  /\ EnchantResult => h'.attempts = h.attempts + 1 /\ h'.pays = h.pays /\ h'.windows = h.windows
         /\ ConsumeScroll => h'.attempts = h.attempts /\ h'.pays = h.pays + 1 /\ h'.windows = h.windows - 1
         /\ \A i : ArmScroll(i) => h'.attempts = h.attempts /\ h'.pays = h.pays /\ h'.windows = 1
<1>1. DOMAIN h = HistoryFields
  BY DEF Typed
<1>2. ASSUME EnchantResult PROVE h'.attempts = h.attempts + 1 /\ h'.pays = h.pays /\ h'.windows = h.windows
  BY <1>1, <1>2 DEF EnchantResult, Count, HistoryFields
<1>3. ASSUME ConsumeScroll PROVE h'.attempts = h.attempts /\ h'.pays = h.pays + 1 /\ h'.windows = h.windows - 1
  BY <1>1, <1>3 DEF ConsumeScroll, HistoryFields
<1>4. ASSUME NEW i, ArmScroll(i) PROVE h'.attempts = h.attempts /\ h'.pays = h.pays /\ h'.windows = 1
  BY <1>1, <1>4 DEF ArmScroll, HistoryFields
<1> QED BY <1>2, <1>3, <1>4

LEMMA PayingSteps ==
  ASSUME Typed, Typed', Paying, [ItemsNext]_vars
  PROVE  Paying'
<1> DEFINE c == use.conn
           d == use'.conn
           Hard == \A i \in Items : T[i].type # "EtcItem" => rows'[i] = rows[i]
           Free == arm' = arm \/ arm' = None
           Still == UNCHANGED <<h.attempts, h.pays, h.windows>>
<1>1. Still \/ ConsumeScroll \/ EnchantResult \/ \E i \in Items : ArmScroll(i)
  BY Recorded
<1>2. ASSUME Still, Free, d.at \notin {"pay", "result"} \/ (d = c /\ Hard)
      PROVE  Paying'
  BY <1>2, Spared
<1>3. CASE ConsumeScroll
  <2>1. /\ c.at = "pay" /\ c.item \in Items /\ T[c.item].type = "EtcItem" /\ c.other \in Items
        /\ T[c.other].type # "EtcItem" /\ rows' = Update(c.item, Less(c.copy, 1))
        /\ d.at = "result" /\ d.item = c.item /\ d.other = c.other
    BY <1>3, PayMoves, KindsApart
  <2>2. rows'[c.other] = rows[c.other]
    BY <2>1 DEF Update, Typed, ItemsTypeOK
  <2>3. Live(c.other) /\ Fits(c.item, c.other, rows[c.other].level)
    BY <2>1 DEF Paying, AttemptsArePaid
  <2>4. Live(c.other)' /\ Fits(d.item, d.other, rows'[d.other].level)
    <3>1. rows'[c.other] \notin {Gone, Unborn}
      BY <2>2, <2>3 DEF Live
    <3>2. Fits(c.item, c.other, rows'[c.other].level)
      BY <2>2, <2>3
    <3> QED BY <2>1, <3>1, <3>2 DEF Live
  <2>5. /\ arm = None /\ arm' = arm /\ h'.attempts = h.attempts /\ h'.pays = h.pays + 1 /\ h'.windows = h.windows - 1
        /\ h.windows = 1 /\ {h.attempts, h.pays} \subseteq Nat /\ h.attempts <= h.pays
    BY <1>3, <2>1, Counted DEF Paying, AttemptsArePaid, ConsumeScroll
  <2>6. /\ h'.attempts <= h'.pays /\ h'.attempts < h'.pays /\ h'.windows = 0
        /\ {h'.attempts, h'.pays} \subseteq Nat
    BY <2>5
  <2> QED BY <2>1, <2>4, <2>5, <2>6 DEF Paying, AttemptsArePaid, Live
<1>4. CASE EnchantResult
  <2>1. c.at = "result" /\ d.at = "report" /\ arm' = arm
    BY <1>4, ResultMoves DEF EnchantResult
  <2>2. /\ h'.attempts = h.attempts + 1 /\ h'.pays = h.pays /\ h'.windows = h.windows
        /\ h.attempts < h.pays /\ {h.attempts, h.pays} \subseteq Nat
    BY <1>4, <2>1, Counted DEF Paying
  <2>3. h'.attempts <= h'.pays /\ {h'.attempts, h'.pays} \subseteq Nat
    BY <2>2
  <2> QED BY <2>1, <2>2, <2>3 DEF Paying, AttemptsArePaid
<1>5. ASSUME NEW i \in Items, ArmScroll(i) PROVE Paying'
  <2>1. d = c /\ c.at = "idle"
    BY <1>5 DEF ArmScroll, Handled, May, At
  <2>2. h'.attempts = h.attempts /\ h'.pays = h.pays /\ h'.windows = 1
    BY <1>5, Counted
  <2> QED BY <2>1, <2>2 DEF Paying, AttemptsArePaid
<1>6. ASSUME NEW i \in Items, PutTarget(i) \/ EnchantItem(i), Still PROVE Paying'
  <2>1. arm' = None
    BY <1>6 DEF PutTarget, EnchantItem
  <2>2. CASE UNCHANGED use
    <3>1. rows' = rows
      BY <1>6 DEF PutTarget, EnchantItem
    <3> QED BY <1>2, <1>6, <2>1, <2>2, <3>1
  <2>3. CASE EnchantItem(i) /\ Live(arm) /\ Live(i) /\ Fits(arm, i, rows[i].level)
    <3>1. PICK u \in Use : Go("conn", u) /\ u.at = "pay" /\ u.item = arm /\ u.other = i
      BY <2>3, Enchanting
    <3>2. d = u /\ rows' = rows /\ arm # None
      BY <2>3, <3>1 DEF Go, Typed, Actors, EnchantItem
    <3>3. h'.windows = 1
      BY <1>6, <3>2 DEF Paying
    <3>4. rows'[d.other] \notin {Gone, Unborn} /\ Fits(d.item, d.other, rows'[d.other].level)
      <4>1. rows'[i] \notin {Gone, Unborn} /\ Fits(arm, i, rows'[i].level)
        BY <2>3, <3>2 DEF Live
      <4> QED BY <3>1, <3>2, <4>1 DEF Live
    <3> QED BY <1>6, <2>1, <3>1, <3>2, <3>3, <3>4 DEF Paying, AttemptsArePaid, Live
  <2> QED BY <1>6, <2>2, <2>3 DEF PutTarget, EnchantItem
<1> HIDE DEF Hard, Free, Still
<1>7. ASSUME NEW i \in Items, PutOn(i) \/ TakeOff(i), Still PROVE Paying'
  <2>1. d.at = "clear" /\ Free
    BY <1>7, DressMoves DEF PutOn, TakeOff, Free
  <2> QED BY <1>2, <1>7, <2>1
<1>8. ASSUME NEW i \in Items, Still,
             Open(i) \/ Register(i) \/ Shoot(i) \/ (\E inCombat \in BOOLEAN : Drink(i, inCombat))
      PROVE  Paying'
  <2>1. d.at \notin {"pay", "result"} /\ Free
    BY <1>8, TakeMoves DEF Open, Register, Shoot, Drink, Free
  <2> QED BY <1>2, <1>8, <2>1
<1>9. CASE Still /\ (AddRecipe \/ ConsumeOne \/ (\E n \in Nat : Roll(n)) \/ GiveReward)
  <2>1. d.at \notin {"pay", "result"}
    BY <1>9, RecipeMoves, ConsumeMoves, RollMoves, RewardMoves
  <2>2. Free
    BY <1>9 DEF AddRecipe, ConsumeOne, Roll, GiveReward, Free
  <2> QED BY <1>2, <1>9, <2>1, <2>2
<1>10. ASSUME NEW p \in Actors, ShotWeapon(p) \/ ShotSpend(p) \/ ShotCharge(p), Still
      PROVE  Paying'
  <2>1. Free
    BY <1>10 DEF ShotWeapon, ShotSpend, ShotCharge, Free
  <2>2. rows' = rows \/ \E i \in SoulShots, r \in Row \union {Gone} : rows' = Update(i, r)
    BY <1>10, ShotMoves DEF Stock
  <2>3. Hard
    BY <2>2, KindsApart DEF Update, Typed, ItemsTypeOK, Hard
  <2>4. d.at \notin {"pay", "result"} \/ d = c
    <3>1. CASE p = "conn"
      BY <1>10, <3>1, ShotMoves, Idling
    <3>2. CASE p = "pass"
      BY <1>10, <3>2, ShotMoves DEF Actors
    <3> QED BY <3>1, <3>2 DEF Actors
  <2> QED BY <1>2, <1>10, <2>1, <2>3, <2>4
<1>11. ASSUME Still, PassTakes \/ (\E p \in Actors : Recharge(p)) \/ (\E i : EnableAuto(i))
      PROVE  Paying'
  <2>1. Hard /\ Free
    BY <1>11 DEF PassTakes, Recharge, EnableAuto, Hard, Free
  <2>2. d = c \/ d.at \notin {"pay", "result"}
    <3>1. CASE PassTakes
      BY <3>1, ListMoves DEF PassTakes, Actors
    <3>2. ASSUME NEW i, EnableAuto(i) PROVE d.at = "list"
      <4>1. "conn" \in Actors /\ Go("conn", [Idle EXCEPT !.at = "list"])
        BY <3>2 DEF EnableAuto, Actors
      <4> QED BY <4>1, ListMoves
    <3>3. ASSUME NEW p \in Actors, Recharge(p) PROVE d = c \/ d.at \notin {"pay", "result"}
      <4>1. CASE p = "conn"
        BY <3>3, <4>1, RechargeMoves, Idling
      <4>2. CASE p # "conn"
        BY <3>3, <4>2, RechargeMoves DEF Actors
      <4> QED BY <4>1, <4>2
    <3> QED BY <1>11, <3>1, <3>2, <3>3
  <2> QED BY <1>2, <1>11, <2>1, <2>2
<1>12. CASE Still /\ (Show \/ ShowUnread \/ (\E p \in Actors : Report(p)) \/ \E p \in Actors : StatementFails(p))
  <2>1. PICK p \in Actors : Go(p, Idle) /\ rows' = rows /\ arm' = arm
    BY <1>12 DEF Show, ShowUnread, Report, StatementFails, Actors
  <2>2. d = c \/ d = Idle
    BY <2>1 DEF Go, Typed, Actors
  <2>3. Hard /\ Free
    BY <2>1 DEF Hard, Free
  <2> QED BY <1>2, <1>12, <2>2, <2>3, Idling
<1>13. CASE Still /\ (CancelEnchant \/ (\E i : DisableAuto(i)) \/ Swing \/ HitLands \/ Tick \/ Relog \/ UNCHANGED vars)
  <2>1. Hard /\ Free /\ use' = use
    BY <1>13 DEF CancelEnchant, DisableAuto, Swing, HitLands, Tick, Relog, vars, Hard, Free
  <2> QED BY <1>2, <1>13, <2>1
<1>14. CASE Still /\ Crash
  <2>1. Free /\ d = Idle
    BY <1>14 DEF Crash, Actors, Free
  <2> QED BY <1>2, <1>14, <2>1, Idling
<1>15. CASE Still /\ (ClearSlot \/ EquipItem)
  <2>1. d.at \notin {"pay", "result"}
    <3>1. CASE ClearSlot
      BY <3>1, Clearing DEF Go, Typed, Actors
    <3> QED BY <1>15, <3>1, EquipMoves
  <2>2. Free
    BY <1>15 DEF ClearSlot, EquipItem, Free
  <2> QED BY <1>2, <1>15, <2>1, <2>2
<1> QED BY <1>1, <1>3, <1>4, <1>5, <1>6, <1>7, <1>8, <1>9, <1>10, <1>11, <1>12, <1>13, <1>14, <1>15, Steps

LEMMA PayingStart ==
  ASSUME ItemsInit
  PROVE  Paying
<1>1. use.conn = Idle
  BY DEF ItemsInit, Actors
<1>2. h.attempts = 0 /\ h.pays = 0 /\ h.windows = 0 /\ arm = None
  BY DEF ItemsInit
<1> QED BY <1>1, <1>2, Idling DEF Paying, AttemptsArePaid

---------------------------------------------------------------------------
(* Reuse is waited for. *)

LEMMA Ready ==
  ASSUME Waiting, NEW i \in Items, May(i), T[i].delay > 0
  PROVE  \A j \in Items : Grouped(i, j) => stamp[j] <= clock
<1>1. clock \in Nat /\ \A j \in Items : stamp[j] \in Nat
  BY DEF Waiting
<1>2. \A j \in Items : RemainingByItem(j) = 0 => stamp[j] <= clock
  BY <1>1 DEF RemainingByItem
<1>3. RemainingByItem(i) = 0 /\ GroupReady(T[i].group)
  BY DEF May
<1> QED BY <1>2, <1>3 DEF GroupReady, Grouped

\* No use is stamped.
LEMMA Biding ==
  ASSUME Typed, Typed', Waiting, stamp' = stamp, h'.uses \in {h.uses, <<>>}, clock' \in Nat, clock' >= clock,
         Using(use'.conn) =>
           \/ Using(use.conn) /\ use'.conn.item = use.conn.item
           \/ /\ use'.conn.item \in Items
              /\ T[use'.conn.item].delay > 0 =>
                   \A j \in Items : Grouped(use'.conn.item, j) => stamp[j] <= clock
  PROVE  Waiting'
<1> DEFINE d == use'.conn
<1>1. clock \in Nat /\ \A j \in Items : stamp[j] \in Nat
  BY DEF Waiting
<1>2. ASSUME Using(d), T[d.item].delay > 0, NEW j \in Items, Grouped(d.item, j) PROVE stamp'[j] <= clock'
  <2>1. stamp[j] <= clock
    BY <1>2 DEF Waiting
  <2> QED BY <1>1, <2>1
<1>3. CASE h'.uses = h.uses
  BY <1>2, <1>3 DEF Waiting, ReuseRespected, Grouped, Using
<1>4. CASE h'.uses = <<>>
  <2>1. /\ h'.uses \in Seq([item : Items, time : Nat]) /\ DOMAIN h'.uses = {}
    BY <1>4
  <2> QED BY <1>2, <2>1 DEF Waiting, ReuseRespected, Grouped, Using
<1> QED BY <1>3, <1>4

\* A use is stamped.
LEMMA Stamping ==
  ASSUME Typed, Waiting, NEW i \in Items, T[i].delay > 0, \A j \in Items : Grouped(i, j) => stamp[j] <= clock,
         stamp' = [stamp EXCEPT ![i] = clock + T[i].delay],
         h'.uses = Append(h.uses, [item |-> i, time |-> clock]), clock' = clock, ~Using(use'.conn)
  PROVE  Waiting'
<1> DEFINE R == [item : Items, time : Nat]
           e == [item |-> i, time |-> clock]
           q == h.uses
           w == h'.uses
           n == Len(q)
<1>1. clock \in Nat /\ (\A j \in Items : stamp[j] \in Nat /\ T[j].delay \in Nat) /\ q \in Seq(R)
  BY ItemsAssumption DEF Waiting, Template
<1>2. e \in R /\ e.item = i /\ e.time = clock
  BY <1>1
<1> HIDE DEF e, R
<1>3. /\ w \in Seq(R) /\ n \in Nat /\ Len(w) = n + 1 /\ w[n + 1] = e
      /\ \A k \in 1 .. n : w[k] = q[k]
      /\ DOMAIN w = 1 .. n + 1 /\ DOMAIN q = 1 .. n
  <2>1. w = Append(q, e)
    BY DEF e
  <2> HIDE DEF w, q
  <2>2. n \in Nat /\ DOMAIN q = 1 .. n
    BY <1>1
  <2>3. /\ Append(q, e) \in Seq(R) /\ Len(Append(q, e)) = Len(q) + 1
        /\ Append(q, e)[Len(q) + 1] = e /\ \A k \in 1 .. Len(q) : Append(q, e)[k] = q[k]
    <3>1. q \in Seq(R) /\ e \in R
      BY <1>1, <1>2
    <3> QED BY <3>1, AppendProperties
  <2>4. DOMAIN w = 1 .. Len(w)
    BY <2>1, <2>3
  <2> QED BY <2>1, <2>2, <2>3, <2>4
<1> HIDE DEF w, q, n
<1>4. stamp' \in [Items -> Nat] /\ stamp'[i] = clock + T[i].delay
      /\ \A j \in Items : stamp'[j] >= stamp[j]
  <2>1. stamp[i] <= clock /\ stamp \in [Items -> Nat]
    BY DEF Grouped, Waiting
  <2>2. \A j \in Items : stamp'[j] = IF j = i THEN clock + T[i].delay ELSE stamp[j]
    BY <2>1
  <2>3. stamp' = [j \in Items |-> IF j = i THEN clock + T[i].delay ELSE stamp[j]]
    BY <2>1
  <2> QED BY <1>1, <2>1, <2>2, <2>3
<1>5. \A k \in 1 .. n : q[k] \in R /\ q[k].item \in Items /\ q[k].time \in Nat
  <2>1. \A k \in 1 .. n : q[k] \in R
    BY <1>1 DEF n
  <2> QED BY <2>1 DEF R
<1>6. \A k \in 1 .. n : stamp[q[k].item] >= q[k].time + T[q[k].item].delay
  BY <1>3 DEF Waiting, q
<1>7. ASSUME NEW a \in DOMAIN w PROVE stamp'[w[a].item] >= w[a].time + T[w[a].item].delay
  <2>1. CASE a = n + 1
    BY <1>1, <1>2, <1>3, <1>4, <2>1
  <2>2. CASE a \in 1 .. n
    <3>1. w[a] = q[a] /\ q[a].item \in Items /\ q[a].time \in Nat
      BY <1>3, <1>5, <2>2
    <3>2. stamp[q[a].item] >= q[a].time + T[q[a].item].delay
      BY <1>6, <2>2
    <3>3. {stamp'[q[a].item], stamp[q[a].item], T[q[a].item].delay} \subseteq Nat /\ stamp'[q[a].item] >= stamp[q[a].item]
      BY <1>1, <1>4, <3>1
    <3> QED BY <3>1, <3>2, <3>3
  <2> QED BY <1>3, <2>1, <2>2
<1>8. ASSUME NEW a \in DOMAIN w, NEW b \in DOMAIN w, a < b,
             w[a].item = w[b].item \/ (T[w[a].item].group # 0 /\ T[w[a].item].group = T[w[b].item].group)
      PROVE  w[b].time >= w[a].time + T[w[a].item].delay
  <2>1. a \in 1 .. n /\ w[a] = q[a] /\ q[a].item \in Items /\ q[a].time \in Nat
    BY <1>3, <1>5, <1>8
  <2>2. CASE b \in 1 .. n
    <3>1. w[b] = q[b]
      BY <1>3, <2>2
    <3> QED BY <1>3, <1>8, <2>1, <2>2, <3>1 DEF Waiting, ReuseRespected, q
  <2>3. CASE b = n + 1
    <3>1. w[b].item = i /\ w[b].time = clock
      BY <1>2, <1>3, <2>3
    <3>2. stamp[q[a].item] <= clock
      BY <1>8, <2>1, <3>1 DEF Grouped
    <3>3. stamp[q[a].item] >= q[a].time + T[q[a].item].delay
      BY <1>6, <2>1
    <3>4. {stamp[q[a].item], T[q[a].item].delay} \subseteq Nat
      BY <1>1, <2>1
    <3> QED BY <1>1, <2>1, <3>1, <3>2, <3>3, <3>4
  <2> QED BY <1>3, <2>2, <2>3
<1>9. clock' \in Nat /\ w \in Seq([item : Items, time : Nat])
  BY <1>1, <1>3 DEF R
<1> QED BY <1>4, <1>7, <1>8, <1>9 DEF Waiting, ReuseRespected, w

\* The goroutine of the connection has told its client.
LEMMA WaitingShow ==
  ASSUME Typed, Typed', Waiting, Show \/ ShowUnread
  PROVE  Waiting'
<1> DEFINE c == use.conn
           d == use'.conn
<1>1. c.at = "show" /\ d = Idle /\ clock' = clock
  BY DEF Show, ShowUnread, At, Go, Typed, Actors
<1>2. c.other \in Slots \/ (c.other = "used" /\ c.item \in Items)
  BY <1>1 DEF Typed, Actors, Holds
<1>3. ~Using(d)
  BY <1>1, Idling DEF Using
<1>4. DOMAIN h = HistoryFields
  BY DEF Typed
<1>5. CASE c.other = "used" /\ T[c.item].delay > 0
  <2>1. c.item \in Items
    BY <1>2, <1>5 DEF Slots
  <2>2. stamp' = [stamp EXCEPT ![c.item] = clock + T[c.item].delay]
    BY <1>5 DEF Show, ShowUnread, Stamped, AddReuse
  <2>3. \/ h' = [h EXCEPT !.uses = Append(@, [item |-> c.item, time |-> clock])]
        \/ h' = [h EXCEPT !.failures = @ + 1, !.uses = Append(@, [item |-> c.item, time |-> clock])]
    BY <1>5 DEF Show, ShowUnread, Stamped
  <2>4. h'.uses = Append(h.uses, [item |-> c.item, time |-> clock])
    BY <1>4, <2>3 DEF HistoryFields
  <2>5. Using(c)
    BY <1>1, <1>5 DEF Using
  <2>6. \A j \in Items : Grouped(c.item, j) => stamp[j] <= clock
    BY <1>5, <2>5 DEF Waiting
  <2> QED BY <1>1, <1>3, <1>5, <2>1, <2>2, <2>4, <2>6, Stamping
<1>6. CASE ~(c.other = "used" /\ T[c.item].delay > 0)
  <2>1. stamp' = stamp /\ (h' = h \/ h' = [h EXCEPT !.failures = @ + 1])
    BY <1>6 DEF Show, ShowUnread, Stamped, Count
  <2>2. h'.uses = h.uses
    BY <1>4, <2>1 DEF HistoryFields
  <2>3. clock \in Nat
    BY DEF Waiting
  <2> QED BY <1>1, <1>3, <2>1, <2>2, <2>3, Biding
<1> QED BY <1>5, <1>6

LEMMA WaitingSteps ==
  ASSUME Typed, Typed', Waiting, [ItemsNext]_vars
  PROVE  Waiting'
<1> DEFINE c == use.conn
           d == use'.conn
           Held == stamp' = stamp /\ clock' = clock
           Bid == Using(d) => Using(c) /\ d.item = c.item
<1>1. h'.uses \in {h.uses, <<>>} \/ Show \/ ShowUnread
  BY Recorded
<1>2. clock \in Nat
  BY DEF Waiting
<1>3. ASSUME h'.uses \in {h.uses, <<>>}, Held, Bid PROVE Waiting'
  BY <1>2, <1>3, Biding
<1>4. ASSUME d = c \/ d = Idle \/ d.at \in {"idle", "list", "clear", "equip", "pay", "result", "report"}
      PROVE  Bid
  BY <1>4, Idling DEF Using
<1> HIDE DEF Held, Bid
<1>5. CASE Show \/ ShowUnread
  BY <1>5, WaitingShow
<1> SUFFICES ASSUME h'.uses \in {h.uses, <<>>} PROVE Waiting'
  BY <1>1, <1>5
<1>6. ASSUME NEW i \in Items, PutOn(i) \/ TakeOff(i) PROVE Waiting'
  <2>1. d.at = "clear" /\ Held
    BY <1>6, DressMoves DEF PutOn, TakeOff, Held
  <2> QED BY <1>3, <1>4, <2>1
<1>7. ASSUME NEW i \in Items, ArmScroll(i) \/ PutTarget(i) \/ EnchantItem(i) PROVE Waiting'
  <2>1. Held
    BY <1>7 DEF ArmScroll, PutTarget, EnchantItem, Held
  <2>2. d = c \/ d.at = "pay"
    <3>1. CASE EnchantItem(i) /\ Live(arm) /\ Live(i) /\ Fits(arm, i, rows[i].level)
      <4>1. PICK u \in Use : Go("conn", u) /\ u.at = "pay"
        BY <3>1, Enchanting
      <4> QED BY <4>1 DEF Go, Typed, Actors
    <3> QED BY <1>7, <3>1 DEF ArmScroll, PutTarget, EnchantItem
  <2> QED BY <1>3, <1>4, <2>1, <2>2
<1>8. ASSUME NEW i \in Items,
             Open(i) \/ Register(i) \/ Shoot(i) \/ (\E inCombat \in BOOLEAN : Drink(i, inCombat))
      PROVE  Waiting'
  <2>1. d.item = i /\ May(i)
    BY <1>8, TakeMoves
  <2>2. Held
    BY <1>8 DEF Open, Register, Shoot, Drink, Held
  <2>3. T[i].delay > 0 => \A j \in Items : Grouped(i, j) => stamp[j] <= clock
    BY <2>1, Ready
  <2> QED BY <1>2, <2>1, <2>2, <2>3, Biding DEF Held
<1>9. CASE AddRecipe \/ ConsumeOne \/ (\E n \in Nat : Roll(n)) \/ GiveReward
  <2>1. c.at \in {"register", "consume", "roll", "grant"} /\ d.item = c.item
    BY <1>9, RecipeMoves, ConsumeMoves, RollMoves, RewardMoves
  <2>2. Held
    BY <1>9 DEF AddRecipe, ConsumeOne, Roll, GiveReward, Held
  <2>3. Bid
    BY <2>1 DEF Bid, Using
  <2> QED BY <1>3, <2>2, <2>3
<1>10. ASSUME NEW p \in Actors, ShotWeapon(p) \/ ShotSpend(p) \/ ShotCharge(p)
      PROVE  Waiting'
  <2>1. Held
    BY <1>10 DEF ShotWeapon, ShotSpend, ShotCharge, Held
  <2>2. Bid
    <3>1. CASE p = "conn"
      <4>1. \/ d = Idle
            \/ /\ c.at \in {"weapon", "spend", "charge"} /\ d.item = c.item /\ d.auto = c.auto
               /\ d.at \in {"spend", "charge"} \/ d.at = IF c.auto THEN "report" ELSE "show"
        BY <1>10, <3>1, ShotMoves
      <4>2. CASE d = Idle
        BY <1>4, <4>2
      <4>3. CASE /\ c.at \in {"weapon", "spend", "charge"} /\ d.item = c.item /\ d.auto = c.auto
                 /\ d.at \in {"spend", "charge"} \/ d.at = IF c.auto THEN "report" ELSE "show"
        <5>1. CASE c.auto
          BY <4>3, <5>1 DEF Bid, Using
        <5>2. CASE ~c.auto
          BY <4>3, <5>2 DEF Bid, Using
        <5> QED BY <5>1, <5>2
      <4> QED BY <4>1, <4>2, <4>3
    <3>2. CASE p = "pass"
      <4>1. d = c
        BY <1>10, <3>2, ShotMoves DEF Actors
      <4> QED BY <1>4, <4>1
    <3> QED BY <3>1, <3>2 DEF Actors
  <2> QED BY <1>3, <2>1, <2>2
<1>11. ASSUME PassTakes \/ (\E p \in Actors : Recharge(p)) \/ (\E i : EnableAuto(i))
      PROVE  Waiting'
  <2>1. Held
    BY <1>11 DEF PassTakes, Recharge, EnableAuto, Held
  <2>2. Bid
    <3>1. CASE PassTakes
      <4>1. d = c
        BY <3>1, ListMoves DEF PassTakes, Actors
      <4> QED BY <1>4, <4>1
    <3>2. ASSUME NEW i, EnableAuto(i) PROVE Bid
      <4>1. "conn" \in Actors /\ Go("conn", [Idle EXCEPT !.at = "list"])
        BY <3>2 DEF EnableAuto, Actors
      <4>2. d.at = "list"
        BY <4>1, ListMoves
      <4> QED BY <1>4, <4>2
    <3>3. ASSUME NEW p \in Actors, Recharge(p) PROVE Bid
      <4>1. CASE p = "conn"
        <5>1. d = Idle \/ (d.at = "weapon" /\ d.auto)
          BY <3>3, <4>1, RechargeMoves
        <5>2. CASE d.at = "weapon" /\ d.auto
          BY <5>2 DEF Bid, Using
        <5> QED BY <1>4, <5>1, <5>2
      <4>2. CASE p # "conn"
        <5>1. d = c
          BY <3>3, <4>2, RechargeMoves DEF Actors
        <5> QED BY <1>4, <5>1
      <4> QED BY <4>1, <4>2
    <3> QED BY <1>11, <3>1, <3>2, <3>3
  <2> QED BY <1>3, <2>1, <2>2
<1>12. CASE (\E p \in Actors : Report(p)) \/ \E p \in Actors : StatementFails(p)
  <2>1. PICK p \in Actors : Go(p, Idle) /\ Held
    BY <1>12 DEF Report, StatementFails, Held
  <2>2. d = c \/ d = Idle
    BY <2>1 DEF Go, Typed, Actors
  <2> QED BY <1>3, <1>4, <2>1, <2>2
<1>13. CASE CancelEnchant \/ (\E i : DisableAuto(i)) \/ Swing \/ HitLands \/ UNCHANGED vars
  <2>1. Held /\ use' = use
    BY <1>13 DEF CancelEnchant, DisableAuto, Swing, HitLands, vars, Held
  <2> QED BY <1>3, <1>4, <2>1
<1>14. CASE Tick
  <2>1. stamp' = stamp /\ use' = use /\ clock' = clock + 1
    BY <1>14 DEF Tick
  <2>2. clock' \in Nat /\ clock' >= clock
    BY <1>2, <2>1
  <2> QED BY <2>1, <2>2, Biding
<1>15. CASE Relog \/ Crash
  <2>1. stamp' = [i \in Items |-> 0] /\ clock' = clock /\ d.at = "idle"
    BY <1>15, Idling DEF Relog, Crash, Actors, At
  <2>2. h'.uses = <<>>
    <3>1. \/ h' = [h EXCEPT !.crashes = @ + 1, !.uses = <<>>, !.lost = @ + InFlight]
          \/ h' = [h EXCEPT !.uses = <<>>]
      BY <1>15 DEF Relog, Crash
    <3> QED BY <3>1 DEF Typed, HistoryFields
  <2>3. h'.uses \in Seq([item : Items, time : Nat]) /\ DOMAIN h'.uses = {}
    BY <2>2
  <2> QED BY <1>2, <2>1, <2>3 DEF Waiting, ReuseRespected, Using
<1>16. CASE ClearSlot \/ EquipItem
  <2>1. d.at \in {"clear", "equip"} \/ (d.at = "show" /\ d.other \in Slots)
    <3>1. CASE ClearSlot
      <4>1. PICK u \in Use : Go("conn", u) /\ (u.at \in {"clear", "equip"} \/ (u.at = "show" /\ u.other \in Slots))
        BY <3>1, Clearing
      <4> QED BY <4>1 DEF Go, Typed, Actors
    <3> QED BY <1>16, <3>1, EquipMoves
  <2>2. Bid
    BY <2>1 DEF Bid, Using, Slots
  <2>3. Held
    BY <1>16 DEF ClearSlot, EquipItem, Held
  <2> QED BY <1>3, <2>2, <2>3
<1>17. CASE ConsumeScroll \/ EnchantResult
  <2>1. d.at \in {"result", "report"} /\ Held
    BY <1>17, PayMoves, ResultMoves DEF ConsumeScroll, EnchantResult, Held
  <2> QED BY <1>3, <1>4, <2>1
<1> QED BY <1>5, <1>6, <1>7, <1>8, <1>9, <1>10, <1>11, <1>12, <1>13, <1>14, <1>15, <1>16, <1>17, Steps

LEMMA WaitingStart ==
  ASSUME ItemsInit
  PROVE  Waiting
<1>1. use.conn = Idle /\ clock = 0 /\ stamp = [i \in Items |-> 0] /\ h.uses = <<>>
  BY DEF ItemsInit, Actors
<1>2. h.uses \in Seq([item : Items, time : Nat]) /\ DOMAIN h.uses = {}
  BY <1>1
<1> QED BY <1>1, <1>2, Idling DEF Waiting, ReuseRespected, Using

---------------------------------------------------------------------------
(* The client sees its bag. *)

\* No statement failed and nothing overlapped that must not.
Tidy == h.failures = 0 /\ ~h.late

LEMMA Tidying ==
  ASSUME Typed, [ItemsNext]_vars, Tidy'
  PROVE  /\ Tidy /\ ~ShowUnread /\ \A p \in Actors : ~StatementFails(p)
         /\ (\E i \in Items : Open(i) \/ Shoot(i)) \/ (\E i : EnableAuto(i)) => use.pass.at = "idle"
         /\ PassTakes => use.conn.at = "idle"
<1>1. DOMAIN h = HistoryFields /\ h.failures \in Nat
  BY DEF Typed
<1>2. Tidy
  BY Recorded DEF Tidy
<1>3. ~ShowUnread /\ \A p \in Actors : ~StatementFails(p)
  <2>1. ASSUME ShowUnread \/ \E p \in Actors : StatementFails(p) PROVE FALSE
    <3>1. \E w : \/ h' = [h EXCEPT !.failures = @ + 1, !.uses = w]
                 \/ h' = [h EXCEPT !.failures = @ + 1]
      <4>1. CASE ShowUnread /\ use.conn.other = "used" /\ T[use.conn.item].delay > 0
        BY <4>1 DEF ShowUnread
      <4>2. CASE ShowUnread /\ ~(use.conn.other = "used" /\ T[use.conn.item].delay > 0)
        BY <4>2 DEF ShowUnread, Count
      <4>3. ASSUME NEW p \in Actors, StatementFails(p) PROVE h' = [h EXCEPT !.failures = @ + 1]
        BY <4>3 DEF StatementFails, Count
      <4> QED BY <2>1, <4>1, <4>2, <4>3
    <3>2. h'.failures = h.failures + 1
      BY <1>1, <3>1 DEF HistoryFields
    <3> QED BY <1>1, <3>2 DEF Tidy
  <2> QED BY <2>1
<1>4. ASSUME NEW i, Open(i) \/ Shoot(i) \/ EnableAuto(i) PROVE use.pass.at = "idle"
  <2>1. h' = [h EXCEPT !.mixed = @ \/ ~At("pass", "idle"), !.late = @ \/ ~At("pass", "idle")]
    BY <1>4 DEF Open, Shoot, EnableAuto
  <2>2. h'.late <=> h.late \/ ~At("pass", "idle")
    BY <1>1, <2>1 DEF HistoryFields
  <2> QED BY <2>2 DEF Tidy, At
<1>5. ASSUME PassTakes PROVE use.conn.at = "idle"
  <2> DEFINE m == h.mixed \/ use.conn.at \in {"list", "weapon", "spend", "charge", "consume", "roll", "grant"}
  <2>1. h' = [h EXCEPT !.late = @ \/ ~At("conn", "idle"), !.mixed = m]
    <3>1. h' = [h EXCEPT !.late = @ \/ ~At("conn", "idle"),
                         !.mixed = @ \/ use.conn.at \in {"list", "weapon", "spend", "charge", "consume", "roll", "grant"}]
      BY <1>5 DEF PassTakes
    <3> QED BY <1>1, <3>1 DEF HistoryFields
  <2> HIDE DEF m
  <2>2. h'.late <=> h.late \/ ~At("conn", "idle")
    BY <1>1, <2>1 DEF HistoryFields
  <2> QED BY <2>2 DEF Tidy, At
<1> QED BY <1>2, <1>3, <1>4, <1>5

\* What the recharge may have changed by now.
LEMMA PassHolds ==
  ASSUME Typed
  PROVE  /\ use.pass.at = "idle" \/ use.pass.at \in {"list", "weapon", "spend", "charge", "report"}
         /\ use.pass.at \in {"weapon", "spend", "charge"} => use.pass.item \in SoulShots
         /\ SoulShots \subseteq Items
BY DEF Typed, Actors, Holds, PassSteps, SoulShots

\* The connection reads.
LEMMA SeenReads ==
  ASSUME Typed, Typed', Seen, rows' = rows, shown' = shown, use'.pass = use.pass, Untold(use'.conn),
         use'.conn.changed = use.conn.changed \/ (DOMAIN use'.conn.changed = {} /\ DOMAIN use.conn.changed = {}),
         Tidy' => /\ Tidy /\ Current(rows, use'.conn)
                  /\ use'.conn.at # "idle" /\ use.pass.at # "idle" => Apart(use'.conn)
  PROVE  Seen'
<1>1. ASSUME Tidy', NEW i \in Items PROVE rows'[i] = Known(i)'
  <2>1. rows[i] = Known(i)
    BY <1>1 DEF Seen, Tidy
  <2> QED BY <2>1 DEF Known
<1>2. ASSUME Tidy' PROVE \A p \in Actors : Current(rows', use'[p])
  BY <1>2 DEF Seen, Actors, Tidy
<1>3. \A p \in Actors : Untold(use'[p])
  BY DEF Seen, Actors
<1> QED BY <1>1, <1>2, <1>3 DEF Seen, Tidy, Apart, Current, Untold

\* The connection writes a row.
LEMMA SeenWrites ==
  ASSUME Typed, Typed', Seen, shown' = shown, use'.pass = use.pass, use.conn.changed \in Changes,
         NEW x \in Items, NEW r, use'.conn.changed = Over([j \in {x} |-> r], use.conn.changed),
         use'.conn.at \in {"roll", "show", "charge", "result", "report"},
         Tidy' => /\ Tidy /\ rows' = [rows EXCEPT ![x] = r]
                  /\ use.pass.at # "idle" => x \notin SoulShots /\ Apart(use'.conn)
  PROVE  Seen'
<1>1. /\ DOMAIN use'.conn.changed = {x} \union DOMAIN use.conn.changed /\ use'.conn.changed[x] = r
      /\ \A j \in DOMAIN use.conn.changed \ {x} : use'.conn.changed[j] = use.conn.changed[j]
  BY DEF Over
<1>2. ASSUME Tidy', NEW i \in Items PROVE rows'[i] = Known(i)'
  <2>1. rows[i] = Known(i) /\ rows'[i] = IF i = x THEN r ELSE rows[i]
    BY <1>2 DEF Seen, Tidy, Typed, ItemsTypeOK
  <2>2. CASE i = x
    BY <1>1, <2>1, <2>2 DEF Known
  <2>3. CASE i # x
    BY <1>1, <2>1, <2>3 DEF Known
  <2> QED BY <2>2, <2>3
<1>3. ASSUME Tidy' PROVE \A p \in Actors : Current(rows', use'[p])
  <2>1. Current(rows', use'.conn)
    BY DEF Current
  <2>2. Current(rows, use.pass)
    BY <1>3 DEF Seen, Tidy, Actors
  <2>3. use.pass.at \in {"weapon", "spend"} => rows'[use.pass.item] = rows[use.pass.item]
    BY <1>3, PassHolds DEF Typed, ItemsTypeOK
  <2>4. Current(rows', use.pass)
    BY <2>2, <2>3, PassHolds DEF Current
  <2> QED BY <2>1, <2>4 DEF Actors
<1>4. \A p \in Actors : Untold(use'[p])
  BY DEF Seen, Actors, Untold
<1> QED BY <1>2, <1>3, <1>4 DEF Seen, Tidy, Apart, Current, Untold

\* The connection is done and tells.
LEMMA SeenTold ==
  ASSUME Typed, Typed', Seen, rows' = rows, shown' = Told(use.conn), use'.conn = Idle, use'.pass = use.pass,
         use.conn.at # "idle", Tidy' => Tidy
  PROVE  Seen'
<1>1. DOMAIN use'.conn.changed = {} /\ use'.conn.at = "idle"
  BY Idling
<1>2. ASSUME Tidy', NEW i \in Items PROVE rows'[i] = Known(i)'
  <2>1. rows[i] = Known(i) /\ DOMAIN use.pass.changed \subseteq SoulShots /\ Untold(use.pass)
    BY <1>2 DEF Seen, Tidy, Actors
  <2>2. DOMAIN use.conn.changed \intersect DOMAIN use.pass.changed = {}
    <3>1. CASE use.pass.at = "idle"
      BY <2>1, <3>1 DEF Untold
    <3>2. CASE use.pass.at # "idle"
      BY <1>2, <2>1, <3>2 DEF Seen, Tidy, Apart
    <3> QED BY <3>1, <3>2
  <2>3. shown'[i] = IF i \in DOMAIN use.conn.changed THEN use.conn.changed[i] ELSE shown[i]
    BY DEF Told, Over, Typed, ItemsTypeOK
  <2> QED BY <1>1, <2>1, <2>2, <2>3 DEF Known
<1>3. ASSUME Tidy' PROVE \A p \in Actors : Current(rows', use'[p])
  <2>1. Current(rows', use'.conn)
    BY <1>1 DEF Current
  <2> QED BY <1>3, <2>1 DEF Seen, Tidy, Actors
<1>4. \A p \in Actors : Untold(use'[p])
  BY <1>1 DEF Seen, Actors, Untold
<1> QED BY <1>1, <1>2, <1>3, <1>4 DEF Seen, Tidy, Apart, Current, Untold

\* Nothing of it changes.
LEMMA SeenSame ==
  ASSUME Typed, Typed', Seen, UNCHANGED <<rows, shown, use>>, Tidy' => Tidy
  PROVE  Seen'
<1>1. ASSUME NEW i PROVE Known(i)' = Known(i)
  BY DEF Known
<1> QED BY <1>1 DEF Seen, Tidy, Apart, Current, Untold

\* The recharge reads.
LEMMA SeenPassReads ==
  ASSUME Typed, Typed', Seen, rows' = rows, shown' = shown, use'.conn = use.conn, Untold(use'.pass),
         use'.pass.changed = use.pass.changed \/ (DOMAIN use'.pass.changed = {} /\ DOMAIN use.pass.changed = {}),
         Tidy' => /\ Tidy /\ Current(rows, use'.pass)
                  /\ use.pass.at # "idle" \/ use.conn.at = "idle"
  PROVE  Seen'
<1>1. ASSUME Tidy', NEW i \in Items PROVE rows'[i] = Known(i)'
  <2>1. rows[i] = Known(i)
    BY <1>1 DEF Seen, Tidy
  <2> QED BY <2>1 DEF Known
<1>2. ASSUME Tidy' PROVE \A p \in Actors : Current(rows', use'[p])
  BY <1>2 DEF Seen, Actors, Tidy
<1>3. \A p \in Actors : Untold(use'[p])
  BY DEF Seen, Actors
<1>4. DOMAIN use'.pass.changed \subseteq SoulShots
  BY DEF Seen
<1> QED BY <1>1, <1>2, <1>3, <1>4 DEF Seen, Tidy, Apart, Current, Untold

\* The recharge pays.
LEMMA SeenPassWrites ==
  ASSUME Typed, Typed', Seen, ShotSpend("pass"), Tidy' => Tidy
  PROVE  Seen'
<1> DEFINE c == use.pass
           d == use'.pass
           r == Less(c.copy, T[c.other].shots)
<1>1. /\ c.item \in SoulShots /\ c.item \in Items /\ Stock(c.copy) /\ c.changed \in Changes
      /\ use'.conn = use.conn /\ c.at = "spend" /\ rows' = Update(c.item, r)
      /\ r = Gone \/ Stock(r)
      /\ d.at = "charge" /\ d.item = c.item /\ d.copy = c.copy
      /\ d.changed = Over([j \in {c.item} |-> r], c.changed) /\ d.auto = c.auto
  BY ShotMoves DEF Actors, ShotSpend, ShotWeapon, ShotCharge, At, SoulShots
<1>2. shown' = shown
  BY DEF ShotSpend
<1> HIDE DEF r
<1>3. DOMAIN c.changed = {}
  BY <1>1 DEF Seen, Untold, Actors
<1>4. DOMAIN d.changed = {c.item} /\ d.changed[c.item] = r
  <2>1. d.changed = Over([j \in {c.item} |-> r], c.changed)
    BY <1>1
  <2> QED BY <1>3, <2>1 DEF Over
<1>5. ASSUME Tidy'
      PROVE /\ rows' = [rows EXCEPT ![c.item] = r]
            /\ use.conn.at # "idle" => Apart(use.conn)
            /\ DOMAIN use.conn.changed \intersect SoulShots = {}
  <2>1. rows[c.item] = c.copy
    BY <1>1, <1>5 DEF Seen, Tidy, Current, Actors
  <2>2. Live(c.item)
    BY <1>1, <2>1 DEF Live, Stock, Gone, Unborn
  <2>3. use.conn.at # "idle" => Apart(use.conn)
    BY <1>1, <1>5 DEF Seen, Tidy
  <2>4. DOMAIN use.conn.changed \intersect SoulShots = {}
    <3>1. CASE use.conn.at = "idle"
      BY <3>1 DEF Seen, Untold, Actors
    <3> QED BY <2>3, <3>1 DEF Apart
  <2> QED BY <1>1, <2>2, <2>3, <2>4 DEF Update
<1>6. ASSUME Tidy', NEW i \in Items PROVE rows'[i] = Known(i)'
  <2>1. rows[i] = Known(i) /\ rows'[i] = IF i = c.item THEN r ELSE rows[i]
    BY <1>1, <1>5, <1>6 DEF Seen, Tidy, Typed, ItemsTypeOK
  <2>2. CASE i = c.item
    BY <1>1, <1>4, <1>5, <1>6, <2>1, <2>2 DEF Known
  <2>3. CASE i # c.item
    BY <1>1, <1>2, <1>3, <1>4, <2>1, <2>3 DEF Known
  <2> QED BY <2>2, <2>3
<1>7. ASSUME Tidy' PROVE \A p \in Actors : Current(rows', use'[p])
  <2>1. Current(rows', use'.pass)
    BY <1>1 DEF Current
  <2>2. Current(rows, use.conn) /\ Holds(use.conn)
    BY <1>7 DEF Seen, Tidy, Actors, Typed
  <2>3. \A i \in Items : i \notin SoulShots => rows'[i] = rows[i]
    BY <1>1, <1>5, <1>7 DEF Typed, ItemsTypeOK
  <2>4. use.conn.at \in {"register", "consume", "pay", "equip"} => use.conn.item \in Items /\ use.conn.item \notin SoulShots
    BY <1>5, <1>7, <2>2, KindsApart DEF Holds, Donning, SoulShots
  <2>5. use.conn.at = "clear" /\ use.conn.item # None => use.conn.item \in Items /\ use.conn.item \notin SoulShots
    BY <2>2, KindsApart DEF Holds, Donning
  <2>6. use.conn.at \notin {"weapon", "spend", "grant"}
    BY <1>5, <1>7 DEF Apart
  <2>7. Current(rows', use.conn)
    BY <2>2, <2>3, <2>4, <2>5, <2>6 DEF Current
  <2> QED BY <1>1, <2>1, <2>7 DEF Actors
<1>8. \A p \in Actors : Untold(use'[p])
  BY <1>1 DEF Seen, Actors, Untold
<1>9. DOMAIN use'.pass.changed \subseteq SoulShots
  BY <1>1, <1>4
<1>10. Tidy' /\ use'.conn.at # "idle" /\ use'.pass.at # "idle" => Apart(use'.conn)
  BY <1>1, <1>5
<1> QED BY <1>6, <1>7, <1>8, <1>9, <1>10 DEF Seen, Tidy, Apart, Current, Untold

\* The recharge tells.
LEMMA SeenPassTold ==
  ASSUME Typed, Typed', Seen, Report("pass"), Tidy' => Tidy
  PROVE  Seen'
<1>1. /\ rows' = rows /\ shown' = Told(use.pass) /\ use'.conn = use.conn /\ use'.pass = Idle
  BY DEF Report, Go, Typed, Actors
<1>2. DOMAIN use'.pass.changed = {} /\ use'.pass.at = "idle"
  BY <1>1, Idling
<1>3. ASSUME Tidy', NEW i \in Items PROVE rows'[i] = Known(i)'
  <2>1. rows[i] = Known(i)
    BY <1>3 DEF Seen, Tidy
  <2>2. shown'[i] = IF i \in DOMAIN use.pass.changed THEN use.pass.changed[i] ELSE shown[i]
    BY <1>1 DEF Told, Over, Typed, ItemsTypeOK
  <2> QED BY <1>1, <1>2, <2>1, <2>2 DEF Known
<1>4. ASSUME Tidy' PROVE \A p \in Actors : Current(rows', use'[p])
  <2>1. Current(rows', use'.pass)
    BY <1>2 DEF Current
  <2> QED BY <1>1, <1>4, <2>1 DEF Seen, Tidy, Actors
<1>5. \A p \in Actors : Untold(use'[p])
  BY <1>1, <1>2 DEF Seen, Actors, Untold
<1> QED BY <1>2, <1>3, <1>4, <1>5 DEF Seen, Tidy, Apart, Current, Untold

\* Something failed: what was sent does not matter any more.
LEMMA SeenLost ==
  ASSUME Typed, Typed', Seen, ~Tidy', \A p \in Actors : use'[p] = use[p] \/ use'[p] = Idle
  PROVE  Seen'
<1>1. \A p \in Actors : Untold(use'[p])
  BY Idling DEF Seen, Untold
<1>2. DOMAIN use'.pass.changed \subseteq SoulShots
  BY Idling DEF Seen, Actors
<1> QED BY <1>1, <1>2 DEF Seen, Tidy, Apart, Current, Untold

\* The connection strips a slot.
LEMMA SeenStrips ==
  ASSUME Typed, Typed', Seen, ClearSlot, Tidy' => Tidy
  PROVE  Seen'
<1> DEFINE c == use.conn
           d == use'.conn
           s == Head(c.todo)
           off == In(rows, s)
<1>1. /\ c.at = "clear" /\ s \in Slots
      /\ \A i \in Items :
           /\ rows[i].slot = s => rows'[i] = [rows[i] EXCEPT !.slot = "bag"]
           /\ rows[i].slot # s => rows'[i] = rows[i]
  BY Clearing
<1>2. /\ d.item = c.item /\ d.copy = c.copy /\ d.at \in {"clear", "show", "equip"}
      /\ d.changed = Over([i \in off |-> [rows[i] EXCEPT !.slot = "bag"]], c.changed)
      /\ use'.pass = use.pass /\ shown' = shown
  <2>1. PICK u \in Use :
          /\ Go("conn", u) /\ u.item = c.item /\ u.copy = c.copy /\ u.at \in {"clear", "show", "equip"}
          /\ u.changed = Over([i \in off |-> [rows[i] EXCEPT !.slot = "bag"]], c.changed)
    BY Clearing
  <2>2. d = u /\ use'.pass = use.pass
    BY <2>1 DEF Go, Typed, Actors
  <2> QED BY <2>1, <2>2 DEF ClearSlot
<1>3. off \subseteq Items /\ off \intersect SoulShots = {}
  BY <1>1, KindsApart DEF In, Typed, Placed
<1>4. /\ DOMAIN d.changed = off \union DOMAIN c.changed
      /\ \A i \in off : d.changed[i] = [rows[i] EXCEPT !.slot = "bag"]
      /\ \A i \in DOMAIN c.changed \ off : d.changed[i] = c.changed[i]
  BY <1>2 DEF Over
<1>5. \A i \in Items : /\ i \in off => rows'[i] = [rows[i] EXCEPT !.slot = "bag"]
                       /\ i \notin off => rows'[i] = rows[i]
  BY <1>1 DEF In
<1> HIDE DEF off, s
<1>6. ASSUME Tidy', NEW i \in Items PROVE rows'[i] = Known(i)'
  <2>1. rows[i] = Known(i) /\ DOMAIN use.pass.changed \subseteq SoulShots
    BY <1>6 DEF Seen, Tidy
  <2>2. CASE i \in off
    BY <1>4, <1>5, <2>2 DEF Known
  <2>3. CASE i \notin off
    BY <1>2, <1>4, <1>5, <2>1, <2>3 DEF Known
  <2> QED BY <2>2, <2>3
<1>7. ASSUME Tidy' PROVE \A p \in Actors : Current(rows', use'[p])
  <2>1. Current(rows', use'.pass)
    <3>1. use.pass.at \in {"weapon", "spend"} => rows'[use.pass.item] = rows[use.pass.item]
      BY <1>3, <1>5, PassHolds
    <3>2. Current(rows, use.pass)
      BY <1>7 DEF Seen, Tidy, Actors
    <3> QED BY <1>2, <3>1, <3>2, PassHolds DEF Current
  <2>2. Current(rows', d)
    <3>1. c.item # None => c.item \in Items /\ Stock(c.copy) /\ rows[c.item] = c.copy
      BY <1>1, <1>7 DEF Seen, Tidy, Actors, Typed, Holds, Donning, Current
    <3>2. c.item # None => rows'[c.item] = c.copy
      <4>1. c.item # None => rows[c.item].slot = "bag"
        BY <3>1 DEF Stock
      <4> QED BY <1>1, <3>1, <4>1 DEF Slots
    <3>3. d.at = "equip" => c.item # None
      <4>1. Holds(d)
        BY DEF Typed, Actors
      <4> QED BY <1>2, <4>1, ItemsAssumption DEF Holds, Donning
    <3> QED BY <1>2, <3>2, <3>3 DEF Current
  <2> QED BY <2>1, <2>2 DEF Actors
<1>8. \A p \in Actors : Untold(use'[p])
  BY <1>2 DEF Seen, Actors, Untold
<1>9. Tidy' /\ use'.conn.at # "idle" /\ use'.pass.at # "idle" => Apart(use'.conn)
  BY <1>1, <1>2, <1>3, <1>4 DEF Seen, Tidy, Apart
<1>10. DOMAIN use'.pass.changed \subseteq SoulShots
  BY <1>2 DEF Seen
<1> QED BY <1>6, <1>7, <1>8, <1>9, <1>10 DEF Seen, Tidy, Apart, Current, Untold

\* What a write finds: the row is the copy, so the statement writes it.
LEMMA Finding ==
  ASSUME NEW i \in Items, NEW r, Stock(rows[i])
  PROVE  Update(i, r) = [rows EXCEPT ![i] = r]
BY DEF Update, Live, Stock, Gone, Unborn

\* The connection's single-row writes.
LEMMA SeenSpends ==
  ASSUME Typed, Typed', Seen, Paying, Tidy' => Tidy,
         ConsumeOne \/ GiveReward \/ ConsumeScroll \/ EnchantResult \/ EquipItem
  PROVE  Seen'
<1> DEFINE c == use.conn
           d == use'.conn
<1>1. shown' = shown
  BY DEF ConsumeOne, GiveReward, ConsumeScroll, EnchantResult, EquipItem
<1>2. Tidy' => Current(rows, c) /\ (use.pass.at # "idle" /\ c.at # "idle" => Apart(c))
  BY DEF Seen, Tidy, Actors
<1>3. CASE ConsumeOne
  <2> DEFINE r == Less(c.copy, 1)
  <2>1. /\ c.at = "consume" /\ c.item \in Items /\ Stock(c.copy) /\ c.changed \in Changes
        /\ rows' = Update(c.item, r) /\ use'.pass = use.pass
        /\ d.at = IF T[c.item].handler = "ExtractableItems" THEN "roll" ELSE "show"
        /\ d.changed = Over([j \in {c.item} |-> r], c.changed)
    BY <1>3, ConsumeMoves
  <2> HIDE DEF r
  <2>2. c.item \notin SoulShots
    BY <2>1 DEF Typed, Holds, Actors, SoulShots
  <2>3. DOMAIN d.changed = {c.item} \union DOMAIN c.changed
    BY <2>1 DEF Over
  <2>4. ASSUME Tidy' PROVE /\ rows' = [rows EXCEPT ![c.item] = r]
                           /\ use.pass.at # "idle" => Apart(d)
    <3>1. rows[c.item] = c.copy
      BY <1>2, <2>1, <2>4 DEF Current
    <3>2. use.pass.at # "idle" => Apart(d)
      BY <1>2, <2>1, <2>2, <2>3, <2>4 DEF Apart
    <3> QED BY <2>1, <3>1, <3>2, Finding
  <2>5. d.at \in {"roll", "show"}
    BY <2>1
  <2> QED BY <1>1, <2>1, <2>2, <2>4, <2>5, SeenWrites
<1>4. CASE GiveReward
  <2>1. /\ c.at = "grant" /\ c.changed \in Changes /\ use'.pass = use.pass /\ d.at = "show"
    BY <1>4, RewardMoves
  <2>2. PICK j \in Items, r \in Row :
          /\ d.changed = Over([k \in {j} |-> r], c.changed)
          /\ \/ rows' = Update(j, r) /\ j = c.todo[2]
             \/ rows' = [rows EXCEPT ![j] = r]
    BY <1>4, RewardMoves
  <2>3. ASSUME Tidy' PROVE rows' = [rows EXCEPT ![j] = r] /\ use.pass.at = "idle"
    <3>1. use.pass.at = "idle"
      BY <1>2, <2>1, <2>3 DEF Apart
    <3>2. CASE rows' = Update(j, r) /\ j = c.todo[2]
      <4>1. j # None /\ Holds(c)
        BY ItemsAssumption DEF Typed, Actors
      <4>2. rows[j] = c.ocopy /\ Stock(c.ocopy)
        BY <1>2, <2>1, <2>3, <3>2, <4>1 DEF Current, Holds
      <4> QED BY <3>1, <3>2, <4>2, Finding
    <3> QED BY <2>2, <3>1, <3>2
  <2> QED BY <1>1, <2>1, <2>2, <2>3, SeenWrites
<1>5. CASE ConsumeScroll
  <2> DEFINE r == Less(c.copy, 1)
  <2>1. /\ c.at = "pay" /\ c.item \in Scrolls /\ Stock(c.copy) /\ c.changed \in Changes
        /\ rows' = Update(c.item, r) /\ use'.pass = use.pass /\ d.at = "result"
        /\ d.changed = Over([j \in {c.item} |-> r], c.changed)
    BY <1>5, PayMoves
  <2> HIDE DEF r
  <2>2. c.item \in Items /\ c.item \notin SoulShots
    BY <2>1, KindsApart DEF SoulShots
  <2>3. DOMAIN d.changed = {c.item} \union DOMAIN c.changed
    BY <2>1 DEF Over
  <2>4. ASSUME Tidy' PROVE /\ rows' = [rows EXCEPT ![c.item] = r]
                           /\ use.pass.at # "idle" => Apart(d)
    <3>1. rows[c.item] = c.copy
      BY <1>2, <2>1, <2>4 DEF Current
    <3>2. use.pass.at # "idle" => Apart(d)
      BY <1>2, <2>1, <2>2, <2>3, <2>4 DEF Apart
    <3> QED BY <2>1, <2>2, <3>1, <3>2, Finding
  <2> QED BY <1>1, <2>1, <2>2, <2>4, SeenWrites
<1>6. CASE EnchantResult
  <2> DEFINE r == c.ocopy
  <2>1. /\ c.at = "result" /\ c.changed \in Changes
        /\ c.other \in Items /\ T[c.other].type # "EtcItem"
        /\ rows' = Update(c.other, r) /\ use'.pass = use.pass
        /\ d.at = "report" /\ d.changed = Over([j \in {c.other} |-> r], c.changed)
    BY <1>6, ResultMoves
  <2> HIDE DEF r
  <2>2. c.other \notin SoulShots
    BY <2>1, KindsApart
  <2>3. DOMAIN d.changed = {c.other} \union DOMAIN c.changed
    BY <2>1 DEF Over
  <2>4. rows' = [rows EXCEPT ![c.other] = r]
    <3>1. Live(c.other)
      BY <2>1 DEF Paying, AttemptsArePaid
    <3> QED BY <2>1, <3>1 DEF Update
  <2>5. Tidy' /\ use.pass.at # "idle" => Apart(d)
    BY <1>2, <2>1, <2>2, <2>3 DEF Apart
  <2> QED BY <1>1, <2>1, <2>2, <2>4, <2>5, SeenWrites
<1>7. CASE EquipItem
  <2> DEFINE worn == [c.copy EXCEPT !.slot = c.other]
  <2>1. /\ c.at = "equip" /\ Donning(c, c.other) /\ c.changed \in Changes
        /\ rows' = IF Live(c.item) THEN [rows EXCEPT ![c.item].slot = c.other] ELSE rows
        /\ use'.pass = use.pass /\ d.at = "show"
        /\ d.changed = Over([j \in {c.item} |-> worn], c.changed)
    BY <1>7, EquipMoves
  <2>2. c.item \in Items /\ c.item \notin SoulShots /\ Stock(c.copy)
    BY <2>1, KindsApart DEF Donning
  <2>3. DOMAIN d.changed = {c.item} \union DOMAIN c.changed
    <3> HIDE DEF worn
    <3> QED BY <2>1 DEF Over
  <2>4. ASSUME Tidy' PROVE /\ rows' = [rows EXCEPT ![c.item] = worn]
                           /\ use.pass.at # "idle" => Apart(d)
    <3>1. rows[c.item] = c.copy
      BY <1>2, <2>1, <2>4 DEF Current
    <3>2. use.pass.at # "idle" => Apart(d)
      BY <1>2, <2>1, <2>2, <2>3, <2>4 DEF Apart
    <3>3. Live(c.item)
      BY <2>2, <3>1 DEF Live, Stock, Gone, Unborn
    <3> QED BY <2>1, <2>2, <3>1, <3>2, <3>3
  <2> HIDE DEF worn
  <2> QED BY <1>1, <2>1, <2>2, <2>4, SeenWrites
<1> QED BY <1>3, <1>4, <1>5, <1>6, <1>7

LEMMA SeenSteps ==
  ASSUME Typed, Typed', Paying, Seen, [ItemsNext]_vars
  PROVE  Seen'
<1> DEFINE c == use.conn
           d == use'.conn
<1>1. Tidy' => Tidy /\ ~ShowUnread /\ \A p \in Actors : ~StatementFails(p)
  BY Tidying
<1>2. Tidy' => /\ (\E i \in Items : Open(i) \/ Shoot(i)) \/ (\E i : EnableAuto(i)) => use.pass.at = "idle"
               /\ PassTakes => c.at = "idle"
  BY Tidying
<1>3. /\ c.at \in {"idle", "list", "weapon", "spend", "register", "consume", "pay"} => DOMAIN c.changed = {}
      /\ use.pass.at \in {"idle", "list", "weapon", "spend"} => DOMAIN use.pass.changed = {}
  BY DEF Seen, Untold, Actors
<1>4. Tidy' => /\ Current(rows, c) /\ Current(rows, use.pass)
               /\ use.pass.at # "idle" /\ c.at # "idle" => Apart(c)
  BY <1>1 DEF Seen, Tidy, Actors
<1>5. Tidy' => (c.at \in {"weapon", "spend", "charge", "list", "roll", "grant"} => use.pass.at = "idle")
  BY <1>4 DEF Apart
<1>6. ASSUME NEW i \in Items, PutOn(i) \/ TakeOff(i) PROVE Seen'
  <2>1. /\ use'.pass = use.pass /\ c.at = "idle" /\ d.at = "clear" /\ DOMAIN d.changed = {}
        /\ rows' = rows /\ shown' = shown
        /\ (d.item = i /\ d.copy = rows[i]) \/ d.item = None
    BY <1>6, DressMoves DEF PutOn, TakeOff
  <2>2. Untold(d) /\ Current(rows, d) /\ Apart(d)
    BY <2>1 DEF Untold, Current, Apart
  <2> QED BY <1>1, <1>3, <2>1, <2>2, SeenReads
<1>7. ASSUME NEW i \in Items, ArmScroll(i) \/ PutTarget(i) \/ EnchantItem(i) PROVE Seen'
  <2>1. rows' = rows /\ shown' = shown
    BY <1>7 DEF ArmScroll, PutTarget, EnchantItem
  <2>2. CASE UNCHANGED use
    BY <1>1, <2>1, <2>2, SeenSame
  <2>3. CASE EnchantItem(i) /\ Live(arm) /\ Live(i) /\ Fits(arm, i, rows[i].level)
    <3>1. PICK u \in Use :
            Go("conn", u) /\ u.at = "pay" /\ u.item = arm /\ u.copy = rows[arm] /\ DOMAIN u.changed = {}
      BY <2>3, Enchanting
    <3>2. d = u /\ use'.pass = use.pass
      BY <3>1 DEF Go, Typed, Actors
    <3>3. Untold(d) /\ Current(rows, d) /\ Apart(d)
      BY <3>1, <3>2 DEF Untold, Current, Apart
    <3>4. c.at = "idle"
      BY <2>3 DEF EnchantItem, At
    <3> QED BY <1>1, <1>3, <2>1, <3>1, <3>2, <3>3, <3>4, SeenReads
  <2> QED BY <1>7, <2>2, <2>3 DEF ArmScroll, PutTarget, EnchantItem
<1>8. ASSUME NEW i \in Items,
             Open(i) \/ Register(i) \/ Shoot(i) \/ (\E inCombat \in BOOLEAN : Drink(i, inCombat))
      PROVE  Seen'
  <2>1. /\ rows' = rows /\ use'.pass = use.pass /\ c.at = "idle"
        /\ d.item = i /\ d.copy = rows[i] /\ DOMAIN d.changed = {}
        /\ d.at \in {"consume", "register", "weapon"} /\ (d.at = "weapon" => i \in SoulShots)
    BY <1>8, TakeMoves
  <2>2. shown' = shown
    BY <1>8 DEF Open, Register, Shoot, Drink
  <2>3. Untold(d) /\ Current(rows, d) /\ DOMAIN c.changed = {}
    BY <1>3, <2>1 DEF Untold, Current
  <2>4. CASE Open(i) \/ Shoot(i)
    <3>1. Tidy' => use.pass.at = "idle"
      BY <1>2, <2>4
    <3> QED BY <1>1, <2>1, <2>2, <2>3, <3>1, SeenReads
  <2>5. CASE Register(i) \/ \E inCombat \in BOOLEAN : Drink(i, inCombat)
    <3>1. T[i].handler \in {"Recipes", "ItemSkills"}
      BY <2>5 DEF Register, Drink, Handled
    <3>2. Apart(d)
      BY <2>1, <3>1 DEF Apart, SoulShots
    <3> QED BY <1>1, <2>1, <2>2, <2>3, <3>2, SeenReads
  <2> QED BY <1>8, <2>4, <2>5
<1>9. CASE AddRecipe
  <2>1. /\ c.at = "register" /\ c.item \in Items /\ T[c.item].handler = "Recipes"
        /\ rows' = rows /\ use'.pass = use.pass
        /\ d.at = "consume" /\ d.item = c.item /\ d.copy = c.copy /\ d.changed = c.changed
    BY <1>9, RecipeMoves
  <2>2. shown' = shown
    BY <1>9 DEF AddRecipe
  <2>3. Untold(d) /\ Apart(d)
    BY <1>3, <2>1 DEF Untold, Apart
  <2>4. Tidy' => Current(rows, d)
    BY <1>4, <2>1 DEF Current
  <2> QED BY <1>1, <2>1, <2>2, <2>3, <2>4, SeenReads
<1>10. ASSUME NEW n \in Nat, Roll(n) PROVE Seen'
  <2>1. /\ c.at = "roll" /\ rows' = rows /\ use'.pass = use.pass
        /\ d.at \in {"show", "grant"} /\ d.changed = c.changed
        /\ d.todo[2] # None => d.ocopy = rows[d.todo[2]]
    BY <1>10, RollMoves
  <2>2. shown' = shown
    BY <1>10 DEF Roll
  <2>3. Untold(d) /\ Current(rows, d)
    BY <2>1 DEF Untold, Current
  <2> QED BY <1>1, <1>5, <2>1, <2>2, <2>3, SeenReads
<1>11. CASE ConsumeOne \/ GiveReward \/ ConsumeScroll \/ EnchantResult \/ EquipItem
  BY <1>1, <1>11, SeenSpends
<1>12. CASE ClearSlot
  BY <1>1, <1>12, SeenStrips
<1>13. CASE Show \/ Report("conn")
  <2>1. rows' = rows /\ shown' = Told(c) /\ c.at # "idle" /\ d = Idle /\ use'.pass = use.pass
    BY <1>13 DEF Show, Report, Go, At, Typed, Actors
  <2> QED BY <1>1, <2>1, SeenTold
<1>14. CASE ShotWeapon("conn") \/ ShotSpend("conn") \/ ShotCharge("conn")
  <2> DEFINE r == Less(c.copy, T[c.other].shots)
  <2>1. shown' = shown
    BY <1>14 DEF ShotWeapon, ShotSpend, ShotCharge
  <2>2. /\ c.item \in SoulShots /\ Stock(c.copy) /\ c.changed \in Changes /\ use'.pass = use.pass
        /\ \/ c.at = "weapon" /\ d = Idle /\ rows' = rows
           \/ /\ c.at = "weapon" /\ rows' = rows
              /\ d.at = "spend" /\ d.item = c.item /\ d.copy = c.copy /\ d.changed = c.changed
           \/ /\ c.at = "spend" /\ rows' = Update(c.item, r) /\ d.at = "charge"
              /\ d.changed = Over([j \in {c.item} |-> r], c.changed)
           \/ c.at = "charge" /\ rows' = rows /\ d.at \in {"report", "show"} /\ d.changed = c.changed
    BY <1>14, ShotMoves DEF Actors
  <2> HIDE DEF r
  <2>3. CASE c.at = "weapon" /\ d = Idle /\ rows' = rows
    <3>1. Untold(d) /\ Current(rows, d) /\ DOMAIN d.changed = {} /\ DOMAIN c.changed = {}
      BY <1>3, <2>3, Idling DEF Untold, Current
    <3> QED BY <1>1, <1>5, <2>1, <2>2, <2>3, <3>1, SeenReads
  <2>4. CASE /\ c.at = "weapon" /\ rows' = rows
             /\ d.at = "spend" /\ d.item = c.item /\ d.copy = c.copy /\ d.changed = c.changed
    <3>1. Untold(d)
      BY <1>3, <2>4 DEF Untold
    <3>2. Tidy' => Current(rows, d)
      BY <1>4, <2>4 DEF Current
    <3> QED BY <1>1, <1>5, <2>1, <2>2, <2>4, <3>1, <3>2, SeenReads
  <2>5. CASE /\ c.at = "spend" /\ rows' = Update(c.item, r) /\ d.at = "charge"
             /\ d.changed = Over([j \in {c.item} |-> r], c.changed)
    <3>1. c.item \in Items
      BY <2>2, KindsApart
    <3>2. Tidy' => rows[c.item] = c.copy
      BY <1>4, <2>5 DEF Current
    <3>3. Tidy' => rows' = [rows EXCEPT ![c.item] = r]
      BY <2>2, <2>5, <3>1, <3>2, Finding
    <3> QED BY <1>1, <1>5, <2>1, <2>2, <2>5, <3>1, <3>3, SeenWrites
  <2>6. CASE c.at = "charge" /\ rows' = rows /\ d.at \in {"report", "show"} /\ d.changed = c.changed
    <3>1. Untold(d) /\ Current(rows, d)
      BY <2>6 DEF Untold, Current
    <3> QED BY <1>1, <1>5, <2>1, <2>2, <2>6, <3>1, SeenReads
  <2> QED BY <2>2, <2>3, <2>4, <2>5, <2>6
<1>15. CASE (\E i : EnableAuto(i)) \/ Recharge("conn")
  <2>1. rows' = rows /\ shown' = shown
    BY <1>15 DEF EnableAuto, Recharge
  <2>2. /\ use'.pass = use.pass /\ c.at \in {"idle", "list"} /\ DOMAIN d.changed = {}
        /\ \/ d.at \in {"idle", "list"}
           \/ d.at = "weapon" /\ d.copy = rows[d.item]
    <3>1. ASSUME NEW i, EnableAuto(i)
          PROVE  use'.pass = use.pass /\ c.at = "idle" /\ DOMAIN d.changed = {} /\ d.at = "list"
      <4>1. "conn" \in Actors /\ Go("conn", [Idle EXCEPT !.at = "list"]) /\ c.at = "idle"
        BY <3>1 DEF EnableAuto, Actors, At
      <4>2. d.at = "list" /\ DOMAIN d.changed = {} /\ \A q \in Actors \ {"conn"} : use'[q] = use[q]
        BY <4>1, ListMoves
      <4> QED BY <4>1, <4>2 DEF Actors
    <3>2. CASE Recharge("conn")
      <4>1. /\ \A q \in Actors \ {"conn"} : use'[q] = use[q]
            /\ c.at = "list"
            /\ d = Idle \/ (d.at = "weapon" /\ d.copy = rows[d.item] /\ DOMAIN d.changed = {})
        BY <3>2, RechargeMoves DEF Actors
      <4> QED BY <4>1, Idling DEF Actors
    <3> QED BY <1>15, <3>1, <3>2
  <2>3. Untold(d) /\ Current(rows, d) /\ DOMAIN c.changed = {}
    BY <1>3, <2>2 DEF Untold, Current
  <2>4. Tidy' => use.pass.at = "idle"
    BY <1>2, <1>5, <1>15 DEF Recharge, At
  <2> QED BY <1>1, <2>1, <2>2, <2>3, <2>4, SeenReads
<1>16. CASE PassTakes
  <2>1. /\ "pass" \in Actors /\ Go("pass", [Idle EXCEPT !.at = "list"]) /\ use.pass.at = "idle"
        /\ rows' = rows /\ shown' = shown
    BY <1>16 DEF PassTakes, Actors, At
  <2>2. use'.pass.at = "list" /\ DOMAIN use'.pass.changed = {} /\ d = c
    BY <2>1, ListMoves DEF Actors
  <2>3. Untold(use'.pass) /\ Current(rows, use'.pass)
    BY <2>2 DEF Untold, Current
  <2> QED BY <1>1, <1>2, <1>3, <1>16, <2>1, <2>2, <2>3, SeenPassReads
<1>17. CASE Recharge("pass")
  <2>1. /\ rows' = rows /\ shown' = shown /\ d = c /\ use.pass.at = "list"
        /\ \/ use'.pass = Idle
           \/ /\ use'.pass.at = "weapon" /\ use'.pass.copy = rows[use'.pass.item]
              /\ DOMAIN use'.pass.changed = {}
    BY <1>17, RechargeMoves DEF Recharge, Actors
  <2>2. Untold(use'.pass) /\ Current(rows, use'.pass) /\ DOMAIN use'.pass.changed = {}
    BY <2>1, Idling DEF Untold, Current
  <2> QED BY <1>1, <1>3, <2>1, <2>2, SeenPassReads
<1>18. CASE ShotWeapon("pass") \/ ShotCharge("pass")
  <2> DEFINE e == use.pass
             f == use'.pass
  <2>1. shown' = shown
    BY <1>18 DEF ShotWeapon, ShotCharge
  <2>2. /\ d = c /\ rows' = rows
        /\ \/ e.at = "weapon" /\ f = Idle
           \/ e.at = "weapon" /\ f.at = "spend" /\ f.item = e.item /\ f.copy = e.copy /\ f.changed = e.changed
           \/ e.at = "charge" /\ f.at \in {"report", "show"} /\ f.changed = e.changed
    BY <1>18, ShotMoves DEF Actors, ShotWeapon, ShotCharge, ShotSpend, At
  <2>3. CASE e.at = "weapon" /\ f = Idle
    <3>1. Untold(f) /\ Current(rows, f) /\ DOMAIN f.changed = {} /\ DOMAIN e.changed = {}
      BY <1>3, <2>3, Idling DEF Untold, Current
    <3> QED BY <1>1, <2>1, <2>2, <2>3, <3>1, SeenPassReads
  <2>4. CASE e.at = "weapon" /\ f.at = "spend" /\ f.item = e.item /\ f.copy = e.copy /\ f.changed = e.changed
    <3>1. Untold(f)
      BY <1>3, <2>4 DEF Untold
    <3>2. Tidy' => Current(rows, f)
      BY <1>4, <2>4 DEF Current
    <3> QED BY <1>1, <2>1, <2>2, <2>4, <3>1, <3>2, SeenPassReads
  <2>5. CASE e.at = "charge" /\ f.at \in {"report", "show"} /\ f.changed = e.changed
    <3>1. Untold(f) /\ Current(rows, f)
      BY <2>5 DEF Untold, Current
    <3> QED BY <1>1, <2>1, <2>2, <2>5, <3>1, SeenPassReads
  <2> QED BY <2>2, <2>3, <2>4, <2>5
<1>19. CASE ShotSpend("pass") \/ Report("pass")
  BY <1>1, <1>19, SeenPassWrites, SeenPassTold
<1>20. CASE ShowUnread \/ \E p \in Actors : StatementFails(p)
  <2>1. PICK p \in Actors : Go(p, Idle)
    BY <1>20 DEF ShowUnread, StatementFails, Actors
  <2>2. \A q \in Actors : use'[q] = use[q] \/ use'[q] = Idle
    BY <2>1 DEF Go, Typed
  <2> QED BY <1>1, <1>20, <2>2, SeenLost
<1>21. CASE Relog
  <2>1. UNCHANGED <<rows, use>> /\ shown' = rows
    BY <1>21 DEF Relog
  <2>2. ASSUME Tidy', NEW i \in Items PROVE rows'[i] = Known(i)'
    <3>1. rows[i] = Known(i) /\ DOMAIN c.changed = {}
      BY <1>1, <1>3, <1>21, <2>2 DEF Seen, Tidy, Relog, At
    <3> QED BY <2>1, <3>1 DEF Known
  <2>3. /\ DOMAIN use'.pass.changed \subseteq SoulShots /\ \A p \in Actors : Untold(use'[p])
        /\ Tidy' => \A p \in Actors : Current(rows', use'[p])
        /\ Tidy' => (use'.conn.at # "idle" /\ use'.pass.at # "idle" => Apart(use'.conn))
    BY <1>1, <2>1 DEF Seen, Tidy
  <2> QED BY <2>2, <2>3 DEF Seen, Tidy, Apart, Current, Untold
<1>22. CASE Crash
  <2>1. /\ rows' = rows /\ shown' = rows /\ d = Idle /\ use'.pass = Idle
        /\ \A p \in Actors : use'[p] = Idle
    BY <1>22 DEF Crash, Actors
  <2>2. ASSUME NEW i \in Items PROVE rows'[i] = Known(i)'
    BY <2>1, Idling DEF Known
  <2>3. /\ DOMAIN use'.pass.changed \subseteq SoulShots
        /\ \A p \in Actors : Untold(use'[p]) /\ Current(rows', use'[p])
        /\ use'.pass.at = "idle"
    BY <2>1, Idling DEF Untold, Current
  <2> QED BY <2>2, <2>3 DEF Seen, Apart, Current, Untold
<1>23. CASE CancelEnchant \/ (\E i : DisableAuto(i)) \/ Swing \/ HitLands \/ Tick \/ UNCHANGED vars
  <2>1. UNCHANGED <<rows, shown, use>>
    BY <1>23 DEF CancelEnchant, DisableAuto, Swing, HitLands, Tick, vars
  <2> QED BY <1>1, <2>1, SeenSame
<1> QED
  BY <1>6, <1>7, <1>8, <1>9, <1>10, <1>11, <1>12, <1>13, <1>14, <1>15, <1>16, <1>17, <1>18, <1>19, <1>20,
     <1>21, <1>22, <1>23, Steps DEF Actors

LEMMA SeenStart ==
  ASSUME ItemsInit
  PROVE  Seen
<1>1. /\ rows = shown /\ use.conn = Idle /\ use.pass = Idle /\ \A p \in Actors : use[p] = Idle
  BY DEF ItemsInit, Actors
<1> QED BY <1>1, Idling DEF Seen, Known, Untold, Current

---------------------------------------------------------------------------
(* Shots are conserved. *)

LEMMA ShotsType ==
  ASSUME NEW R \in [Items -> Row \union {Gone, Unborn}]
  PROVE  /\ ShotsOf(R) \in Nat /\ IsFiniteSet(SoulShots)
         /\ \A i \in SoulShots : R[i].count \in Nat
<1> DEFINE f == [i \in SoulShots |-> R[i].count]
<1>1. SoulShots \subseteq Items /\ IsFiniteSet(SoulShots)
  BY ItemsAssumption, FS_Subset DEF SoulShots
<1>2. \A i \in SoulShots : R[i].count \in Nat
  BY <1>1 DEF Row, Gone, Unborn
<1>3. \A i \in SoulShots : f[i] \in Nat
  BY <1>2
<1> HIDE DEF f
<1>4. SumFunctionOnSet(f, SoulShots) \in Nat
  BY <1>1, <1>3, SumIsNat
<1> QED BY <1>1, <1>2, <1>4 DEF ShotsOf, f

\* Rows that agree on the shots hold the same number of them.
LEMMA ShotsSame ==
  ASSUME NEW R, NEW Q, \A i \in SoulShots : Q[i] = R[i]
  PROVE  ShotsOf(Q) = ShotsOf(R)
<1>1. [i \in SoulShots |-> Q[i].count] = [i \in SoulShots |-> R[i].count]
  OBVIOUS
<1> QED BY <1>1 DEF ShotsOf

\* Rows that differ in one stack hold what it differs by.
LEMMA ShotsMoved ==
  ASSUME NEW R \in [Items -> Row \union {Gone, Unborn}], NEW Q \in [Items -> Row \union {Gone, Unborn}],
         NEW j \in SoulShots, \A i \in SoulShots \ {j} : Q[i] = R[i]
  PROVE  ShotsOf(Q) = ShotsOf(R) - R[j].count + Q[j].count
<1> DEFINE f == [i \in SoulShots |-> R[i].count]
           e == [i \in SoulShots |-> Q[i].count]
<1>1. /\ IsFiniteSet(SoulShots)
      /\ \A i \in SoulShots : f[i] = R[i].count /\ e[i] = Q[i].count
      /\ \A i \in SoulShots : f[i] \in Nat /\ e[i] \in Nat
  BY ShotsType
<1>2. \A i \in SoulShots \ {j} : f[i] = e[i]
  OBVIOUS
<1> HIDE DEF f, e
<1>3. SumFunctionOnSet(e, SoulShots) = SumFunctionOnSet(f, SoulShots) - f[j] + e[j]
  BY <1>1, <1>2, SumChanges
<1> QED BY <1>1, <1>3 DEF ShotsOf, f, e

LEMMA OwedType ==
  ASSUME NEW u, Holds(u)
  PROVE  Owed(u) \in Nat
BY ItemsAssumption DEF Holds, Owed, Template

\* What the steps write down of the shots that neither charge, give nor lose any.
LEMMA Untallied ==
  ASSUME Typed,
         \/ \E i \in Items : PutOn(i) \/ TakeOff(i)
         \/ \E i \in Items : Open(i) \/ Register(i) \/ Shoot(i) \/ (\E inCombat \in BOOLEAN : Drink(i, inCombat))
         \/ \E i \in Items : ArmScroll(i) \/ PutTarget(i) \/ EnchantItem(i)
         \/ PassTakes \/ (\E p \in Actors : Recharge(p)) \/ (\E i : EnableAuto(i))
         \/ ClearSlot \/ EquipItem
         \/ Show \/ ShowUnread \/ \E p \in Actors : Report(p)
         \/ AddRecipe \/ ConsumeOne \/ \E n \in Nat : Roll(n)
         \/ ConsumeScroll \/ EnchantResult
         \/ \E p \in Actors : ShotWeapon(p) \/ ShotSpend(p)
         \/ CancelEnchant \/ \E i : DisableAuto(i)
         \/ Swing \/ HitLands \/ Tick \/ Relog \/ UNCHANGED vars
         \/ \E p \in Actors : StatementFails(p)
  PROVE  /\ UNCHANGED <<h.start, h.charges, h.lost, h.granted>> /\ (h.mixed => h'.mixed)
         /\ ~h'.mixed =>
              /\ (\E i \in Items : Open(i) \/ Shoot(i)) \/ (\E i : EnableAuto(i)) => use.pass.at = "idle"
              /\ PassTakes => Shotless(use.conn)
<1> DEFINE Same == UNCHANGED <<h.start, h.charges, h.lost, h.granted>>
<1>1. DOMAIN h = HistoryFields
  BY DEF Typed
<1>2. ASSUME NEW i, Open(i) \/ Shoot(i) \/ EnableAuto(i)
      PROVE  Same /\ (h.mixed => h'.mixed) /\ (~h'.mixed => use.pass.at = "idle")
  <2>1. h' = [h EXCEPT !.mixed = @ \/ ~At("pass", "idle"), !.late = @ \/ ~At("pass", "idle")]
    BY <1>2 DEF Open, Shoot, EnableAuto
  <2>2. Same /\ (h'.mixed <=> h.mixed \/ ~At("pass", "idle"))
    BY <1>1, <2>1 DEF HistoryFields
  <2> QED BY <2>2 DEF At
<1>3. ASSUME PassTakes
      PROVE  Same /\ (h.mixed => h'.mixed) /\ (~h'.mixed => Shotless(use.conn))
  <2> DEFINE m == use.conn.at \in {"list", "weapon", "spend", "charge", "consume", "roll", "grant"}
  <2>1. h' = [h EXCEPT !.late = @ \/ ~At("conn", "idle"), !.mixed = @ \/ m]
    BY <1>3 DEF PassTakes
  <2>2. ~m => Shotless(use.conn)
    BY DEF Shotless
  <2> HIDE DEF m
  <2>3. Same /\ (h'.mixed <=> h.mixed \/ m)
    BY <1>1, <2>1 DEF HistoryFields
  <2> QED BY <2>2, <2>3
<1>4. ASSUME h' = h \/ (\E w : h' = [h EXCEPT !.uses = w]) \/ (\E i \in Items : ArmScroll(i))
             \/ ConsumeScroll \/ EnchantResult \/ ShowUnread \/ Relog \/ (\E p \in Actors : StatementFails(p))
      PROVE  Same /\ (h.mixed => h'.mixed)
  <2>1. CASE h' = h
    BY <2>1
  <2>2. CASE \E w : h' = [h EXCEPT !.uses = w]
    BY <1>1, <2>2 DEF HistoryFields
  <2>3. CASE \E i \in Items : ArmScroll(i)
    <3>1. h' = [h EXCEPT !.windows = 1]
      BY <2>3 DEF ArmScroll
    <3> QED BY <1>1, <3>1 DEF HistoryFields
  <2>4. CASE ConsumeScroll
    <3>1. h' = [h EXCEPT !.pays = @ + 1, !.windows = @ - 1]
      BY <2>4 DEF ConsumeScroll
    <3> QED BY <1>1, <3>1 DEF HistoryFields
  <2>5. CASE EnchantResult
    <3>1. h' = [h EXCEPT !.attempts = @ + 1]
      BY <2>5 DEF EnchantResult, Count
    <3> QED BY <1>1, <3>1 DEF HistoryFields
  <2>6. CASE \E p \in Actors : StatementFails(p)
    <3>1. h' = [h EXCEPT !.failures = @ + 1]
      BY <2>6 DEF StatementFails, Count
    <3> QED BY <1>1, <3>1 DEF HistoryFields
  <2>7. CASE Relog
    <3>1. h' = [h EXCEPT !.uses = <<>>]
      BY <2>7 DEF Relog
    <3> QED BY <1>1, <3>1 DEF HistoryFields
  <2>8. CASE ShowUnread
    <3>1. CASE use.conn.other = "used" /\ T[use.conn.item].delay > 0
      <4>1. \E w : h' = [h EXCEPT !.failures = @ + 1, !.uses = w]
        BY <2>8, <3>1 DEF ShowUnread
      <4> QED BY <1>1, <4>1 DEF HistoryFields
    <3>2. CASE ~(use.conn.other = "used" /\ T[use.conn.item].delay > 0)
      <4>1. h' = [h EXCEPT !.failures = @ + 1]
        BY <2>8, <3>2 DEF ShowUnread, Count
      <4> QED BY <1>1, <4>1 DEF HistoryFields
    <3> QED BY <3>1, <3>2
  <2> QED BY <1>4, <2>1, <2>2, <2>3, <2>4, <2>5, <2>6, <2>7, <2>8
<1>5. \/ (\E i : Open(i) \/ Shoot(i) \/ EnableAuto(i)) \/ PassTakes
      \/ h' = h \/ (\E w : h' = [h EXCEPT !.uses = w]) \/ (\E i \in Items : ArmScroll(i))
      \/ ConsumeScroll \/ EnchantResult \/ ShowUnread \/ Relog \/ (\E p \in Actors : StatementFails(p))
  <2>1. Show => h' = h \/ \E w : h' = [h EXCEPT !.uses = w]
    BY DEF Show, Stamped
  <2> QED BY <2>1 DEF PutOn, TakeOff, Register, Drink, PutTarget, EnchantItem, Recharge, ClearSlot, EquipItem,
               Report, AddRecipe, ConsumeOne, Roll, ShotWeapon, ShotSpend, CancelEnchant, DisableAuto,
               Swing, HitLands, Tick, vars
<1> HIDE DEF Same
<1>6. Same /\ (h.mixed => h'.mixed)
  BY <1>2, <1>3, <1>4, <1>5
<1> QED BY <1>2, <1>3, <1>6 DEF Same

\* A step that moves no shots.
LEMMA Undisturbed ==
  ASSUME Balanced, UNCHANGED <<h.start, h.charges, h.lost, h.granted>>, h.mixed => h'.mixed,
         \A i \in SoulShots : rows'[i] = rows[i],
         Owed(use'.conn) = Owed(use.conn), Owed(use'.pass) = Owed(use.pass),
         ~h'.mixed => /\ use'.pass.at # "idle" => Shotless(use'.conn)
                      /\ Exact(rows', use'.conn) /\ Exact(rows', use'.pass)
  PROVE  Balanced'
<1>1. ShotsOf(rows') = ShotsOf(rows)
  BY ShotsSame
<1>2. InFlight' = InFlight
  BY DEF InFlight, Owed
<1>3. \A p \in Actors : p = "conn" \/ p = "pass"
  BY DEF Actors
<1>4. ShotsOf(rows)' = ShotsOf(rows) /\ ShotsOf(h.start)' = ShotsOf(h.start)
  BY <1>1 DEF ShotsOf
<1> QED BY <1>2, <1>3, <1>4 DEF Balanced, Shotless, Exact

\* The connection moves no shots.
LEMMA ConnBalanced ==
  ASSUME Typed, Balanced, UNCHANGED <<h.start, h.charges, h.lost, h.granted>>, h.mixed => h'.mixed,
         \A i \in SoulShots : rows'[i] = rows[i], use'.pass = use.pass,
         use.conn.at # "charge", use'.conn.at # "charge",
         ~h'.mixed => (use.pass.at # "idle" => Shotless(use'.conn)) /\ Exact(rows', use'.conn)
  PROVE  Balanced'
<1>1. Owed(use'.conn) = Owed(use.conn) /\ Owed(use'.pass) = Owed(use.pass)
  BY DEF Owed
<1>2. ASSUME ~h'.mixed PROVE Exact(rows', use.pass)
  <2>1. Exact(rows, use.pass)
    BY <1>2 DEF Balanced, Actors
  <2>2. use.pass.at # "grant" /\ (use.pass.at \in {"weapon", "spend"} => use.pass.item \in SoulShots)
    BY PassHolds
  <2> QED BY <2>1, <2>2 DEF Exact
<1> QED BY <1>1, <1>2, Undisturbed

\* The recharge moves no shots.
LEMMA PassBalanced ==
  ASSUME Typed, Balanced, UNCHANGED <<h.start, h.charges, h.lost, h.granted>>, h.mixed => h'.mixed,
         rows' = rows, use'.conn = use.conn, use.pass.at # "charge", use'.pass.at # "charge",
         ~h'.mixed => (use'.pass.at # "idle" => Shotless(use.conn)) /\ Exact(rows, use'.pass)
  PROVE  Balanced'
<1>1. Owed(use'.conn) = Owed(use.conn) /\ Owed(use'.pass) = Owed(use.pass)
  BY DEF Owed
<1>2. ASSUME ~h'.mixed PROVE Exact(rows', use.conn)
  BY <1>2 DEF Balanced, Actors
<1> QED BY <1>1, <1>2, Undisturbed

\* Shots are spent and charged by one goroutine while the other leaves them alone.
LEMMA ShotsBalanced ==
  ASSUME Typed, Typed', Registered, Balanced, NEW p \in Actors, ShotWeapon(p) \/ ShotSpend(p) \/ ShotCharge(p)
  PROVE  Balanced'
<1> DEFINE c == use[p]
           d == use'[p]
           n == T[c.other].shots
           r == Less(c.copy, n)
<1>1. /\ c.item \in SoulShots /\ c.item \in Items /\ Stock(c.copy)
      /\ \A q \in Actors \ {p} : use'[q] = use[q]
      /\ c.at \in {"weapon", "spend", "charge"} /\ (c.at \in {"spend", "charge"} => c.other \in Items)
  <2>1. Holds(c)
    BY DEF Typed
  <2>2. c.at \in {"weapon", "spend", "charge"}
    BY DEF ShotWeapon, ShotSpend, ShotCharge, At
  <2>3. c.item \in SoulShots /\ Stock(c.copy) /\ \A q \in Actors \ {p} : use'[q] = use[q]
    BY ShotMoves
  <2> QED BY <2>1, <2>2, <2>3, KindsApart DEF Holds
<1>2. ASSUME ~h.mixed
      PROVE  /\ use'.pass.at # "idle" => Shotless(use'.conn)
             /\ \A q \in Actors \ {p} : \A R : Exact(R, use'[q])
             /\ Exact(rows, c)
             /\ ShotsOf(rows) + InFlight + h.charges + h.lost = ShotsOf(h.start) + h.granted
  <2>1. /\ use.pass.at # "idle" => Shotless(use.conn)
        /\ \A q \in Actors : Exact(rows, use[q])
        /\ ShotsOf(rows) + InFlight + h.charges + h.lost = ShotsOf(h.start) + h.granted
    BY <1>2 DEF Balanced
  <2>2. CASE p = "conn"
    <3>1. use.pass.at = "idle" /\ use'.pass = use.pass
      BY <1>1, <2>1, <2>2 DEF Shotless, Actors
    <3> QED BY <2>1, <2>2, <3>1 DEF Exact, Actors
  <2>3. CASE p = "pass"
    <3>1. Shotless(use.conn) /\ use'.conn = use.conn
      BY <1>1, <2>1, <2>3 DEF Actors
    <3>2. \A R : Exact(R, use.conn)
      BY <3>1 DEF Exact, Shotless
    <3> QED BY <2>1, <2>3, <3>1, <3>2 DEF Actors
  <2> QED BY <2>2, <2>3 DEF Actors
<1>3. /\ {h.charges, h.lost, h.granted} \subseteq Nat /\ InFlight \in Nat /\ InFlight' \in Nat
      /\ ShotsOf(rows) \in Nat /\ ShotsOf(rows') \in Nat /\ ShotsOf(h.start) \in Nat
      /\ Owed(c) \in Nat /\ Owed(d) \in Nat /\ InFlight' + Owed(c) = InFlight + Owed(d)
  <2>1. \A q \in Actors : Owed(use[q]) \in Nat /\ Owed(use'[q]) \in Nat
    BY OwedType DEF Typed
  <2>2. ShotsOf(rows) \in Nat /\ ShotsOf(rows') \in Nat /\ ShotsOf(h.start) \in Nat
    BY ShotsType DEF Typed, ItemsTypeOK, Registered
  <2>3. InFlight = Owed(use.conn) + Owed(use.pass) /\ InFlight' = Owed(use'.conn) + Owed(use'.pass)
    BY DEF InFlight, Owed
  <2>4. \A q \in Actors \ {p} : Owed(use'[q]) = Owed(use[q])
    BY <1>1
  <2>5. CASE p = "conn"
    BY <2>1, <2>2, <2>3, <2>4, <2>5 DEF Balanced, Actors
  <2>6. CASE p = "pass"
    BY <2>1, <2>2, <2>3, <2>4, <2>6 DEF Balanced, Actors
  <2> QED BY <2>5, <2>6 DEF Actors
<1>4. ASSUME UNCHANGED <<h.start, h.lost, h.granted>>, h.mixed => h'.mixed, h'.charges \in Nat,
             ~h'.mixed => /\ Exact(rows', d)
                          /\ ShotsOf(rows') + Owed(d) + h'.charges = ShotsOf(rows) + Owed(c) + h.charges
      PROVE  Balanced'
  <2>1. {h'.charges, h'.lost, h'.granted} \subseteq Nat
    BY <1>3, <1>4
  <2>2. ASSUME ~h'.mixed
        PROVE  /\ use'.pass.at # "idle" => Shotless(use'.conn)
               /\ \A q \in Actors : Exact(rows', use'[q])
               /\ ShotsOf(rows') + InFlight' + h'.charges + h'.lost = ShotsOf(h'.start) + h'.granted
    <3>1. ~h.mixed
      BY <1>4, <2>2
    <3>2. ShotsOf(rows') + InFlight' + h'.charges + h'.lost = ShotsOf(h'.start) + h'.granted
      BY <1>2, <1>3, <1>4, <2>2, <3>1
    <3> QED BY <1>2, <1>4, <2>2, <3>1, <3>2
  <2>3. ShotsOf(rows)' = ShotsOf(rows') /\ ShotsOf(h.start)' = ShotsOf(h'.start)
    BY DEF ShotsOf
  <2> QED BY <2>1, <2>2, <2>3 DEF Balanced, Shotless, Exact
<1>5. CASE ShotWeapon(p)
  <2>1. UNCHANGED <<h.start, h.charges, h.lost, h.granted>> /\ (h.mixed => h'.mixed)
    BY <1>5, Untallied
  <2>2. /\ rows' = rows /\ c.at = "weapon"
        /\ d = Idle \/ (d.at = "spend" /\ d.item = c.item /\ d.copy = c.copy /\ d.copy.count >= T[d.other].shots)
    BY <1>5, ShotMoves DEF ShotWeapon, ShotSpend, ShotCharge, At
  <2>3. Owed(d) = 0 /\ Owed(c) = 0
    BY <2>2, Idling DEF Owed
  <2>4. ~h'.mixed => Exact(rows', d)
    BY <1>2, <2>1, <2>2, Idling DEF Exact
  <2>5. ShotsOf(rows') = ShotsOf(rows)
    BY <2>2
  <2> QED BY <1>3, <1>4, <2>1, <2>3, <2>4, <2>5
<1>6. CASE ShotSpend(p)
  <2>1. UNCHANGED <<h.start, h.charges, h.lost, h.granted>> /\ (h.mixed => h'.mixed)
    BY <1>6, Untallied
  <2>2. /\ c.at = "spend" /\ rows' = Update(c.item, r) /\ d.at = "charge" /\ d.other = c.other
        /\ r = Gone \/ Stock(r)
    BY <1>6, ShotMoves DEF ShotWeapon, ShotSpend, ShotCharge, At
  <2>3. Owed(d) = n /\ Owed(c) = 0 /\ n \in Nat
    BY <1>3, <2>2 DEF Owed
  <2>4. Exact(rows', d)
    BY <2>2 DEF Exact
  <2>5. ASSUME ~h'.mixed PROVE ShotsOf(rows') + n = ShotsOf(rows)
    <3>1. rows[c.item] = c.copy /\ c.copy.count >= n /\ c.copy.count \in Nat
      BY <1>1, <1>2, <2>1, <2>2, <2>5 DEF Exact, Stock, Row
    <3>2. rows' = [rows EXCEPT ![c.item] = r]
      BY <1>1, <2>2, <3>1, Finding
    <3>3. r.count = c.copy.count - n
      BY <1>1, <2>3, <3>1 DEF Less, Stock, Row, Gone
    <3> HIDE DEF r, n, c
    <3>4. rows'[c.item] = r /\ \A i \in SoulShots \ {c.item} : rows'[i] = rows[i]
      BY <1>1, <3>2 DEF Typed, ItemsTypeOK, SoulShots
    <3>5. ShotsOf(rows') = ShotsOf(rows) - rows[c.item].count + rows'[c.item].count
      BY <1>1, <3>4, ShotsMoved DEF Typed, ItemsTypeOK
    <3> QED BY <1>3, <2>3, <3>1, <3>3, <3>4, <3>5
  <2> QED BY <1>3, <1>4, <2>1, <2>3, <2>4, <2>5
<1>7. CASE ShotCharge(p)
  <2>1. /\ rows' = rows /\ c.at = "charge" /\ d.at \in {"report", "show"}
    BY <1>7, ShotMoves DEF ShotWeapon, ShotSpend, ShotCharge, At
  <2>2. h' = [h EXCEPT !.charges = @ + n]
    BY <1>7 DEF ShotCharge
  <2>3. Owed(d) = 0 /\ Owed(c) = n /\ Exact(rows', d)
    BY <2>1 DEF Owed, Exact
  <2> HIDE DEF n
  <2>4. UNCHANGED <<h.start, h.lost, h.granted, h.mixed>> /\ h'.charges = h.charges + n
    BY <2>2 DEF Typed, HistoryFields
  <2>5. ShotsOf(rows') = ShotsOf(rows)
    BY <2>1
  <2> QED BY <1>3, <1>4, <2>3, <2>4, <2>5
<1> QED BY <1>5, <1>6, <1>7

\* A reward is counted when it is one of shots: then it goes into their stacks.
LEMMA RewardBalanced ==
  ASSUME Typed, Typed', Registered, Balanced, GiveReward
  PROVE  Balanced'
<1> DEFINE c == use.conn
           d == use'.conn
           n == c.todo[1]
           g == T[c.item].gives
           grown == [c.ocopy EXCEPT !.count = @ + n]
           fresh == [slot |-> "bag", count |-> n, level |-> 0]
<1>1. /\ c.at = "grant" /\ d.at = "show" /\ use'.pass = use.pass
      /\ n \in Nat /\ c.todo[2] \in Items \union {None} /\ (c.todo[2] # None => Stock(c.ocopy))
  <2>1. c.at = "grant" /\ Holds(c)
    BY RewardMoves DEF Typed, Actors
  <2>2. d.at = "show" /\ use'.pass = use.pass
    BY RewardMoves
  <2> QED BY <2>1, <2>2 DEF Holds, Rolled
<1>2. /\ h'.granted = h.granted + Shots(g, n) /\ Shots(g, n) \in Nat
      /\ UNCHANGED <<h.start, h.charges, h.lost, h.mixed>>
  <2> DEFINE x == Shots(g, n)
  <2>1. h' = [h EXCEPT !.granted = @ + x]
    BY DEF GiveReward
  <2>2. x \in Nat
    BY <1>1 DEF Shots
  <2> HIDE DEF x
  <2>3. h'.granted = h.granted + x /\ UNCHANGED <<h.start, h.charges, h.lost, h.mixed>>
    BY <2>1 DEF Typed, HistoryFields
  <2> QED BY <2>2, <2>3 DEF x
<1>3. ASSUME ~h.mixed
      PROVE  /\ use.pass.at = "idle" /\ Exact(rows, c)
             /\ ShotsOf(rows) + InFlight + h.charges + h.lost = ShotsOf(h.start) + h.granted
  BY <1>1, <1>3 DEF Balanced, Shotless, Actors
<1>4. ASSUME ~h.mixed
      PROVE  \E j \in Items : \E r :
               /\ rows' = [rows EXCEPT ![j] = r] /\ T[j].item = g
               /\ rows[j].count \in Nat /\ r.count = rows[j].count + n
  <2>1. CASE c.todo[2] # None /\ rows' = Update(c.todo[2], grown)
    <3>1. c.todo[2] \in Items /\ rows[c.todo[2]] = c.ocopy /\ T[c.todo[2]].item = g /\ Stock(c.ocopy)
      BY <1>1, <1>3, <1>4, <2>1 DEF Exact
    <3>2. grown.count = c.ocopy.count + n /\ c.ocopy.count \in Nat
      BY <1>1, <3>1 DEF Stock, Row
    <3> HIDE DEF grown
    <3>3. rows' = [rows EXCEPT ![c.todo[2]] = grown]
      BY <2>1, <3>1, Finding
    <3> QED BY <3>1, <3>2, <3>3
  <2>2. ASSUME NEW j \in Items, rows[j] = Unborn, T[j].item = g, rows' = [rows EXCEPT ![j] = fresh]
        PROVE  rows[j].count \in Nat /\ fresh.count = rows[j].count + n
    BY <1>1, <2>2 DEF Unborn
  <2> HIDE DEF grown, fresh
  <2> QED BY <2>1, <2>2 DEF GiveReward, grown, fresh
<1> HIDE DEF grown, fresh, n
<1>5. ASSUME ~h.mixed PROVE ShotsOf(rows') = ShotsOf(rows) + Shots(g, n)
  <2>1. PICK j \in Items : \E r : /\ rows' = [rows EXCEPT ![j] = r] /\ T[j].item = g
                                  /\ rows[j].count \in Nat /\ r.count = rows[j].count + n
    BY <1>4, <1>5
  <2>2. /\ rows[j].count \in Nat /\ rows'[j].count = rows[j].count + n
        /\ \A i \in Items \ {j} : rows'[i] = rows[i]
    BY <2>1 DEF Typed, ItemsTypeOK
  <2>3. j \in SoulShots <=> \E s \in SoulShots : T[s].item = g
    BY <2>1, TemplatesAssumption DEF SoulShots
  <2>4. CASE j \in SoulShots
    <3>1. \A i \in SoulShots \ {j} : rows'[i] = rows[i]
      BY <2>2 DEF SoulShots
    <3>2. ShotsOf(rows') = ShotsOf(rows) - rows[j].count + rows'[j].count
      BY <2>4, <3>1, ShotsMoved DEF Typed, ItemsTypeOK
    <3>3. Shots(g, n) = n /\ ShotsOf(rows) \in Nat /\ n \in Nat
      BY <1>1, <2>3, <2>4, ShotsType DEF Shots, n, Typed, ItemsTypeOK
    <3> QED BY <2>1, <2>2, <3>2, <3>3
  <2>5. CASE j \notin SoulShots
    <3>1. \A i \in SoulShots : rows'[i] = rows[i]
      BY <2>2, <2>5 DEF SoulShots
    <3>2. ShotsOf(rows') = ShotsOf(rows)
      BY <3>1, ShotsSame
    <3>3. Shots(g, n) = 0 /\ ShotsOf(rows) \in Nat
      BY <2>3, <2>5, ShotsType DEF Shots, Typed, ItemsTypeOK
    <3> QED BY <3>2, <3>3
  <2> QED BY <2>4, <2>5
<1>6. Owed(d) = Owed(c) /\ Owed(use'.pass) = Owed(use.pass)
  BY <1>1 DEF Owed
<1>7. InFlight' = InFlight
  BY <1>6 DEF InFlight, Owed
<1>8. /\ {h'.charges, h'.lost, h'.granted} \subseteq Nat /\ {h.charges, h.lost, h.granted} \subseteq Nat
      /\ InFlight \in Nat /\ ShotsOf(rows) \in Nat /\ ShotsOf(h.start) \in Nat
  <2>1. \A q \in Actors : Owed(use[q]) \in Nat
    BY OwedType DEF Typed
  <2>2. ShotsOf(rows) \in Nat /\ ShotsOf(h.start) \in Nat
    BY ShotsType DEF Typed, ItemsTypeOK, Registered
  <2> QED BY <1>2, <2>1, <2>2 DEF Balanced, InFlight, Actors
<1>9. ASSUME ~h'.mixed
      PROVE  /\ use'.pass.at = "idle" /\ \A q \in Actors : Exact(rows', use'[q])
             /\ ShotsOf(rows') + InFlight' + h'.charges + h'.lost = ShotsOf(h'.start) + h'.granted
  <2>1. use'.pass.at = "idle" /\ \A q \in Actors : Exact(rows', use'[q])
    BY <1>1, <1>2, <1>3, <1>9 DEF Exact, Actors
  <2>2. ShotsOf(rows') + InFlight' + h'.charges + h'.lost = ShotsOf(h'.start) + h'.granted
    BY <1>2, <1>3, <1>5, <1>7, <1>8, <1>9
  <2> QED BY <2>1, <2>2
<1>10. ShotsOf(rows)' = ShotsOf(rows') /\ ShotsOf(h.start)' = ShotsOf(h'.start)
  BY DEF ShotsOf
<1> QED BY <1>8, <1>9, <1>10 DEF Balanced, Shotless, Exact

\* The shots in flight are lost with the memory.
LEMMA CrashBalanced ==
  ASSUME Typed, Registered, Balanced, Crash
  PROVE  Balanced'
<1>1. /\ rows' = rows /\ use'.conn = Idle /\ use'.pass = Idle /\ \A p \in Actors : use'[p] = Idle
  BY DEF Crash, Actors
<1>2. h'.lost = h.lost + InFlight /\ UNCHANGED <<h.start, h.charges, h.granted, h.mixed>>
  <2> DEFINE x == h.lost + InFlight
             y == h.crashes + 1
  <2>1. h' = [h EXCEPT !.crashes = y, !.uses = <<>>, !.lost = x]
    BY DEF Crash
  <2> HIDE DEF x, y
  <2>2. h'.lost = x /\ UNCHANGED <<h.start, h.charges, h.granted, h.mixed>>
    BY <2>1 DEF Typed, HistoryFields
  <2> QED BY <2>2 DEF x
<1>3. /\ {h.charges, h.lost, h.granted} \subseteq Nat
      /\ InFlight \in Nat /\ ShotsOf(rows) \in Nat /\ ShotsOf(h.start) \in Nat
  <2>1. \A q \in Actors : Owed(use[q]) \in Nat
    BY OwedType DEF Typed
  <2>2. ShotsOf(rows) \in Nat /\ ShotsOf(h.start) \in Nat
    BY ShotsType DEF Typed, ItemsTypeOK, Registered
  <2> QED BY <2>1, <2>2 DEF Balanced, InFlight, Actors
<1>4. InFlight' = 0
  BY <1>1, Idling DEF InFlight, Owed
<1>5. ShotsOf(rows)' = ShotsOf(rows) /\ ShotsOf(h.start)' = ShotsOf(h.start)
  BY <1>1, <1>2 DEF ShotsOf
<1>6. \A p \in Actors : Exact(rows', use'[p])
  BY <1>1, Idling DEF Exact
<1>7. ~h'.mixed => ShotsOf(rows)' + InFlight' + h'.charges + h'.lost = ShotsOf(h.start)' + h'.granted
  BY <1>2, <1>3, <1>4, <1>5 DEF Balanced
<1> QED BY <1>1, <1>2, <1>3, <1>6, <1>7, Idling DEF Balanced, Shotless, Exact

\* What the connection writes beside its shots is nobody's shots.
LEMMA OtherWrites ==
  ASSUME Typed, Typed', Balanced, ClearSlot \/ EquipItem \/ ConsumeOne \/ ConsumeScroll \/ EnchantResult
  PROVE  Balanced'
<1> DEFINE c == use.conn
           d == use'.conn
<1>1. UNCHANGED <<h.start, h.charges, h.lost, h.granted>> /\ (h.mixed => h'.mixed)
  BY Untallied
<1>2. ~h.mixed /\ use.pass.at # "idle" => Shotless(c)
  BY DEF Balanced
<1>3. ASSUME NEW i \in Items, NEW r, i \notin SoulShots, rows' = Update(i, r)
      PROVE  \A j \in SoulShots : rows'[j] = rows[j]
  BY <1>3 DEF Update, Typed, ItemsTypeOK, SoulShots
<1>4. CASE ClearSlot
  <2>1. /\ c.at = "clear" /\ Head(c.todo) \in Slots
        /\ \A i \in Items : rows[i].slot # Head(c.todo) => rows'[i] = rows[i]
    BY <1>4, Clearing
  <2>2. \A i \in SoulShots : rows'[i] = rows[i]
    BY <2>1, KindsApart DEF Typed, Placed
  <2>3. d.at \in {"clear", "show", "equip"} /\ use'.pass = use.pass
    <3>1. PICK u \in Use : Go("conn", u) /\ u.at \in {"clear", "show", "equip"}
      BY <1>4, Clearing
    <3> QED BY <3>1 DEF Go, Typed, Actors
  <2> QED BY <1>1, <2>1, <2>2, <2>3, ConnBalanced DEF Shotless, Exact
<1>5. CASE EquipItem
  <2>1. /\ c.at = "equip" /\ c.item \in Items /\ Code(c.item) # "none"
        /\ rows' = (IF Live(c.item) THEN [rows EXCEPT ![c.item].slot = c.other] ELSE rows)
        /\ use'.pass = use.pass /\ d.at = "show"
    BY <1>5, EquipMoves DEF Donning
  <2>2. \A i \in SoulShots : rows'[i] = rows[i]
    BY <2>1, KindsApart DEF Typed, ItemsTypeOK
  <2> QED BY <1>1, <2>1, <2>2, ConnBalanced DEF Shotless, Exact
<1>6. CASE ConsumeOne
  <2>1. /\ c.at = "consume" /\ c.item \in Items /\ use'.pass = use.pass
        /\ rows' = Update(c.item, Less(c.copy, 1))
        /\ d.at = IF T[c.item].handler = "ExtractableItems" THEN "roll" ELSE "show"
    BY <1>6, ConsumeMoves
  <2>2. c.item \notin SoulShots
    BY <2>1 DEF Typed, Holds, Actors, SoulShots
  <2>3. \A i \in SoulShots : rows'[i] = rows[i]
    BY <1>3, <2>1, <2>2
  <2>4. ~h'.mixed => (use.pass.at # "idle" => Shotless(d)) /\ Exact(rows', d)
    BY <1>1, <1>2, <2>1 DEF Shotless, Exact
  <2> QED BY <1>1, <2>1, <2>3, <2>4, ConnBalanced
<1>7. CASE ConsumeScroll
  <2>1. /\ c.at = "pay" /\ c.item \in Scrolls /\ rows' = Update(c.item, Less(c.copy, 1))
        /\ use'.pass = use.pass /\ d.at = "result"
    BY <1>7, PayMoves
  <2>2. c.item \in Items /\ c.item \notin SoulShots
    BY <2>1 DEF Scrolls, SoulShots
  <2>3. \A i \in SoulShots : rows'[i] = rows[i]
    BY <1>3, <2>1, <2>2
  <2> QED BY <1>1, <2>1, <2>3, ConnBalanced DEF Shotless, Exact
<1>8. CASE EnchantResult
  <2>1. /\ c.at = "result" /\ c.other \in Items /\ T[c.other].type # "EtcItem"
        /\ rows' = Update(c.other, c.ocopy) /\ use'.pass = use.pass /\ d.at = "report"
    BY <1>8, ResultMoves
  <2>2. c.other \notin SoulShots
    BY <2>1, KindsApart
  <2>3. \A i \in SoulShots : rows'[i] = rows[i]
    BY <1>3, <2>1, <2>2
  <2> QED BY <1>1, <2>1, <2>3, ConnBalanced DEF Shotless, Exact
<1> QED BY <1>4, <1>5, <1>6, <1>7, <1>8

LEMMA BalancedSteps ==
  ASSUME Typed, Typed', Registered, Balanced, [ItemsNext]_vars
  PROVE  Balanced'
<1> DEFINE c == use.conn
           d == use'.conn
           Kept == UNCHANGED <<h.start, h.charges, h.lost, h.granted>> /\ (h.mixed => h'.mixed)
<1>1. ~h.mixed => /\ use.pass.at # "idle" => Shotless(c)
                  /\ Exact(rows, c) /\ Exact(rows, use.pass)
  BY DEF Balanced, Actors
<1>2. ASSUME NEW i \in Items, PutOn(i) \/ TakeOff(i) PROVE Balanced'
  <2>1. use'.pass = use.pass /\ c.at = "idle" /\ d.at = "clear" /\ rows' = rows
    BY <1>2, DressMoves DEF PutOn, TakeOff
  <2>2. Kept
    BY <1>2, Untallied
  <2> QED BY <2>1, <2>2, ConnBalanced DEF Shotless, Exact
<1>3. ASSUME NEW i \in Items,
             Open(i) \/ Register(i) \/ Shoot(i) \/ (\E inCombat \in BOOLEAN : Drink(i, inCombat))
      PROVE  Balanced'
  <2>1. /\ rows' = rows /\ use'.pass = use.pass /\ c.at = "idle" /\ d.item = i /\ d.copy = rows[i]
        /\ d.at \in {"consume", "register", "weapon"} /\ (d.at = "weapon" => i \in SoulShots)
    BY <1>3, TakeMoves
  <2>2. Kept /\ (~h'.mixed /\ (Open(i) \/ Shoot(i)) => use.pass.at = "idle")
    BY <1>3, Untallied
  <2>3. Register(i) \/ (\E inCombat \in BOOLEAN : Drink(i, inCombat)) => T[i].handler \in {"Recipes", "ItemSkills"}
    BY DEF Register, Drink, Handled
  <2>4. ~h'.mixed => (use.pass.at # "idle" => Shotless(d)) /\ Exact(rows', d)
    BY <1>3, <2>1, <2>2, <2>3 DEF Shotless, Exact, SoulShots
  <2> QED BY <2>1, <2>2, <2>4, ConnBalanced
<1>4. ASSUME NEW i \in Items, ArmScroll(i) \/ PutTarget(i) \/ EnchantItem(i) PROVE Balanced'
  <2>1. rows' = rows /\ Kept
    BY <1>4, Untallied DEF ArmScroll, PutTarget, EnchantItem
  <2>2. CASE UNCHANGED use
    BY <1>1, <2>1, <2>2, Undisturbed
  <2>3. CASE EnchantItem(i) /\ Live(arm) /\ Live(i) /\ Fits(arm, i, rows[i].level)
    <3>1. PICK u \in Use : Go("conn", u) /\ u.at = "pay"
      BY <2>3, Enchanting
    <3>2. d = u /\ use'.pass = use.pass /\ c.at = "idle"
      BY <2>3, <3>1 DEF Go, Typed, Actors, EnchantItem, At
    <3> QED BY <2>1, <3>1, <3>2, ConnBalanced DEF Shotless, Exact
  <2> QED BY <1>4, <2>2, <2>3 DEF ArmScroll, PutTarget, EnchantItem
<1>5. CASE AddRecipe
  <2>1. /\ c.at = "register" /\ T[c.item].handler = "Recipes" /\ rows' = rows /\ use'.pass = use.pass
        /\ d.at = "consume" /\ d.item = c.item
    BY <1>5, RecipeMoves
  <2>2. Kept
    BY <1>5, Untallied
  <2> QED BY <2>1, <2>2, ConnBalanced DEF Shotless, Exact
<1>6. ASSUME NEW n \in Nat, Roll(n) PROVE Balanced'
  <2>1. /\ c.at = "roll" /\ rows' = rows /\ use'.pass = use.pass
        /\ d.at \in {"show", "grant"} /\ d.item = c.item
        /\ d.todo[2] # None => d.ocopy = rows[d.todo[2]] /\ T[d.todo[2]].item = T[c.item].gives
    BY <1>6, RollMoves
  <2>2. Kept
    BY <1>6, Untallied
  <2>3. ~h'.mixed => use.pass.at = "idle"
    BY <1>1, <2>1, <2>2 DEF Shotless
  <2> QED BY <2>1, <2>2, <2>3, ConnBalanced DEF Exact
<1>7. CASE ClearSlot \/ EquipItem \/ ConsumeOne \/ ConsumeScroll \/ EnchantResult
  BY <1>7, OtherWrites
<1>8. CASE GiveReward
  BY <1>8, RewardBalanced
<1>9. CASE Crash
  BY <1>9, CrashBalanced
<1>10. CASE \E p \in Actors : ShotWeapon(p) \/ ShotSpend(p) \/ ShotCharge(p)
  BY <1>10, ShotsBalanced
<1>11. CASE (\E i : EnableAuto(i)) \/ Recharge("conn")
  <2>1. /\ rows' = rows /\ use'.pass = use.pass /\ c.at \in {"idle", "list"}
        /\ d.at \in {"idle", "list"} \/ (d.at = "weapon" /\ d.copy = rows[d.item])
    <3>1. ASSUME NEW i, EnableAuto(i)
          PROVE  use'.pass = use.pass /\ c.at = "idle" /\ d.at = "list" /\ rows' = rows
      <4>1. "conn" \in Actors /\ Go("conn", [Idle EXCEPT !.at = "list"]) /\ c.at = "idle" /\ rows' = rows
        BY <3>1 DEF EnableAuto, Actors, At
      <4>2. d.at = "list" /\ \A q \in Actors \ {"conn"} : use'[q] = use[q]
        BY <4>1, ListMoves
      <4> QED BY <4>1, <4>2 DEF Actors
    <3>2. CASE Recharge("conn")
      <4>1. /\ \A q \in Actors \ {"conn"} : use'[q] = use[q]
            /\ c.at = "list" /\ rows' = rows
            /\ d = Idle \/ (d.at = "weapon" /\ d.copy = rows[d.item])
        BY <3>2, RechargeMoves DEF Actors
      <4> QED BY <4>1, Idling DEF Actors
    <3> QED BY <1>11, <3>1, <3>2
  <2>2. Kept /\ (~h'.mixed /\ (\E i : EnableAuto(i)) => use.pass.at = "idle")
    BY <1>11, Untallied DEF Actors
  <2>3. ~h'.mixed => use.pass.at = "idle"
    BY <1>1, <1>11, <2>2 DEF Shotless, Recharge, At
  <2> QED BY <2>1, <2>2, <2>3, ConnBalanced DEF Exact
<1>12. CASE PassTakes
  <2>1. /\ "pass" \in Actors /\ Go("pass", [Idle EXCEPT !.at = "list"]) /\ use.pass.at = "idle" /\ rows' = rows
    BY <1>12 DEF PassTakes, Actors, At
  <2>2. use'.pass.at = "list" /\ d = c
    BY <2>1, ListMoves DEF Actors
  <2>3. Kept /\ (~h'.mixed => Shotless(c))
    BY <1>12, Untallied
  <2> QED BY <2>1, <2>2, <2>3, PassBalanced DEF Exact
<1>13. CASE Recharge("pass")
  <2>1. /\ rows' = rows /\ d = c /\ use.pass.at = "list"
        /\ use'.pass = Idle \/ (use'.pass.at = "weapon" /\ use'.pass.copy = rows[use'.pass.item])
    BY <1>13, RechargeMoves DEF Actors
  <2>2. Kept
    BY <1>13, Untallied DEF Actors
  <2>3. ~h'.mixed => Shotless(c)
    BY <1>1, <2>1, <2>2
  <2>4. Exact(rows, use'.pass) /\ use'.pass.at # "charge"
    BY <2>1, Idling DEF Exact
  <2> QED BY <2>1, <2>2, <2>3, <2>4, PassBalanced
<1>14. CASE Show \/ ShowUnread \/ \E p \in Actors : Report(p) \/ StatementFails(p)
  <2>1. PICK p \in Actors : Go(p, Idle) /\ use[p].at # "charge"
    BY <1>14 DEF Show, ShowUnread, Report, StatementFails, At, Actors
  <2>2. rows' = rows
    BY <1>14 DEF Show, ShowUnread, Report, StatementFails
  <2>3. Kept
    BY <1>14, Untallied
  <2>4. use'[p] = Idle /\ \A q \in Actors \ {p} : use'[q] = use[q]
    BY <2>1 DEF Go, Typed
  <2>5. CASE p = "conn"
    <3>1. d = Idle /\ use'.pass = use.pass
      BY <2>4, <2>5 DEF Actors
    <3> QED BY <2>1, <2>2, <2>3, <2>5, <3>1, Idling, ConnBalanced DEF Shotless, Exact
  <2>6. CASE p = "pass"
    <3>1. use'.pass = Idle /\ d = c
      BY <2>4, <2>6 DEF Actors
    <3> QED BY <2>1, <2>2, <2>3, <2>6, <3>1, Idling, PassBalanced DEF Exact
  <2> QED BY <2>5, <2>6 DEF Actors
<1>15. CASE CancelEnchant \/ (\E i : DisableAuto(i)) \/ Swing \/ HitLands \/ Tick \/ Relog \/ UNCHANGED vars
  <2>1. UNCHANGED <<rows, use>>
    BY <1>15 DEF CancelEnchant, DisableAuto, Swing, HitLands, Tick, Relog, vars
  <2>2. Kept
    BY <1>15, Untallied
  <2> QED BY <1>1, <2>1, <2>2, Undisturbed
<1> QED
  BY <1>2, <1>3, <1>4, <1>5, <1>6, <1>7, <1>8, <1>9, <1>10, <1>11, <1>12, <1>13, <1>14, <1>15, Steps DEF Actors

LEMMA BalancedStart ==
  ASSUME ItemsInit
  PROVE  Balanced
<1>1. /\ use.conn = Idle /\ use.pass = Idle /\ \A p \in Actors : use[p] = Idle
      /\ h.start = rows /\ h.charges = 0 /\ h.lost = 0 /\ h.granted = 0
      /\ rows \in [Items -> Row \union {Gone, Unborn}]
  BY StartsAssumption DEF ItemsInit, Actors
<1>2. InFlight = 0
  BY <1>1, Idling DEF InFlight, Owed
<1>3. ShotsOf(rows) \in Nat /\ ShotsOf(h.start) = ShotsOf(rows)
  BY <1>1, ShotsType
<1> QED BY <1>1, <1>2, <1>3, Idling DEF Balanced, Exact

---------------------------------------------------------------------------
(* The theorems. *)

LEMMA ItemsInvariant == ItemsSpec => []ItemsInv
<1>1. ItemsInit => ItemsInv
  <2>1. ASSUME ItemsInit PROVE ItemsInv
    <3>1. Typed
      BY <2>1, StartTypes
    <3> QED BY <2>1, <3>1, SlottedStart, DrawnStart, RegisteredStart, PayingStart, WaitingStart, SeenStart,
             BalancedStart DEF ItemsInv
  <2> QED BY <2>1
<1>2. ItemsInv /\ [ItemsNext]_vars => ItemsInv'
  <2>1. ASSUME ItemsInv, [ItemsNext]_vars PROVE ItemsInv'
    <3>1. Typed /\ Slotted /\ Drawn /\ Registered /\ Paying /\ Waiting /\ Seen /\ Balanced
      BY <2>1 DEF ItemsInv
    <3>2. Typed'
      BY <2>1, <3>1, TypedSteps
    <3>3. Slotted' /\ Drawn'
      BY <2>1, <3>1, <3>2, SlottedSteps, DrawnSteps
    <3>4. Registered' /\ Paying'
      BY <2>1, <3>1, <3>2, RegisteredSteps, PayingSteps
    <3>5. Waiting' /\ Seen'
      BY <2>1, <3>1, <3>2, WaitingSteps, SeenSteps
    <3>6. Balanced'
      BY <2>1, <3>1, <3>2, BalancedSteps
    <3> QED BY <3>2, <3>3, <3>4, <3>5, <3>6 DEF ItemsInv
  <2> QED BY <2>1
<1> QED BY <1>1, <1>2, PTL DEF ItemsSpec

\* Slots stay exclusive through any interleaving of failed and repeated
\* statements, and a connection that is done leaves the loop the paperdoll the
\* rows describe (inventory.go, equipItem; equipment.go,
\* refreshCharacterPaperdoll).
THEOREM EquipmentStaysSound == ItemsSpec => []EquipmentSound
<1>1. ItemsInv => EquipmentSound
  BY DEF ItemsInv, Typed, Slotted, Drawn, Matches, EquipmentSound, SlotsExclusive, PaperdollCurrent, At
<1> QED BY <1>1, ItemsInvariant, PTL

\* No recipe scroll is used up before its recipe is in the book, no enchant is
\* attempted without a scroll and a window of its own or on another target than
\* the one checked, and no reuse delay is undercut (recipehandler.go, enchant.go,
\* itemreuse.go).
THEOREM UsesArePaid == ItemsSpec => []UsesPaid
<1>1. ItemsInv => UsesPaid
  BY DEF ItemsInv, Registered, Paying, Waiting, UsesPaid
<1> QED BY <1>1, ItemsInvariant, PTL

\* Two goroutines that write the same bag and tell the client of it separately
\* leave the client with the rows, once both are done, no statement failed and
\* none began while the other had something untold (equipment.go, soulshots.go).
THEOREM BagIsSeen == ItemsSpec => []ClientSeesBag
<1>1. ItemsInv => ClientSeesBag
  <2>1. ASSUME ItemsInv, \A p \in Actors : At(p, "idle"), h.failures = 0 /\ ~h.late PROVE shown = rows
    <3>1. Seen /\ DOMAIN use.conn.changed = {} /\ DOMAIN use.pass.changed = {}
      BY <2>1 DEF ItemsInv, Seen, Untold, At, Actors
    <3>2. \A i \in Items : rows[i] = shown[i]
      BY <2>1, <3>1 DEF Seen, Known
    <3> QED BY <2>1, <3>2 DEF ItemsInv, Typed, ItemsTypeOK
  <2> QED BY <2>1 DEF ClientSeesBag
<1> QED BY <1>1, ItemsInvariant, PTL

\* Shots are neither lost nor made by failed statements, swaps of weapons and
\* depleted stacks: what the bag held and was given is there, was charged, or was
\* lost by a crash between paying and charging, unless a use from the bag ever
\* overlapped a recharge (soulshots.go, UseItem; autoshot.go).
THEOREM ShotsStayAccounted == ItemsSpec => []ShotsAccounted
<1>1. ItemsInv => ShotsAccounted
  BY DEF ItemsInv, Balanced, ShotsAccounted
<1> QED BY <1>1, ItemsInvariant, PTL
=============================================================================
