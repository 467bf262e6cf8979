------------------------------- MODULE Items -------------------------------
(* One character's items: equipping, consumables, recipes, boxes, enchanting,
   soulshots. Two goroutines work on the same database rows, statement by
   statement and without a transaction: "conn" handles the packets of the
   character's connection one at a time, "pass" recharges automatic shots when
   the game loop asks for it. A statement may fail, and the process may crash,
   between any two steps. Code: usecase/inventory.go, usecase/soulshots.go,
   usecase/enchant.go, usecase/*handler.go, handlers/client/equipment.go,
   handlers/client/itemenchant.go, gameloop/autoshot.go, service.go. *)
EXTENDS Integers, Sequences, FiniteSets, Functions

CONSTANTS
  Items,        \* object ids
  T,            \* object id -> its item template
  Starts,       \* the contents of the rows to start from
  None,         \* no item
  QueueCap,     \* bound: capacity of the recharge channel
  SafeLevel,    \* enchanting below this level always succeeds
  MaxClock,     \* bound: the clock stops here
  MaxFailures,  \* bound: failed statements
  MaxCrashes    \* bound: crashes

Slots == {"rhand", "lhand", "chest", "legs", "hair", "hair2", "rfinger", "lfinger", "rear", "lear"}
\* What the code reads of an item's template: the XML type and body part, the
\* handler that dispatches its use, and what that handler looks at.
Template ==
  [item : STRING, type : {"Weapon", "Armor", "EtcItem"}, body : STRING, quest : BOOLEAN,
   handler : STRING, grade : STRING, shots : Nat, group : Nat, delay : Nat, escape : BOOLEAN,
   gives : STRING, amounts : SUBSET Nat, recipe : STRING, craft : BOOLEAN,
   enchantable : BOOLEAN, forWeapon : BOOLEAN, forGrade : STRING, most : Nat,
   scroll : {"normal", "blessed", "safe"}]
Row == [slot : Slots \union {"bag"}, count : Nat \ {0}, level : Nat]
Gone == [slot |-> "gone", count |-> 0, level |-> 0]
Unborn == [slot |-> "unborn", count |-> 0, level |-> 0]
Actors == {"conn", "pass"}

ASSUME ItemsAssumption ==
  /\ IsFiniteSet(Items) /\ None \notin Items /\ T \in [Items -> Template]
  /\ QueueCap \in Nat \ {0} /\ {SafeLevel, MaxClock, MaxFailures, MaxCrashes} \subseteq Nat

\* Objects of one item id share its template, and the datapack gives shots,
\* recipes and scrolls neither a body part nor a type that can be enchanted.
ASSUME TemplatesAssumption ==
  /\ \A i, j \in Items : T[i].item = T[j].item => T[i] = T[j]
  /\ \A i \in Items : T[i].handler \in {"SoulShots", "Recipes", "EnchantScrolls"} =>
       T[i].type = "EtcItem" /\ T[i].body = ""

VARIABLES
  rows,     \* character_items
  book,     \* registered recipes
  charged,  \* weapons with a charged soulshot (ChargedShotRegistry)
  auto,     \* item ids of automatic shots (AutoShotRegistry)
  arm,      \* the scroll an enchant window is open for (EnchantStateRegistry)
  stamp,    \* object id -> when its reuse ends (ItemReuseRegistry)
  doll,     \* Character.PaperdollObjectIDs: what the game loop takes for worn
  shown,    \* the client's bag, as the packets sent to it describe it
  use,      \* what each goroutine is doing
  queue,    \* recharge requests of this character in the channel
  clock,
  h         \* history: what was paid for what

vars == <<rows, book, charged, auto, arm, stamp, doll, shown, use, queue, clock, h>>

---------------------------------------------------------------------------
(* Templates. *)

\* The code of an XML body part; a part the switch does not name has none.
BodyPartToCode(b) ==
  CASE b \in {"onepiece", "fullarmor"} -> "full"
    [] b \in {"hair2", "dhair"} -> "hair2"
    [] b \in {"rhand", "lhand", "lrhand", "chest", "legs", "hair", "hairall", "rfinger", "lfinger", "rear", "lear"} -> b
    [] OTHER -> "none"

BodyPartToPaperdollSlot(c) ==
  CASE c = "lrhand" -> "rhand"
    [] c = "full" -> "chest"
    [] c = "hairall" -> "hair"
    [] c = "lrfinger" -> "rfinger"
    [] c = "lrear" -> "rear"
    [] OTHER -> c

\* The second slot of a code that may go to either of two.
SecondSlot == [hairall |-> "hair2", lrfinger |-> "lfinger", lrear |-> "lear"]

SoulShots == {i \in Items : T[i].handler = "SoulShots"}
Scrolls == {i \in Items : T[i].handler = "EnchantScrolls"}
Code(i) == BodyPartToCode(T[i].body)
Type2(i) ==
  CASE T[i].type = "Weapon" -> "weapon"
    [] T[i].type = "Armor" ->
         IF T[i].body \in {"rear", "lear", "rfinger", "lfinger"} THEN "accessory" ELSE "armor"
    [] OTHER -> IF T[i].quest THEN "quest" ELSE "other"
TypeMatches(s, t) == IF T[s].forWeapon THEN Type2(t) = "weapon" ELSE Type2(t) \in {"armor", "accessory"}

\* S80 and S84 count as S.
GradeSPlus(g) == IF g \in {"S80", "S84"} THEN "S" ELSE g

---------------------------------------------------------------------------
(* Rows. *)

\* No slot holds two items, and the left hand is empty beside a two-handed weapon.
Exclusive(R) ==
  /\ \A i, j \in Items : R[i].slot \in Slots /\ R[i].slot = R[j].slot => i = j
  /\ \A i, j \in Items : R[i].slot \in Slots /\ Code(i) = "lrhand" => R[j].slot # "lhand"
\* What has no body part is not worn, and a two-handed weapon is in the right hand.
Placed(i, r) == r.slot \in Slots => Code(i) # "none" /\ (Code(i) = "lrhand" => r.slot = "rhand")

\* The rows at the start are what earlier sessions left.
ASSUME StartsAssumption ==
  \A S \in Starts :
    /\ S \in [Items -> Row \union {Gone, Unborn}]
    /\ Exclusive(S) /\ \A i \in Items : Placed(i, S[i])

Live(i) == rows[i] \notin {Gone, Unborn}
Worn(i) == rows[i].slot \in Slots
In(R, s) == {i \in Items : R[i].slot = s}
Dolled(R) == [s \in Slots |-> IF In(R, s) = {} THEN None ELSE CHOOSE i \in In(R, s) : TRUE]

\* UPDATE of the whole row from a copy: nothing when the row is gone by now.
Update(i, r) == IF Live(i) THEN [rows EXCEPT ![i] = r] ELSE rows
Delete(i) == [rows EXCEPT ![i] = IF Live(i) THEN Gone ELSE @]
\* The row after using up n of a copy of it.
Less(r, n) == IF r.count - n <= 0 THEN Gone ELSE [r EXCEPT !.count = @ - n]
Consume(i, r, n) == IF r.count - n <= 0 THEN Delete(i) ELSE Update(i, Less(r, n))

GetByCharacter == {i \in Items : Live(i)}
Stacks(i) == {j \in GetByCharacter : T[j].item = i /\ rows[j].slot = "bag"}

Idle == [at |-> "idle", item |-> None, copy |-> Gone, todo |-> <<>>, other |-> None,
         ocopy |-> Gone, changed |-> [i \in {} |-> Gone], auto |-> FALSE]
At(p, a) == use[p].at = a
Go(p, u) == use' = [use EXCEPT ![p] = u]
Over(f, g) == [i \in DOMAIN f \union DOMAIN g |-> IF i \in DOMAIN f THEN f[i] ELSE g[i]]
Says(u, i, r) == [u EXCEPT !.changed = Over([j \in {i} |-> r], u.changed)]
Told(u) == Over(u.changed, shown)
Count(f) == [h EXCEPT ![f] = @ + 1]

ItemsInit ==
  /\ rows \in Starts
  /\ book = {} /\ charged = {} /\ auto = {} /\ arm = None
  /\ stamp = [i \in Items |-> 0]
  /\ doll = Dolled(rows)
  /\ shown = rows
  /\ use = [p \in Actors |-> Idle]
  /\ queue = 0 /\ clock = 0
  /\ h = [start |-> rows, mixed |-> FALSE, granted |-> 0, charges |-> 0, lost |-> 0, uses |-> <<>>,
          windows |-> 0, late |-> FALSE, pays |-> 0, attempts |-> 0, failures |-> 0, crashes |-> 0]

---------------------------------------------------------------------------
(* The registries in memory. *)

IsCharged(w) == w \in charged
Enable(i)    == auto' = auto \union {i}
SetActive(s) == arm' = s
AddReuse(i)  == stamp' = [stamp EXCEPT ![i] = clock + T[i].delay]

---------------------------------------------------------------------------
(* Using an item: the common checks, then the handler of its kind. A quest item
   and a dead character's item change nothing. *)

RemainingByItem(i) == IF stamp[i] > clock THEN stamp[i] - clock ELSE 0
GroupReady(g) == g # 0 => \A j \in Items : T[j].group = g => RemainingByItem(j) = 0

May(i) ==
  /\ At("conn", "idle") /\ Live(i) /\ Type2(i) # "quest"
  /\ T[i].delay > 0 => RemainingByItem(i) = 0 /\ GroupReady(T[i].group)
Handled(i, kind) == May(i) /\ Code(i) = "none" /\ T[i].handler = kind

\* The slots emptied before an item goes on, in order. The code reads the slots
\* of a two-slot item before the first statement; a failed read picks a slot too.
FindDualSlot(c) ==
  LET one == BodyPartToPaperdollSlot(c)
      two == SecondSlot[c]
  IN IF In(rows, one) = {} THEN {one}
     ELSE (IF In(rows, two) = {} THEN {two} ELSE {one})
          \union (IF h.failures < MaxFailures THEN {one, two} ELSE {})
TwoHandedHeld == \E i \in In(rows, "rhand") : Code(i) = "lrhand"
\* Mutant: a two-handed weapon leaves the shield on.
SlotConflictsShieldStays(c) ==
  CASE c = "lrhand" -> {<<"rhand">>}
    [] c = "full" -> {<<"legs", "chest">>}
    [] c \in DOMAIN SecondSlot -> {<<s>> : s \in FindDualSlot(c)}
    [] OTHER -> {IF c = "lhand" /\ TwoHandedHeld THEN <<"rhand", c>> ELSE <<c>>}

SlotConflicts(c) ==
  CASE c = "lrhand" -> {<<"lhand", "rhand">>}
    [] c = "full" -> {<<"legs", "chest">>}
    [] c \in DOMAIN SecondSlot -> {<<s>> : s \in FindDualSlot(c)}
    [] OTHER -> {IF c = "lhand" /\ TwoHandedHeld THEN <<"rhand", c>> ELSE <<c>>}

PutOn(i) ==
  /\ May(i) /\ Code(i) # "none" /\ ~Worn(i)
  /\ \E todo \in SlotConflicts(Code(i)) :
       Go("conn", [Idle EXCEPT !.at = "clear", !.item = i, !.copy = rows[i], !.todo = todo])
  /\ UNCHANGED <<rows, book, charged, auto, arm, stamp, doll, shown, queue, clock, h>>

\* UseItem on a worn item, and RequestUnEquipItem for its slot.
TakeOff(i) ==
  /\ At("conn", "idle") /\ Live(i) /\ Worn(i)
  /\ Go("conn", [Idle EXCEPT !.at = "clear", !.todo = <<rows[i].slot>>])
  /\ UNCHANGED <<rows, book, charged, auto, arm, stamp, doll, shown, queue, clock, h>>

\* Mutant: what was taken off is not reported.
ClearSlotUntold ==
  LET u == use.conn
      s == Head(u.todo)
      off == In(rows, s)
      bare(i) == [rows[i] EXCEPT !.slot = "bag"]
  IN
  /\ At("conn", "clear")
  /\ rows' = [i \in Items |-> IF i \in off THEN bare(i) ELSE rows[i]]
  /\ charged' = IF s = "rhand" THEN charged \ off ELSE charged
  /\ Go("conn", [u EXCEPT !.todo = Tail(@), !.other = s,
       !.at = IF Len(u.todo) > 1 THEN "clear" ELSE IF u.item = None THEN "show" ELSE "equip"])
  /\ UNCHANGED <<book, auto, arm, stamp, doll, shown, queue, clock, h>>

ClearSlot ==
  LET u == use.conn
      s == Head(u.todo)
      off == In(rows, s)
      bare(i) == [rows[i] EXCEPT !.slot = "bag"]
  IN
  /\ At("conn", "clear")
  /\ rows' = [i \in Items |-> IF i \in off THEN bare(i) ELSE rows[i]]
  /\ charged' = IF s = "rhand" THEN charged \ off ELSE charged
  /\ Go("conn", [u EXCEPT !.todo = Tail(@), !.changed = Over([i \in off |-> bare(i)], u.changed),
       !.at = IF Len(u.todo) > 1 THEN "clear" ELSE IF u.item = None THEN "show" ELSE "equip",
       !.other = s])
  /\ UNCHANGED <<book, auto, arm, stamp, doll, shown, queue, clock, h>>

\* The last slot cleared is the one the item goes to.
EquipItem ==
  LET u == use.conn
      worn == [u.copy EXCEPT !.slot = u.other]
  IN
  /\ At("conn", "equip")
  /\ rows' = IF Live(u.item) THEN [rows EXCEPT ![u.item].slot = u.other] ELSE rows
  /\ Go("conn", Says([u EXCEPT !.at = "show"], u.item, worn))
  /\ UNCHANGED <<book, charged, auto, arm, stamp, doll, shown, queue, clock, h>>

\* The bag is told, the paperdoll read again; a use is stamped when its handler
\* consumed something.
Stamped(u) ==
  IF u.other = "used" /\ T[u.item].delay > 0
  THEN /\ AddReuse(u.item)
       /\ h' = [h EXCEPT !.uses = Append(@, [item |-> u.item, time |-> clock])]
  ELSE UNCHANGED <<stamp, h>>
Show ==
  /\ At("conn", "show")
  /\ Stamped(use.conn)
  /\ shown' = Told(use.conn)
  /\ doll' = Dolled(rows)
  /\ Go("conn", Idle)
  /\ UNCHANGED <<rows, book, charged, auto, arm, queue, clock>>

\* The same when the paperdoll cannot be read: the old one stays.
ShowUnread ==
  /\ At("conn", "show") /\ h.failures < MaxFailures
  /\ IF use.conn.other = "used" /\ T[use.conn.item].delay > 0
     THEN /\ AddReuse(use.conn.item)
          /\ h' = [h EXCEPT !.failures = @ + 1,
                            !.uses = Append(@, [item |-> use.conn.item, time |-> clock])]
     ELSE UNCHANGED stamp /\ h' = Count("failures")
  /\ shown' = Told(use.conn)
  /\ Go("conn", Idle)
  /\ UNCHANGED <<rows, book, charged, auto, arm, doll, queue, clock>>

---------------------------------------------------------------------------
(* Handlers that use up one of the item: skill items, boxes, recipes. *)

Consuming(i, at) == [Idle EXCEPT !.at = at, !.item = i, !.copy = rows[i]]

\* A skill item; an escape is refused in combat.
Drink(i, inCombat) ==
  /\ Handled(i, "ItemSkills") /\ ~(inCombat /\ T[i].escape)
  /\ Go("conn", Consuming(i, "consume"))
  /\ UNCHANGED <<rows, book, charged, auto, arm, stamp, doll, shown, queue, clock, h>>

\* A box. h.mixed: the pass is at work on what may be the same stack.
Open(i) ==
  /\ Handled(i, "ExtractableItems")
  /\ Go("conn", Consuming(i, "consume"))
  /\ h' = [h EXCEPT !.mixed = @ \/ ~At("pass", "idle"), !.late = @ \/ ~At("pass", "idle")]
  /\ UNCHANGED <<rows, book, charged, auto, arm, stamp, doll, shown, queue, clock>>

\* A recipe that is not registered and that the character is able to craft.
Register(i) ==
  /\ Handled(i, "Recipes") /\ T[i].recipe \notin book /\ T[i].craft
  /\ Go("conn", Consuming(i, "register"))
  /\ UNCHANGED <<rows, book, charged, auto, arm, stamp, doll, shown, queue, clock, h>>

AddRecipe ==
  /\ At("conn", "register")
  /\ book' = book \union {T[use.conn.item].recipe}
  /\ Go("conn", [use.conn EXCEPT !.at = "consume"])
  /\ UNCHANGED <<rows, charged, auto, arm, stamp, doll, shown, queue, clock, h>>

ConsumeOne ==
  LET u == use.conn IN
  /\ At("conn", "consume")
  /\ rows' = Consume(u.item, u.copy, 1)
  /\ Go("conn", Says([u EXCEPT !.other = "used",
                       !.at = IF T[u.item].handler = "ExtractableItems" THEN "roll" ELSE "show"],
                     u.item, Less(u.copy, 1)))
  /\ UNCHANGED <<book, charged, auto, arm, stamp, doll, shown, queue, clock, h>>

\* The box's product: nothing by chance, else an amount, put onto the stack
\* found in the bag or into a row of its own.
Roll(n) ==
  LET u == use.conn IN
  /\ At("conn", "roll") /\ n \in T[u.item].amounts
  /\ \E j \in IF n = 0 \/ Stacks(T[u.item].gives) = {} THEN {None} ELSE Stacks(T[u.item].gives) :
       Go("conn", [u EXCEPT !.at = IF n = 0 THEN "show" ELSE "grant", !.todo = <<n, j>>,
                            !.ocopy = IF j = None THEN Gone ELSE rows[j]])
  /\ UNCHANGED <<rows, book, charged, auto, arm, stamp, doll, shown, queue, clock, h>>

\* The shots among n of a product.
Shots(i, n) == IF \E s \in SoulShots : T[s].item = i THEN n ELSE 0

\* Mutant: the stack found is overwritten by the reward.
GiveRewardSets ==
  LET u == use.conn
      n == u.todo[1]
      grown == [u.ocopy EXCEPT !.count = n]
      fresh == [slot |-> "bag", count |-> n, level |-> 0]
  IN
  /\ At("conn", "grant")
  /\ \/ /\ u.todo[2] # None
        /\ rows' = Update(u.todo[2], grown)
        /\ Go("conn", Says([u EXCEPT !.at = "show"], u.todo[2], grown))
     \/ \E j \in Items :
          /\ u.todo[2] = None /\ rows[j] = Unborn /\ T[j].item = T[u.item].gives
          /\ rows' = [rows EXCEPT ![j] = fresh]
          /\ Go("conn", Says([u EXCEPT !.at = "show"], j, fresh))
  /\ h' = [h EXCEPT !.granted = @ + Shots(T[u.item].gives, n)]
  /\ UNCHANGED <<book, charged, auto, arm, stamp, doll, shown, queue, clock>>

GiveReward ==
  LET u == use.conn
      n == u.todo[1]
      grown == [u.ocopy EXCEPT !.count = @ + n]
      fresh == [slot |-> "bag", count |-> n, level |-> 0]
  IN
  /\ At("conn", "grant")
  /\ \/ /\ u.todo[2] # None
        /\ rows' = Update(u.todo[2], grown)
        /\ Go("conn", Says([u EXCEPT !.at = "show"], u.todo[2], grown))
     \/ \E j \in Items :
          /\ u.todo[2] = None /\ rows[j] = Unborn /\ T[j].item = T[u.item].gives
          /\ rows' = [rows EXCEPT ![j] = fresh]
          /\ Go("conn", Says([u EXCEPT !.at = "show"], j, fresh))
  /\ h' = [h EXCEPT !.granted = @ + Shots(T[u.item].gives, n)]
  /\ UNCHANGED <<book, charged, auto, arm, stamp, doll, shown, queue, clock>>

---------------------------------------------------------------------------
(* Soulshots, used from the bag or recharged automatically. *)

Shoot(i) ==
  /\ Handled(i, "SoulShots")
  /\ Go("conn", Consuming(i, "weapon"))
  /\ h' = [h EXCEPT !.mixed = @ \/ ~At("pass", "idle"), !.late = @ \/ ~At("pass", "idle")]
  /\ UNCHANGED <<rows, book, charged, auto, arm, stamp, doll, shown, queue, clock>>

\* The shots are on their way to the weapon that is worn, if they fit it.
ShotFits(p, w) ==
  LET u == use[p] IN
  /\ T[w].shots > 0
  /\ GradeSPlus(T[w].grade) = GradeSPlus(T[u.item].grade)
  /\ ~IsCharged(w)
  /\ u.copy.count >= T[w].shots
ShotWeapon(p) ==
  /\ At(p, "weapon")
  /\ \/ \E w \in In(rows, "rhand") :
          ShotFits(p, w) /\ Go(p, [use[p] EXCEPT !.at = "spend", !.other = w])
     \/ (\A w \in In(rows, "rhand") : ~ShotFits(p, w)) /\ Go(p, Idle)
  /\ UNCHANGED <<rows, book, charged, auto, arm, stamp, doll, shown, queue, clock, h>>

ShotSpend(p) ==
  LET u == use[p] IN
  /\ At(p, "spend")
  /\ rows' = Consume(u.item, u.copy, T[u.other].shots)
  /\ Go(p, Says([u EXCEPT !.at = "charge"], u.item, Less(u.copy, T[u.other].shots)))
  /\ UNCHANGED <<book, charged, auto, arm, stamp, doll, shown, queue, clock, h>>

ShotCharge(p) ==
  LET u == use[p] IN
  /\ At(p, "charge")
  /\ charged' = charged \union {u.other}
  /\ h' = [h EXCEPT !.charges = @ + T[u.other].shots]
  /\ Go(p, [u EXCEPT !.other = "used", !.at = IF u.auto THEN "report" ELSE "show"])
  /\ UNCHANGED <<rows, book, auto, arm, stamp, doll, shown, queue, clock>>

\* Recharged shots and enchants are told to the client; nothing is read again.
Report(p) ==
  /\ At(p, "report")
  /\ shown' = Told(use[p])
  /\ Go(p, Idle)
  /\ UNCHANGED <<rows, book, charged, auto, arm, stamp, doll, queue, clock, h>>

\* RequestAutoSoulShot: on, for a stack that is owned, and recharged at once.
EnableAuto(i) ==
  /\ At("conn", "idle") /\ Stacks(i) # {}
  /\ Enable(i)
  /\ Go("conn", [Idle EXCEPT !.at = "list"])
  /\ h' = [h EXCEPT !.mixed = @ \/ ~At("pass", "idle"), !.late = @ \/ ~At("pass", "idle")]
  /\ UNCHANGED <<rows, book, charged, arm, stamp, doll, shown, queue, clock>>
DisableAuto(i) ==
  /\ At("conn", "idle") /\ i \in auto
  /\ auto' = auto \ {i}
  /\ UNCHANGED <<rows, book, charged, arm, stamp, doll, shown, use, queue, clock, h>>

\* The goroutine in service.go takes a request.
PassTakes ==
  /\ At("pass", "idle") /\ queue > 0
  /\ queue' = queue - 1
  /\ Go("pass", [Idle EXCEPT !.at = "list"])
  /\ h' = [h EXCEPT !.late = @ \/ ~At("conn", "idle"), !.mixed = @ \/ use.conn.at \in {"list", "weapon", "spend", "charge", "consume", "roll", "grant"}]
  /\ UNCHANGED <<rows, book, charged, auto, arm, stamp, doll, shown, clock>>

\* RechargeAutoShots: the bag is read once; other items than soulshots are
\* skipped, a shot that ran out is switched off.
AutoSoulShots == auto \intersect {T[j].item : j \in SoulShots}
Recharge(p) ==
  /\ At(p, "list")
  /\ \/ AutoSoulShots = {} /\ Go(p, Idle) /\ UNCHANGED auto
     \/ \E i \in AutoSoulShots : Stacks(i) = {} /\ auto' = auto \ {i} /\ Go(p, Idle)
     \/ \E i \in AutoSoulShots : \E j \in Stacks(i) :
          Go(p, [Consuming(j, "weapon") EXCEPT !.auto = TRUE]) /\ UNCHANGED auto
  /\ UNCHANGED <<rows, book, charged, arm, stamp, doll, shown, queue, clock, h>>

\* The loop's swing spends the charge of the weapon the paperdoll names; the hit
\* asks for a recharge, and is not heard when the channel is full.
Swing ==
  /\ IsCharged(doll.rhand)
  /\ charged' = charged \ {doll.rhand}
  /\ UNCHANGED <<rows, book, auto, arm, stamp, doll, shown, use, queue, clock, h>>
HitLands ==
  /\ auto # {} /\ doll.rhand # None /\ ~IsCharged(doll.rhand)
  /\ queue < QueueCap
  /\ queue' = queue + 1
  /\ UNCHANGED <<rows, book, charged, auto, arm, stamp, doll, shown, use, clock, h>>

---------------------------------------------------------------------------
(* Enchanting: the scroll opens a window, the window names a target. *)

\* The scroll fits the target: type, base grade, and its highest level.
Fits(s, t, level) ==
  /\ s \in Scrolls
  /\ T[t].enchantable /\ TypeMatches(s, t) /\ GradeSPlus(T[t].grade) = T[s].forGrade
  /\ T[s].most > 0 => level <= T[s].most

\* What an attempt leaves of the target.
Outcome(s, r, won) ==
  CASE won -> [r EXCEPT !.level = @ + 1]
    [] ~won /\ T[s].scroll = "safe" -> r
    [] ~won /\ T[s].scroll = "blessed" -> [r EXCEPT !.level = 0]
    [] ~won /\ T[s].scroll = "normal" -> Gone
Rolls(level) == IF level < SafeLevel THEN {TRUE} ELSE BOOLEAN

ArmScroll(i) ==
  /\ Handled(i, "EnchantScrolls") /\ arm = None
  /\ SetActive(i)
  /\ h' = [h EXCEPT !.windows = 1]
  /\ UNCHANGED <<rows, book, charged, auto, stamp, doll, shown, use, queue, clock>>

\* RequestExTryToPutEnchantTargetItem: an unfit target closes the window.
PutTarget(t) ==
  /\ At("conn", "idle") /\ arm # None /\ Live(arm) /\ Live(t)
  /\ ~Fits(arm, t, rows[t].level)
  /\ arm' = None
  /\ UNCHANGED <<rows, book, charged, auto, stamp, doll, shown, use, queue, clock, h>>

CancelEnchant ==
  /\ At("conn", "idle") /\ arm # None
  /\ arm' = None
  /\ UNCHANGED <<rows, book, charged, auto, stamp, doll, shown, use, queue, clock, h>>

\* Mutant: the window stays open.
EnchantItemStaysOpen(t) ==
  /\ At("conn", "idle") /\ arm # None
  /\ IF Live(arm) /\ Live(t) /\ Fits(arm, t, rows[t].level)
     THEN \E won \in Rolls(rows[t].level) :
            Go("conn", [Consuming(arm, "pay") EXCEPT
                          !.other = t, !.ocopy = Outcome(arm, rows[t], won)])
     ELSE UNCHANGED use
  /\ UNCHANGED <<rows, book, charged, auto, arm, stamp, doll, shown, queue, clock, h>>

\* RequestEnchantItem: the window closes whatever the target is.
EnchantItem(t) ==
  /\ At("conn", "idle") /\ arm # None
  /\ arm' = None
  /\ IF Live(arm) /\ Live(t) /\ Fits(arm, t, rows[t].level)
     THEN \E won \in Rolls(rows[t].level) :
            Go("conn", [Consuming(arm, "pay") EXCEPT
                          !.other = t, !.ocopy = Outcome(arm, rows[t], won)])
     ELSE UNCHANGED use
  /\ UNCHANGED <<rows, book, charged, auto, stamp, doll, shown, queue, clock, h>>

ConsumeScroll ==
  LET u == use.conn IN
  /\ At("conn", "pay")
  /\ rows' = Consume(u.item, u.copy, 1)
  /\ Go("conn", Says([u EXCEPT !.at = "result"], u.item, Less(u.copy, 1)))
  /\ h' = [h EXCEPT !.pays = @ + 1, !.windows = @ - 1]
  /\ UNCHANGED <<book, charged, auto, arm, stamp, doll, shown, queue, clock>>

\* The target's row is deleted or written; the paperdoll is not read again.
EnchantResult ==
  LET u == use.conn IN
  /\ At("conn", "result")
  /\ rows' = IF u.ocopy = Gone THEN Delete(u.other) ELSE Update(u.other, u.ocopy)
  /\ Go("conn", Says([u EXCEPT !.at = "report"], u.other, u.ocopy))
  /\ h' = Count("attempts")
  /\ UNCHANGED <<book, charged, auto, arm, stamp, doll, shown, queue, clock>>

---------------------------------------------------------------------------
(* Failures, crashes, and leaving the world. *)

\* A statement fails: the handler returns where it is, and tells nobody.
StatementFails(p) ==
  /\ use[p].at \in {"list", "weapon", "spend", "clear", "equip", "consume", "register",
                    "roll", "grant", "pay", "result"}
  /\ h.failures < MaxFailures
  /\ Go(p, Idle)
  /\ h' = Count("failures")
  /\ UNCHANGED <<rows, book, charged, auto, arm, stamp, doll, shown, queue, clock>>

\* Shots paid for and not yet charged.
Owed(u)  == IF u.at = "charge" THEN T[u.other].shots ELSE 0
InFlight == Owed(use.conn) + Owed(use.pass)

\* The process stops and starts: only the rows are left, and the next EnterWorld
\* reads the paperdoll and lists the bag.
Crash ==
  /\ h.crashes < MaxCrashes
  /\ h' = [h EXCEPT !.crashes = @ + 1, !.uses = <<>>,
                    !.lost = @ + InFlight]
  /\ charged' = {} /\ auto' = {} /\ arm' = None /\ queue' = 0
  /\ stamp' = [i \in Items |-> 0]
  /\ use' = [p \in Actors |-> Idle]
  /\ doll' = Dolled(rows)
  /\ shown' = rows
  /\ UNCHANGED <<rows, book, clock>>

\* The character leaves the world and comes back: reuse and automatic shots are
\* forgotten, the enchant window and the charges are not.
Relog ==
  /\ At("conn", "idle") /\ (auto # {} \/ \E i \in Items : stamp[i] > clock)
  /\ auto' = {}
  /\ stamp' = [i \in Items |-> 0]
  /\ h' = [h EXCEPT !.uses = <<>>]
  /\ doll' = Dolled(rows)
  /\ shown' = rows
  /\ UNCHANGED <<rows, book, charged, arm, use, queue, clock>>

Tick ==
  /\ clock < MaxClock /\ \E i \in Items : T[i].delay > 0 /\ Live(i)
  /\ clock' = clock + 1
  /\ UNCHANGED <<rows, book, charged, auto, arm, stamp, doll, shown, use, queue, h>>

ItemsNext ==
  \/ \E i \in Items :
       \/ PutOn(i) \/ TakeOff(i) \/ Open(i) \/ Register(i) \/ Shoot(i)
       \/ \E inCombat \in BOOLEAN : Drink(i, inCombat)
       \/ ArmScroll(i) \/ PutTarget(i) \/ EnchantItem(i)
  \/ \E i \in {T[j].item : j \in Items} : EnableAuto(i) \/ DisableAuto(i)
  \/ ClearSlot \/ EquipItem \/ Show \/ ShowUnread
  \/ AddRecipe \/ ConsumeOne \/ GiveReward
  \/ \E n \in UNION {T[i].amounts : i \in Items} : Roll(n)
  \/ CancelEnchant \/ ConsumeScroll \/ EnchantResult
  \/ PassTakes \/ Swing \/ HitLands
  \/ \E p \in Actors : ShotWeapon(p) \/ ShotSpend(p) \/ ShotCharge(p) \/ Recharge(p) \/ Report(p) \/ StatementFails(p)
  \/ Crash \/ Relog \/ Tick

ItemsSpec == ItemsInit /\ [][ItemsNext]_vars

---------------------------------------------------------------------------
(* Properties. *)

\* Type correctness: counts stay positive, no row of the bag is ever half gone,
\* and the loop's paperdoll and the armed scroll name items or nothing.
ItemsTypeOK ==
  /\ rows \in [Items -> Row \union {Gone, Unborn}]
  /\ shown \in [Items -> Row \union {Gone, Unborn}]
  /\ doll \in [Slots -> Items \union {None}] /\ arm \in Items \union {None}
  /\ charged \subseteq Items /\ queue \in 0 .. QueueCap

\* Two items never share a slot, and nothing is in the left hand beside a
\* two-handed weapon, although the slots are emptied and filled by separate
\* statements any of which may fail (inventory.go, equipItem).
SlotsExclusive == Exclusive(rows)

\* Soulshots are conserved: what the bag held and was given is in the bag, was
\* charged, or was lost by a crash between paying and charging - through failed
\* statements, swaps of weapons and depleted stacks, as long as no use from the
\* bag overlapped a recharge (soulshots.go, UseItem).
ShotsOf(R) == SumFunctionOnSet([i \in SoulShots |-> R[i].count], SoulShots)
ShotsAccounted ==
  ~h.mixed => ShotsOf(rows) + InFlight + h.charges + h.lost = ShotsOf(h.start) + h.granted

\* When the connection is done and no statement failed, the paperdoll the game
\* loop fights with names exactly the worn items, save for an item an enchant
\* destroyed (equipment.go, refreshCharacterPaperdoll).
PaperdollCurrent ==
  At("conn", "idle") /\ h.failures = 0 =>
    \A s \in Slots : doll[s] = Dolled(rows)[s] \/ (doll[s] # None /\ ~Live(doll[s]) /\ In(rows, s) = {})

\* When both goroutines are done, no statement failed and no recharge began before
\* the connection had told of its last change, the client has been told of every
\* change of every row.
ClientSeesBag ==
  (\A p \in Actors : At(p, "idle")) /\ h.failures = 0 /\ ~h.late => shown = rows

\* Two uses of an item, or of items that share a reuse group, are never closer
\* than the reuse delay of the earlier one (inventory.go, itemreuse.go).
ReuseRespected ==
  \A a, b \in DOMAIN h.uses :
    LET i == h.uses[a].item
        j == h.uses[b].item
    IN a < b /\ (i = j \/ (T[i].group # 0 /\ T[i].group = T[j].group))
         => h.uses[b].time >= h.uses[a].time + T[i].delay

\* A recipe scroll that was used up is in the book, whatever failed or crashed
\* in between (recipehandler.go: register first, then consume).
RecipeNeverLost ==
  \A i \in Items : T[i].handler = "Recipes" /\ rows[i].count < h.start[i].count => T[i].recipe \in book

\* Every enchant attempt was paid for by a scroll and every scroll by a window
\* of its own; until the result is written the target is what the request found,
\* and its level one the scroll may still raise (enchant.go, EnchantItem).
AttemptsArePaid ==
  /\ h.attempts <= h.pays /\ h.windows >= 0
  /\ use.conn.at \in {"pay", "result"} =>
       LET t == use.conn.other IN Live(t) /\ Fits(use.conn.item, t, rows[t].level)

\* What is worn, in the rows and in memory: every variable has its type, slots are
\* exclusive, and the loop fights with what the rows say.
EquipmentSound == ItemsTypeOK /\ SlotsExclusive /\ PaperdollCurrent

\* A use is paid for by what it uses up, and waits for the one before it.
UsesPaid == RecipeNeverLost /\ AttemptsArePaid /\ ReuseRespected
=============================================================================
