------------------------------ MODULE MCItems ------------------------------
(* Items for TLC: six bags, one of them to start from.
     hands  a sword, a bow and a shield,
     dress  full armor, leggings, and two pieces that go into either hair slot,
     shots  a sword in the hand, a bow that takes two, and two soulshots,
     box    a sword in the hand, a soulshot, and a box that gives more,
     goods  two potions of one reuse group and a recipe,
     scrolls  a sword in the hand, a bow and a shield, and scrolls for weapons. *)
EXTENDS Items, TLC

CONSTANTS sword, bow, shield, robe, legs, cap1, cap2, shots, more, box, elixir, potion, recipe, scroll

Plain == [item |-> "", type |-> "EtcItem", body |-> "", quest |-> FALSE, handler |-> "",
          grade |-> "S", shots |-> 0, group |-> 0, delay |-> 0, escape |-> FALSE,
          gives |-> "", amounts |-> {}, recipe |-> "", craft |-> FALSE,
          enchantable |-> FALSE, forWeapon |-> FALSE, forGrade |-> "S", most |-> 0, scroll |-> "normal"]
Gear(name, body) == [Plain EXCEPT !.item = name, !.type = "Armor", !.body = body]
Weapon(name, body, n) == [Gear(name, body) EXCEPT !.type = "Weapon", !.shots = n, !.grade = "S80", !.enchantable = TRUE]
Kind(name, handler) == [Plain EXCEPT !.item = name, !.handler = handler]

MCT == (sword :> Weapon("sword", "rhand", 1)) @@ (bow :> Weapon("bow", "lrhand", 2))
    @@ (shield :> Gear("shield", "lhand")) @@ (robe :> Gear("robe", "onepiece"))
    @@ (legs :> Gear("legs", "legs"))
    @@ (cap1 :> Gear("cap1", "hairall")) @@ (cap2 :> Gear("cap2", "hairall"))
    @@ (shots :> Kind("shots", "SoulShots")) @@ (more :> Kind("shots", "SoulShots"))
    @@ (box :> [Kind("box", "ExtractableItems") EXCEPT !.gives = "shots", !.amounts = {0, 2}])
    @@ (elixir :> [Kind("elixir", "ItemSkills") EXCEPT !.group = 1, !.delay = 2])
    @@ (potion :> [Kind("potion", "ItemSkills") EXCEPT !.group = 1, !.delay = 1, !.escape = TRUE])
    @@ (recipe :> [Kind("recipe", "Recipes") EXCEPT !.recipe = "blade", !.craft = TRUE])
    @@ (scroll :> [Kind("scroll", "EnchantScrolls") EXCEPT !.forWeapon = TRUE, !.most = 1])

N(n) == [slot |-> "bag", count |-> n, level |-> 0]
On(s) == [slot |-> s, count |-> 1, level |-> 0]
Bag(f) == f @@ [i \in Items |-> IF i = more THEN Unborn ELSE Gone]
HandsBag == Bag([i \in {sword, bow, shield} |-> N(1)])
DressBag == Bag([i \in {robe, legs, cap1, cap2} |-> N(1)])
ShotBag == Bag((sword :> On("rhand")) @@ (bow :> N(1)) @@ (shots :> N(2)))
BoxBag == Bag((sword :> On("rhand")) @@ (shots :> N(1)) @@ (box :> N(1)))
GoodsBag == Bag((elixir :> N(1)) @@ (potion :> N(2)) @@ (recipe :> N(1)))
ScrollBag == Bag((sword :> On("rhand")) @@ (bow :> N(1)) @@ (shield :> N(1)) @@ (scroll :> N(3)))
MCStarts == {HandsBag, DressBag, ShotBag, BoxBag, GoodsBag, ScrollBag}

\* The client switches automatic use on for the soulshots and, in the hands bag and
\* in vain, the bow. A behaviour has one fault, a failed statement or a crash; with
\* two weapons and shots there is no crash, with shots nobody leaves the world,
\* and with a box the hands are left alone.
Automatic == {"shots", "bow"}
MCNext ==
  \/ \E i \in Items :
       \/ (PutOn(i) /\ h.start # BoxBag) \/ (TakeOff(i) /\ h.start # BoxBag) \/ Open(i) \/ Register(i) \/ Shoot(i)
       \/ \E inCombat \in BOOLEAN : Drink(i, inCombat)
       \/ ArmScroll(i) \/ PutTarget(i) \/ EnchantItem(i)
  \/ \E i \in Automatic : EnableAuto(i) /\ (i = "bow" => h.start = HandsBag)
  \/ \E i \in Automatic : DisableAuto(i)
  \/ ClearSlot \/ EquipItem \/ Show \/ ShowUnread
  \/ AddRecipe \/ ConsumeOne \/ GiveReward
  \/ \E n \in {0, 2} : Roll(n)
  \/ CancelEnchant \/ ConsumeScroll \/ EnchantResult
  \/ PassTakes \/ Swing \/ HitLands
  \/ \E p \in Actors : ShotWeapon(p) \/ ShotSpend(p) \/ ShotCharge(p) \/ Recharge(p) \/ Report(p) \/ (StatementFails(p) /\ h.crashes = 0 /\ ~h.mixed)
  \/ (Crash /\ h.failures = 0 /\ h.start # ShotBag) \/ (Relog /\ h.start \notin {ShotBag, BoxBag}) \/ Tick
MCSpec == ItemsInit /\ [][MCNext]_vars
=============================================================================
