---------------------------- MODULE EffectsProofs ----------------------------
(* What TLAPS proves of Effects, for any players, skills and times: a cast hits
   once, is paid for and keeps its cooldown; a pending approach has its heartbeat;
   harm is answered by a flag that shows; and the effects a character carries
   exclude each other, end in time and are in its modifiers. *)
EXTENDS Effects, SequenceTheorems, TLAPS

-----------------------------------------------------------------------------
(* The loop's state L, as far as casts are concerned. *)

Parts  == {"body", "buffed", "flagged", "pending", "intent", "events", "ready", "log", "lost", "mixed", "near"}
Fields == {"hp", "mp", "target", "casting", "moving", "flag", "shown", "effects", "gear", "mods", "cached", "valid"}
Cast   == [who : Players, skill : Skills, target : Objects, start : Nat, hits : Nat, landed : Nat,
           aborted : BOOLEAN, cleared : BOOLEAN, fair : BOOLEAN, answer : Nat]

IsBody(b) == DOMAIN b = Fields /\ b.mp \in Nat /\ b.flag \in Nat /\ b.target \in Objects \union {Nobody}

Shaped(L) ==
  /\ DOMAIN L = Parts /\ DOMAIN L.body = Players /\ \A p \in Players : IsBody(L.body[p])
  /\ L.pending \in [Players -> [skill : Skills \union {NoSkill}, ctrl : BOOLEAN]]
  /\ L.events \subseteq Event
  /\ L.ready \in [Players -> [Skills -> Nat]]
  /\ L.log \in Seq(Cast)

(* A step from L to M that casts nothing and takes nobody's MP. *)
Spared(b, d) == IsBody(d) /\ d.casting = b.casting /\ d.mp >= b.mp
Alike(L, M) ==
  /\ DOMAIN M = Parts /\ DOMAIN M.body = Players
  /\ M.pending = L.pending /\ M.events = L.events /\ M.ready = L.ready /\ M.log = L.log
  /\ \A p \in Players : Spared(L.body[p], M.body[p])

LEMMA AlikeIsShaped == \A L, M : Shaped(L) /\ Alike(L, M) => Shaped(M)
BY DEF Shaped, Alike, Spared

LEMMA AlikeRefl == \A L : Shaped(L) => Alike(L, L)
BY DEF Shaped, Alike, Spared, IsBody

LEMMA AlikeTrans == \A L, M, N : Shaped(L) /\ Alike(L, M) /\ Alike(M, N) => Alike(L, N)
<1> SUFFICES ASSUME NEW L, NEW M, NEW N, Shaped(L), Alike(L, M), Alike(M, N) PROVE Alike(L, N)
  OBVIOUS
<1>1. \A p \in Players : /\ IsBody(L.body[p]) /\ IsBody(M.body[p]) /\ IsBody(N.body[p])
                         /\ Spared(L.body[p], M.body[p]) /\ Spared(M.body[p], N.body[p])
  BY DEF Shaped, Alike, Spared
<1>2. \A p \in Players : Spared(L.body[p], N.body[p])
  BY <1>1 DEF Spared, IsBody
<1> QED BY <1>2 DEF Alike

(* One body changes, and nothing about casts. *)
LEMMA OneBody ==
  ASSUME NEW L, Shaped(L), NEW p \in Players, NEW b, Spared(L.body[p], b), NEW M,
         DOMAIN M = Parts, M.body = [L.body EXCEPT ![p] = b],
         M.pending = L.pending, M.events = L.events, M.ready = L.ready, M.log = L.log
  PROVE  Alike(L, M)
<1>1. DOMAIN M.body = Players /\ M.body[p] = b /\ \A q \in Players : q # p => M.body[q] = L.body[q]
  BY DEF Shaped
<1>2. \A q \in Players : Spared(L.body[q], M.body[q])
  BY <1>1, AlikeRefl DEF Alike
<1> QED BY <1>1, <1>2 DEF Alike

-----------------------------------------------------------------------------
(* The helpers. *)

LEMMA RebuildSpares ==
  ASSUME NEW b, IsBody(b), NEW e
  PROVE  Spared(b, RebuildStatMods([b EXCEPT !.effects = e])) /\ Spared(b, [b EXCEPT !.effects = e])
<1> DEFINE d == [b EXCEPT !.effects = e]
<1>1. IsBody(d) /\ d.casting = b.casting /\ d.mp = b.mp /\ DOMAIN d = Fields
  BY DEF IsBody, Fields
<1> HIDE DEF d
<1>2. RebuildStatMods(d) = [d EXCEPT !.mods = ModsOf(d, d.effects), !.valid = FALSE]
  BY DEF RebuildStatMods
<1>3. IsBody(RebuildStatMods(d)) /\ RebuildStatMods(d).casting = d.casting /\ RebuildStatMods(d).mp = d.mp
  BY <1>1, <1>2 DEF IsBody, Fields
<1>4. Spared(b, RebuildStatMods(d)) /\ Spared(b, d)
  BY <1>1, <1>3 DEF Spared, IsBody
<1> QED BY <1>4 DEF d

LEMMA SetEffectsAlike ==
  ASSUME NEW L, Shaped(L), NEW p \in Players, NEW e
  PROVE  Alike(L, SetEffects(L, p, e)) /\ Alike(L, [L EXCEPT !.body[p].effects = e])
<1> DEFINE b == RebuildStatMods([L.body[p] EXCEPT !.effects = e])
           d == [L.body[p] EXCEPT !.effects = e]
           m == IF dressing[p] = <<>> THEN L.mixed \ {p} ELSE L.mixed \union {p}
<1>1. Spared(L.body[p], b) /\ Spared(L.body[p], d)
  BY RebuildSpares DEF Shaped
<1>2. SetEffects(L, p, e) = [L EXCEPT !.body = [L.body EXCEPT ![p] = b], !.mixed = m]
  BY DEF SetEffects
<1>3. [L EXCEPT !.body[p].effects = e] = [L EXCEPT !.body = [L.body EXCEPT ![p] = d]]
  OBVIOUS
<1> HIDE DEF b, d, m
<1>4. Alike(L, SetEffects(L, p, e))
  <2> DEFINE M == SetEffects(L, p, e)
  <2>1. /\ DOMAIN M = Parts /\ M.body = [L.body EXCEPT ![p] = b]
        /\ M.pending = L.pending /\ M.events = L.events /\ M.ready = L.ready /\ M.log = L.log
    BY <1>2 DEF Shaped, Parts
  <2> HIDE DEF M
  <2> QED BY <1>1, <2>1, OneBody DEF M
<1>5. Alike(L, [L EXCEPT !.body[p].effects = e])
  <2> DEFINE M == [L EXCEPT !.body[p].effects = e]
  <2>1. /\ DOMAIN M = Parts /\ M.body = [L.body EXCEPT ![p] = d]
        /\ M.pending = L.pending /\ M.events = L.events /\ M.ready = L.ready /\ M.log = L.log
    BY <1>3 DEF Shaped, Parts
  <2> HIDE DEF M
  <2> QED BY <1>1, <2>1, OneBody DEF M
<1> QED BY <1>4, <1>5
LEMMA OneBodyOf ==
  ASSUME NEW L, Shaped(L), NEW p \in Players, NEW M, DOMAIN M = Parts, DOMAIN M.body = Players,
         Spared(L.body[p], M.body[p]), \A q \in Players : q # p => M.body[q] = L.body[q],
         M.pending = L.pending, M.events = L.events, M.ready = L.ready, M.log = L.log
  PROVE  Alike(L, M)
<1>1. \A q \in Players : Spared(L.body[q], M.body[q])
  BY AlikeRefl DEF Alike
<1> QED BY <1>1 DEF Alike

(* What the casts do not depend on. *)
LEMMA SidesAlike ==
  ASSUME NEW L, Shaped(L), NEW x
  PROVE  /\ Alike(L, [L EXCEPT !.buffed = x]) /\ Alike(L, [L EXCEPT !.flagged = x])
         /\ Alike(L, [L EXCEPT !.lost = x]) /\ Alike(L, [L EXCEPT !.mixed = x])
         /\ Alike(L, [L EXCEPT !.near = x]) /\ Alike(L, [L EXCEPT !.intent = x])
<1>1. DOMAIN L = Parts /\ Alike(L, L)
  BY AlikeRefl DEF Shaped
<1> QED BY <1>1 DEF Alike, Parts

(* One field of a body that casts do not depend on. *)
LEMMA FieldAlike ==
  ASSUME NEW L, Shaped(L), NEW p \in Players, NEW x
  PROVE  /\ Alike(L, [L EXCEPT !.body[p].hp = x])
         /\ Alike(L, [L EXCEPT !.body[p].moving = x])
         /\ Alike(L, [L EXCEPT !.body[p].shown = x])
         /\ (x \in Nat => Alike(L, [L EXCEPT !.body[p].flag = x]))
         /\ (x \in Objects \union {Nobody} => Alike(L, [L EXCEPT !.body[p].target = x]))
<1> DEFINE b == L.body[p]
<1>1. IsBody(b) /\ DOMAIN L = Parts
  BY DEF Shaped
<1>2. /\ Spared(b, [b EXCEPT !.hp = x]) /\ Spared(b, [b EXCEPT !.moving = x]) /\ Spared(b, [b EXCEPT !.shown = x])
      /\ (x \in Nat => Spared(b, [b EXCEPT !.flag = x]))
      /\ (x \in Objects \union {Nobody} => Spared(b, [b EXCEPT !.target = x]))
  BY <1>1 DEF Spared, IsBody, Fields
<1>3. ASSUME NEW d, Spared(b, d)
      PROVE  Alike(L, [L EXCEPT !.body = [L.body EXCEPT ![p] = d]])
  <2> DEFINE M == [L EXCEPT !.body = [L.body EXCEPT ![p] = d]]
  <2>1. /\ DOMAIN M = Parts /\ M.body = [L.body EXCEPT ![p] = d]
        /\ M.pending = L.pending /\ M.events = L.events /\ M.ready = L.ready /\ M.log = L.log
    BY <1>1 DEF Parts
  <2> HIDE DEF M
  <2> QED BY <1>3, <2>1, OneBody DEF M
<1>4. Alike(L, [L EXCEPT !.body[p].hp = x])
  BY <1>2, <1>3
<1>5. Alike(L, [L EXCEPT !.body[p].moving = x])
  BY <1>2, <1>3
<1>6. Alike(L, [L EXCEPT !.body[p].shown = x])
  BY <1>2, <1>3
<1>7. x \in Nat => Alike(L, [L EXCEPT !.body[p].flag = x])
  BY <1>2, <1>3
<1>8. x \in Objects \union {Nobody} => Alike(L, [L EXCEPT !.body[p].target = x])
  BY <1>2, <1>3
<1> QED BY <1>4, <1>5, <1>6, <1>7, <1>8

LEMMA SetFlagAlike ==
  ASSUME NEW L, Shaped(L), NEW p \in Players, clock \in Nat
  PROVE  Alike(L, SetFlag(L, p))
<1> DEFINE f == clock + FlagTime
           L1 == [L EXCEPT !.body[p].flag = f]
           s == IF Flagged(L.body[p]) THEN L1.body[p].shown ELSE TRUE
           L2 == [L1 EXCEPT !.body[p].shown = s]
           g == L2.flagged \union {p}
           L3 == [L2 EXCEPT !.flagged = g]
           x == L3.lost \ {<<"flag", p>>}
           L4 == [L3 EXCEPT !.lost = x]
<1>1. SetFlag(L, p) = L4
  <2>1. L1.body[p].shown = L.body[p].shown
    BY DEF Shaped, Parts, IsBody, Fields
  <2>2. L2 = [L EXCEPT !.body[p].flag = f, !.body[p].shown = s]
    OBVIOUS
  <2>3. L3.lost = L.lost /\ L2.flagged = L.flagged
    BY DEF Shaped, Parts
  <2> QED BY <2>1, <2>2, <2>3 DEF SetFlag
<1>2. f \in Nat
  BY EffectsAssumption
<1> HIDE DEF f
<1>3. Alike(L, L1) /\ Shaped(L1)
  BY <1>2, FieldAlike, AlikeIsShaped
<1> HIDE DEF L1, s
<1>4. Alike(L1, L2) /\ Shaped(L2)
  BY <1>3, FieldAlike, AlikeIsShaped
<1> HIDE DEF L2, g
<1>5. Alike(L2, L3) /\ Shaped(L3)
  BY <1>4, SidesAlike, AlikeIsShaped
<1> HIDE DEF L3, x
<1>6. Alike(L3, L4)
  BY <1>5, SidesAlike
<1> HIDE DEF L4
<1> QED BY <1>1, <1>3, <1>4, <1>5, <1>6, AlikeTrans

LEMMA HurtAlike ==
  ASSUME NEW L, Shaped(L), NEW t \in Players, clock \in Nat
  PROVE  Alike(L, Hurt(L, t))
<1> DEFINE x == L.body[t].hp - 1
           M == [L EXCEPT !.body[t].hp = x]
<1>1. Hurt(L, t) = SetFlag(M, t)
  BY DEF Hurt
<1> HIDE DEF x
<1>2. Alike(L, M) /\ Shaped(M)
  BY FieldAlike, AlikeIsShaped
<1> HIDE DEF M
<1> QED BY <1>1, <1>2, SetFlagAlike, AlikeTrans

LEMMA RestoreAlike ==
  ASSUME NEW L, Shaped(L), NEW t, here \subseteq Players
  PROVE  Alike(L, Restore(L, t))
<1>1. CASE t \in here /\ L.body[t].hp > 0
  <2> DEFINE x == IF L.body[t].hp < MaxHP THEN L.body[t].hp + 1 ELSE L.body[t].hp
  <2>1. Restore(L, t) = [L EXCEPT !.body[t].hp = x]
    BY <1>1 DEF Restore
  <2> HIDE DEF x
  <2>2. t \in Players
    BY <1>1
  <2>3. Alike(L, [L EXCEPT !.body[t].hp = x])
    BY <2>2, FieldAlike
  <2> QED BY <2>1, <2>3
<1>2. CASE ~(t \in here /\ L.body[t].hp > 0)
  BY <1>2, AlikeRefl DEF Restore
<1> QED BY <1>1, <1>2

LEMMA StrikeAlike ==
  ASSUME NEW L, Shaped(L), NEW p, NEW t, NEW s, here \subseteq Players, clock \in Nat
  PROVE  Alike(L, Strike(L, p, t, s))
<1>1. CASE ~(t \in here /\ t # p) \/ L.body[t].hp = 0
  BY <1>1, AlikeRefl DEF Strike
<1>2. CASE t \in here /\ t # p /\ L.body[t].hp # 0
  <2>1. Alike(L, Hurt(L, t)) /\ Shaped(Hurt(L, t))
    BY <1>2, HurtAlike, AlikeIsShaped
  <2>2. Alike(Hurt(L, t), Restore(Hurt(L, t), p))
    BY <2>1, RestoreAlike
  <2>3. Alike(L, Restore(Hurt(L, t), p))
    BY <2>1, <2>2, AlikeTrans
  <2> QED BY <1>2, <2>1, <2>3 DEF Strike
<1> QED BY <1>1, <1>2

LEMMA TeleportAlike ==
  ASSUME NEW L, Shaped(L), NEW p \in Players
  PROVE  Alike(L, Teleport(L, p))
<1> DEFINE L1 == [L EXCEPT !.body[p].target = Nobody]
           L2 == [L1 EXCEPT !.body[p].moving = FALSE]
           n == [q \in Players |-> IF q = p THEN {} ELSE L.near[q] \ {p}]
           L3 == [L2 EXCEPT !.near = n]
<1>1. Teleport(L, p) = L3
  <2>1. L2.near = L.near
    BY DEF Shaped, Parts
  <2> QED BY <2>1 DEF Teleport
<1>2. Alike(L, L1) /\ Shaped(L1)
  BY FieldAlike, AlikeIsShaped
<1> HIDE DEF L1, n
<1>3. Alike(L1, L2) /\ Shaped(L2)
  BY <1>2, FieldAlike, AlikeIsShaped
<1> HIDE DEF L2
<1>4. Alike(L2, L3)
  BY <1>3, SidesAlike
<1> HIDE DEF L3
<1> QED BY <1>1, <1>2, <1>3, <1>4, AlikeTrans

LEMMA ApplyBuffAlike ==
  ASSUME NEW L, Shaped(L), NEW t, NEW s, NEW level, here \subseteq Players
  PROVE  Alike(L, ApplyBuff(L, t, s, level))
<1>1. CASE t \notin here
  BY <1>1, AlikeRefl DEF ApplyBuff
<1>2. CASE t \in here
  <2> DEFINE added == AddBuff(L.body[t].effects, NewBuff(s, level))
             M == SetEffects(L, t, added.list)
             x == M.buffed \union {t}
  <2>1. ApplyBuff(L, t, s, level) = IF ~added.ok THEN [L EXCEPT !.body[t].effects = added.list]
                                    ELSE [M EXCEPT !.buffed = x]
    BY <1>2 DEF ApplyBuff
  <2> HIDE DEF added
  <2>2. Alike(L, M) /\ Shaped(M) /\ Alike(L, [L EXCEPT !.body[t].effects = added.list])
    BY <1>2, SetEffectsAlike, AlikeIsShaped
  <2> HIDE DEF M, x
  <2>3. Alike(M, [M EXCEPT !.buffed = x])
    BY <2>2, SidesAlike
  <2>4. Alike(L, [M EXCEPT !.buffed = x])
    BY <2>2, <2>3, AlikeTrans
  <2> QED BY <2>1, <2>2, <2>4
<1> QED BY <1>1, <1>2

(* What a skill does to its target neither begins a cast nor takes MP. *)
LEMMA SkillEffectsAlike ==
  ASSUME NEW L, Shaped(L), NEW p \in Players, NEW t, NEW s, NEW level, here \subseteq Players, clock \in Nat
  PROVE  Alike(L, ApplySkillEffects(L, p, t, s, level))
BY ApplyBuffAlike, TeleportAlike, RestoreAlike, StrikeAlike DEF ApplySkillEffects

LEMMA ToggleOffAlike ==
  ASSUME NEW L, Shaped(L), NEW p \in Players, NEW s
  PROVE  Alike(L, ToggleOff(L, p, s))
<1>1. CASE ~HasSkill(L.body[p].effects, s)
  BY <1>1, AlikeRefl DEF ToggleOff
<1>2. CASE HasSkill(L.body[p].effects, s)
  <2> DEFINE left == WithoutSkill(L.body[p].effects, s)
             M == SetEffects(L, p, left)
             x == IF left = {} THEN M.buffed \ {p} ELSE M.buffed
  <2>1. ToggleOff(L, p, s) = [M EXCEPT !.buffed = x]
    BY <1>2 DEF ToggleOff
  <2> HIDE DEF left
  <2>2. Alike(L, M) /\ Shaped(M)
    BY SetEffectsAlike, AlikeIsShaped
  <2> HIDE DEF M, x
  <2>3. Alike(M, [M EXCEPT !.buffed = x])
    BY <2>2, SidesAlike
  <2> QED BY <2>1, <2>2, <2>3, AlikeTrans
<1> QED BY <1>1, <1>2

-----------------------------------------------------------------------------
(* The inductive invariant. *)

(* A cast in progress is the last of its character: it has not hit and was not
   interrupted, and what it still costs is there. *)
Linked(L) ==
  \A p \in Players :
    LET c == L.body[p].casting
    IN  c # NoCast =>
          /\ c.id \in DOMAIN L.log
          /\ L.log[c.id].who = p /\ L.log[c.id].skill = c.skill
          /\ ~L.log[c.id].aborted /\ L.log[c.id].hits = 0
          /\ L.body[p].mp >= Data[c.skill].mp2
          /\ \A j \in DOMAIN L.log : j > c.id => L.log[j].who # p

(* A hit event is of a cast that was begun, and comes when its time is over. *)
Queued(L) ==
  \A e \in L.events : e.kind = "hit" =>
    /\ e.id \in DOMAIN L.log /\ L.log[e.id].who = e.who
    /\ e.at = L.log[e.id].start + Data[L.log[e.id].skill].cast

HitsOnce(L) ==
  \A i \in DOMAIN L.log :
    LET c == L.log[i]
    IN  c.hits > 0 => /\ c.hits = 1 /\ ~c.aborted
                      /\ c.landed >= c.start + Data[c.skill].cast

(* The cooldown of what has landed is still with the loop. *)
Cooled(L) ==
  \A i \in DOMAIN L.log :
    LET c == L.log[i]
    IN  c.hits > 0 /\ ~c.cleared =>
          /\ c.landed <= clock
          /\ Data[c.skill].reuse # 0 => L.ready[c.who][c.skill] >= c.landed + Data[c.skill].reuse

Spaced(L) ==
  \A i, j \in DOMAIN L.log :
    LET c == L.log[i]   d == L.log[j]
    IN  i < j /\ c.who = d.who /\ c.skill = d.skill /\ c.hits > 0 /\ ~c.cleared
        => d.start >= c.landed + Data[c.skill].reuse

Beats(L) ==
  \A p \in Players : L.pending[p].skill # NoSkill =>
    \E e \in L.events : e.kind = "approach" /\ e.who = p /\ e.skill = L.pending[p].skill

Fine(L) == /\ Shaped(L) /\ Linked(L) /\ Queued(L) /\ HitsOnce(L)
           /\ Cooled(L) /\ Spaced(L) /\ Beats(L)

LoopParts == {"buffed", "flagged", "pending", "intent", "events", "ready", "computing"}
Memory    == {"log", "lost", "mixed"}

EffectsInv == /\ here \subseteq Players /\ clock \in Nat
              /\ DOMAIN S = LoopParts /\ DOMAIN h = Memory
              /\ Fine(L0)

-----------------------------------------------------------------------------
(* What keeps the invariant. *)

(* Nothing is begun or lands: casts go on or end, events of hits only go. *)
LEMMA CalmIsFine ==
  ASSUME NEW L, Fine(L), NEW M, DOMAIN M = Parts, DOMAIN M.body = Players,
         M.log = L.log, M.ready = L.ready,
         \A p \in Players : /\ IsBody(M.body[p])
                            /\ \/ M.body[p].casting = NoCast
                               \/ M.body[p].casting = L.body[p].casting /\ M.body[p].mp >= L.body[p].mp,
         M.pending \in [Players -> [skill : Skills \union {NoSkill}, ctrl : BOOLEAN]],
         M.events \subseteq Event, \A e \in M.events : e.kind = "hit" => e \in L.events,
         Beats(M)
  PROVE  Fine(M)
<1>1. Shaped(M)
  BY DEF Fine, Shaped
<1>2. Linked(M)
  <2> SUFFICES ASSUME NEW p \in Players, M.body[p].casting # NoCast
               PROVE  LET c == M.body[p].casting
                      IN  /\ c.id \in DOMAIN M.log
                          /\ M.log[c.id].who = p /\ M.log[c.id].skill = c.skill
                          /\ ~M.log[c.id].aborted /\ M.log[c.id].hits = 0
                          /\ M.body[p].mp >= Data[c.skill].mp2
                          /\ \A j \in DOMAIN M.log : j > c.id => M.log[j].who # p
    BY DEF Linked
  <2> DEFINE c == L.body[p].casting
  <2>1. M.body[p].casting = c /\ M.body[p].mp >= L.body[p].mp /\ c # NoCast
    OBVIOUS
  <2>2. /\ c.id \in DOMAIN L.log
        /\ L.log[c.id].who = p /\ L.log[c.id].skill = c.skill
        /\ ~L.log[c.id].aborted /\ L.log[c.id].hits = 0
        /\ L.body[p].mp >= Data[c.skill].mp2
        /\ \A j \in DOMAIN L.log : j > c.id => L.log[j].who # p
    BY <2>1 DEF Fine, Linked
  <2>3. L.body[p].mp \in Nat /\ M.body[p].mp \in Nat /\ c.skill \in Skills
    <3>1. L.log[c.id] \in Cast
      BY <2>2, ElementOfSeq DEF Fine, Shaped
    <3> QED BY <2>2, <3>1 DEF Fine, Shaped, IsBody, Cast
  <2>4. Data[c.skill].mp2 \in Nat
    BY <2>3, EffectsAssumption DEF SkillTemplate
  <2>5. M.body[p].mp >= Data[c.skill].mp2
    BY <2>1, <2>2, <2>3, <2>4
  <2> QED BY <2>1, <2>2, <2>5
<1>3. Queued(M) /\ HitsOnce(M) /\ Cooled(M) /\ Spaced(M)
  BY DEF Fine, Queued, HitsOnce, Cooled, Spaced
<1> QED BY <1>1, <1>2, <1>3 DEF Fine

LEMMA AlikeIsFine == \A L, M : Fine(L) /\ Alike(L, M) => Fine(M)
<1> SUFFICES ASSUME NEW L, NEW M, Fine(L), Alike(L, M) PROVE Fine(M)
  OBVIOUS
<1>1. Beats(M)
  BY DEF Fine, Beats, Alike
<1>2. \A p \in Players : /\ IsBody(M.body[p])
                         /\ M.body[p].casting = L.body[p].casting /\ M.body[p].mp >= L.body[p].mp
  BY DEF Alike, Spared
<1>3. /\ M.pending \in [Players -> [skill : Skills \union {NoSkill}, ctrl : BOOLEAN]]
      /\ M.events \subseteq Event /\ \A e \in M.events : e.kind = "hit" => e \in L.events
  BY DEF Fine, Shaped, Alike
<1> QED BY <1>1, <1>2, <1>3, CalmIsFine DEF Alike

LEMMA DataTyped ==
  ASSUME NEW s \in Skills
  PROVE  /\ Data[s].mp1 \in Nat /\ Data[s].mp2 \in Nat /\ Data[s].cast \in Nat /\ Data[s].reuse \in Nat
BY EffectsAssumption DEF SkillTemplate

LEMMA LogTyped ==
  ASSUME NEW L, Shaped(L)
  PROVE  /\ Len(L.log) \in Nat /\ DOMAIN L.log = 1..Len(L.log)
         /\ \A i \in DOMAIN L.log : L.log[i] \in Cast
BY ElementOfSeq, LenProperties DEF Shaped

(* Arming a cooldown only makes it longer. *)
LEMMA ArmedIsFine ==
  ASSUME NEW L, Fine(L), NEW p \in Players, NEW s \in Skills, clock \in Nat
  PROVE  /\ Fine(ArmReuse(L, p, s))
         /\ ArmReuse(L, p, s).body = L.body /\ ArmReuse(L, p, s).log = L.log
         /\ Data[s].reuse # 0 => ArmReuse(L, p, s).ready[p][s] = clock + Data[s].reuse
<1>1. CASE Data[s].reuse = 0
  BY <1>1 DEF ArmReuse
<1>2. CASE Data[s].reuse # 0
  <2> DEFINE v == clock + Data[s].reuse
             r == [L.ready EXCEPT ![p][s] = v]
             M == [L EXCEPT !.ready = r]
  <2>1. ArmReuse(L, p, s) = M /\ v \in Nat
    BY <1>2, DataTyped DEF ArmReuse
  <2>2. L.ready \in [Players -> [Skills -> Nat]] /\ DOMAIN L = Parts
    BY DEF Fine, Shaped
  <2> HIDE DEF v
  <2>3. /\ r \in [Players -> [Skills -> Nat]] /\ r[p][s] = v
        /\ \A q \in Players, k \in Skills : ~(q = p /\ k = s) => r[q][k] = L.ready[q][k]
    BY <2>1, <2>2
  <2> HIDE DEF r
  <2>4. /\ DOMAIN M = Parts /\ M.body = L.body /\ M.log = L.log /\ M.events = L.events
        /\ M.pending = L.pending /\ M.ready = r
    BY <2>2 DEF Parts
  <2> HIDE DEF M
  <2>5. Shaped(M) /\ Linked(M) /\ Queued(M) /\ HitsOnce(M) /\ Spaced(M) /\ Beats(M)
    <3>1. Shaped(L) /\ Linked(L) /\ Queued(L) /\ HitsOnce(L) /\ Spaced(L) /\ Beats(L)
      BY DEF Fine
    <3>2. Shaped(M)
      BY <2>3, <2>4, <3>1 DEF Shaped
    <3>3. Linked(M) /\ Queued(M)
      <4>1. Linked(M)
        BY <2>4, <3>1 DEF Linked
      <4>2. Queued(M)
        BY <2>4, <3>1 DEF Queued
      <4> QED BY <4>1, <4>2
    <3>4. HitsOnce(M) /\ Spaced(M) /\ Beats(M)
      BY <2>4, <3>1 DEF HitsOnce, Spaced, Beats
    <3> QED BY <3>2, <3>3, <3>4
  <2>6. Cooled(M)
    <3> SUFFICES ASSUME NEW i \in DOMAIN L.log, L.log[i].hits > 0, ~L.log[i].cleared
                 PROVE  /\ L.log[i].landed <= clock
                        /\ Data[L.log[i].skill].reuse # 0 =>
                             r[L.log[i].who][L.log[i].skill] >= L.log[i].landed + Data[L.log[i].skill].reuse
      BY <2>4 DEF Cooled
    <3> DEFINE c == L.log[i]
    <3>1. c \in Cast
      BY LogTyped DEF Fine
    <3>2. c.who \in Players /\ c.skill \in Skills /\ c.landed \in Nat /\ Data[c.skill].reuse \in Nat
      BY <3>1, DataTyped DEF Cast
    <3>3. /\ c.landed <= clock
          /\ Data[c.skill].reuse # 0 => L.ready[c.who][c.skill] >= c.landed + Data[c.skill].reuse
      BY DEF Fine, Cooled
    <3> HIDE DEF c
    <3>4. CASE c.who = p /\ c.skill = s
      BY <3>2, <3>3, <3>4, <2>3 DEF v, c
    <3>5. CASE ~(c.who = p /\ c.skill = s)
      BY <3>2, <3>3, <3>5, <2>3 DEF c
    <3> QED BY <3>4, <3>5 DEF c
  <2> QED BY <2>1, <2>3, <2>4, <2>5, <2>6 DEF Fine, v
<1> QED BY <1>1, <1>2

(* One cast of the log changes, and stays the cast it was. *)
LEMMA LogUpdate ==
  ASSUME NEW L, Shaped(L), NEW id \in DOMAIN L.log, NEW d \in Cast
  PROVE  LET N == [L.log EXCEPT ![id] = d]
         IN  /\ N \in Seq(Cast) /\ DOMAIN N = DOMAIN L.log
             /\ N[id] = d /\ \A i \in DOMAIN L.log : i # id => N[i] = L.log[i]
<1> DEFINE N == [L.log EXCEPT ![id] = d]
<1>1. N \in Seq(Cast)
  BY ExceptSeq DEF Shaped
<1>2. DOMAIN N = DOMAIN L.log /\ N[id] = d /\ \A i \in DOMAIN L.log : i # id => N[i] = L.log[i]
  OBVIOUS
<1> QED BY <1>1, <1>2

(* An interrupted cast has not hit. *)
LEMMA AbortIsFine ==
  ASSUME NEW L, Fine(L), NEW p \in Players
  PROVE  Fine(AbortCast(L, p)) /\ AbortCast(L, p).pending = L.pending /\ AbortCast(L, p).events = L.events
<1> DEFINE id == L.body[p].casting.id
<1>1. CASE p \notin here \/ id = 0
  BY <1>1 DEF AbortCast
<1>2. CASE p \in here /\ id # 0
  <2> DEFINE c == L.body[p].casting
             b == [L.body[p] EXCEPT !.casting = NoCast]
             d == [L.log[id] EXCEPT !.aborted = TRUE]
             N == [L.log EXCEPT ![id] = d]
             M == [L EXCEPT !.body = [L.body EXCEPT ![p] = b], !.log = N]
  <2>1. AbortCast(L, p) = M
    BY <1>2 DEF AbortCast
  <2>2. c # NoCast
    BY <1>2 DEF NoCast
  <2>3. id \in DOMAIN L.log /\ L.log[id].who = p /\ L.log[id].hits = 0
    BY <2>2 DEF Fine, Linked
  <2>4. Shaped(L) /\ L.log[id] \in Cast
    BY <2>3, LogTyped DEF Fine
  <2>5. /\ d \in Cast /\ d.who = p /\ d.hits = 0 /\ d.skill = L.log[id].skill
        /\ d.start = L.log[id].start
    BY <2>3, <2>4 DEF Cast
  <2>6. IsBody(b) /\ b.casting = NoCast /\ IsBody(L.body[p])
    BY <2>4 DEF Shaped, IsBody, Fields
  <2> HIDE DEF d
  <2>7. /\ N \in Seq(Cast) /\ DOMAIN N = DOMAIN L.log
        /\ N[id] = d /\ \A i \in DOMAIN L.log : i # id => N[i] = L.log[i]
    BY <2>3, <2>4, <2>5, LogUpdate
  <2> HIDE DEF b, N
  <2>8. /\ DOMAIN M = Parts /\ DOMAIN M.body = Players /\ M.body[p] = b
        /\ \A q \in Players : q # p => M.body[q] = L.body[q]
        /\ M.log = N /\ M.events = L.events /\ M.pending = L.pending /\ M.ready = L.ready
    BY <2>4 DEF Shaped, Parts
  <2> HIDE DEF M
  <2>9. Shaped(M) /\ Beats(M)
    <3>1. \A q \in Players : IsBody(M.body[q])
      BY <2>4, <2>6, <2>8 DEF Shaped
    <3>2. Shaped(M)
      BY <2>4, <2>7, <2>8, <3>1 DEF Shaped
    <3> QED BY <2>8, <3>2 DEF Fine, Beats
  <2>10. Linked(M)
    <3> SUFFICES ASSUME NEW q \in Players, M.body[q].casting # NoCast
                 PROVE  LET k == M.body[q].casting
                        IN  /\ k.id \in DOMAIN M.log
                            /\ M.log[k.id].who = q /\ M.log[k.id].skill = k.skill
                            /\ ~M.log[k.id].aborted /\ M.log[k.id].hits = 0
                            /\ M.body[q].mp >= Data[k.skill].mp2
                            /\ \A j \in DOMAIN M.log : j > k.id => M.log[j].who # q
      BY DEF Linked
    <3> DEFINE k == L.body[q].casting
    <3>1. q # p /\ M.body[q] = L.body[q]
      BY <2>6, <2>8
    <3>2. /\ k.id \in DOMAIN L.log
          /\ L.log[k.id].who = q /\ L.log[k.id].skill = k.skill
          /\ ~L.log[k.id].aborted /\ L.log[k.id].hits = 0
          /\ L.body[q].mp >= Data[k.skill].mp2
          /\ \A j \in DOMAIN L.log : j > k.id => L.log[j].who # q
      BY <3>1 DEF Fine, Linked
    <3>3. k.id # id
      BY <3>1, <3>2, <2>3
    <3>4. \A j \in DOMAIN N : N[j].who = L.log[j].who
      BY <2>3, <2>5, <2>7
    <3> HIDE DEF id, c, k
    <3> QED BY SMTT(30), <3>1, <3>2, <3>3, <3>4, <2>7, <2>8 DEF k
  <2> HIDE DEF id, c
  <2>11. Queued(M)
    BY <2>3, <2>5, <2>7, <2>8 DEF Fine, Queued
  <2>12. HitsOnce(M)
    BY <2>3, <2>5, <2>7, <2>8 DEF Fine, HitsOnce
  <2>13. Cooled(M)
    BY <2>3, <2>5, <2>7, <2>8 DEF Fine, Cooled
  <2>14. Spaced(M)
    BY <2>3, <2>5, <2>7, <2>8 DEF Fine, Spaced
  <2> QED BY <2>1, <2>8, <2>9, <2>10, <2>11, <2>12, <2>13, <2>14 DEF Fine
<1> QED BY <1>1, <1>2

(* A cast lands: it is the last of its character, its time is over, its cooldown
   is armed. *)
LEMMA LandedIsFine ==
  ASSUME NEW L, Fine(L), NEW id \in DOMAIN L.log, NEW a \in Nat, clock \in Nat,
         ~L.log[id].aborted, L.log[id].hits = 0,
         clock >= L.log[id].start + Data[L.log[id].skill].cast,
         Data[L.log[id].skill].reuse # 0 =>
           L.ready[L.log[id].who][L.log[id].skill] >= clock + Data[L.log[id].skill].reuse,
         L.body[L.log[id].who].casting = NoCast,
         \A j \in DOMAIN L.log : j > id => L.log[j].who # L.log[id].who
  PROVE  Fine([L EXCEPT !.log[id].hits = @ + 1, !.log[id].landed = clock, !.log[id].answer = a])
<1> DEFINE c == L.log[id]
           d == [c EXCEPT !.hits = 1, !.landed = clock, !.answer = a]
           N == [L.log EXCEPT ![id] = d]
           M == [L EXCEPT !.log = N]
<1>1. Shaped(L) /\ c \in Cast /\ DOMAIN L = Parts
  BY LogTyped DEF Fine, Shaped
<1>2. [L EXCEPT !.log[id].hits = @ + 1, !.log[id].landed = clock, !.log[id].answer = a] = M
  <2>1. L.log[id].hits + 1 = 1
    OBVIOUS
  <2> QED BY <2>1
<1>3. /\ d \in Cast /\ d.who = c.who /\ d.skill = c.skill /\ d.hits = 1 /\ d.start = c.start
      /\ d.landed = clock /\ ~d.aborted
  BY <1>1 DEF Cast
<1>4. c.who \in Players /\ c.skill \in Skills /\ c.start \in Nat /\ c.hits = 0
  BY <1>1 DEF Cast
<1> HIDE DEF d
<1>5. /\ N \in Seq(Cast) /\ DOMAIN N = DOMAIN L.log
      /\ N[id] = d /\ \A i \in DOMAIN L.log : i # id => N[i] = L.log[i]
  BY <1>1, <1>3, LogUpdate
<1> HIDE DEF N
<1>6. /\ DOMAIN M = Parts /\ M.body = L.body
      /\ M.log = N /\ M.events = L.events /\ M.pending = L.pending /\ M.ready = L.ready
  BY <1>1 DEF Parts
<1> HIDE DEF M
<1>7. Shaped(M) /\ Beats(M)
  BY <1>1, <1>5, <1>6 DEF Fine, Shaped, Beats
<1>8. Linked(M)
  <2> SUFFICES ASSUME NEW q \in Players, L.body[q].casting # NoCast
               PROVE  LET k == L.body[q].casting
                      IN  /\ k.id \in DOMAIN N
                          /\ N[k.id].who = q /\ N[k.id].skill = k.skill
                          /\ ~N[k.id].aborted /\ N[k.id].hits = 0
                          /\ L.body[q].mp >= Data[k.skill].mp2
                          /\ \A j \in DOMAIN N : j > k.id => N[j].who # q
    BY <1>6 DEF Linked
  <2> DEFINE k == L.body[q].casting
  <2>1. /\ k.id \in DOMAIN L.log
        /\ L.log[k.id].who = q /\ L.log[k.id].skill = k.skill
        /\ ~L.log[k.id].aborted /\ L.log[k.id].hits = 0
        /\ L.body[q].mp >= Data[k.skill].mp2
        /\ \A j \in DOMAIN L.log : j > k.id => L.log[j].who # q
    BY DEF Fine, Linked
  <2>2. k.id # id
    BY <2>1
  <2>3. \A j \in DOMAIN N : N[j].who = L.log[j].who
    BY <1>3, <1>5
  <2> HIDE DEF k, c
  <2> QED BY <2>1, <2>2, <2>3, <1>5 DEF k
<1>9. Queued(M)
  BY <1>3, <1>5, <1>6 DEF Fine, Queued
<1>10. HitsOnce(M)
  BY <1>3, <1>4, <1>5, <1>6 DEF Fine, HitsOnce
<1>11. Cooled(M)
  BY <1>3, <1>4, <1>5, <1>6 DEF Fine, Cooled
<1>12. Spaced(M)
  BY <1>3, <1>4, <1>5, <1>6 DEF Fine, Spaced
<1> QED BY <1>2, <1>6, <1>7, <1>8, <1>9, <1>10, <1>11, <1>12 DEF Fine

(* A cast begins: its caster casts nothing else, can pay for the hit, and the
   cooldown of the skill is over. *)
LEMMA BegunIsFine ==
  ASSUME NEW L, Fine(L), NEW p \in Players, NEW t \in Objects, NEW s \in Skills, NEW c,
         NEW fair \in BOOLEAN, clock \in Nat,
         L.body[p].casting = NoCast, L.body[p].mp >= Data[s].mp2, L.ready[p][s] <= clock,
         c = [who |-> p, skill |-> s, target |-> t, start |-> clock, hits |-> 0, landed |-> 0,
              aborted |-> FALSE, cleared |-> FALSE, fair |-> fair, answer |-> 0],
         NEW e, e = [kind |-> "hit", at |-> clock + Data[s].cast, who |-> p, target |-> t, skill |-> s,
                     ctrl |-> FALSE, id |-> Len(L.log) + 1]
  PROVE  Fine([L EXCEPT !.body[p].casting = [id |-> Len(L.log) + 1, skill |-> s, target |-> t],
                        !.events = @ \union {e}, !.log = Append(@, c)])
<1> DEFINE id == Len(L.log) + 1
           k == [id |-> id, skill |-> s, target |-> t]
           b == [L.body[p] EXCEPT !.casting = k]
           E == L.events \union {e}
           N == Append(L.log, c)
           M == [L EXCEPT !.body = [L.body EXCEPT ![p] = b], !.events = E, !.log = N]
<1>1. Shaped(L) /\ DOMAIN L = Parts /\ Data[s].cast \in Nat
  BY DataTyped DEF Fine, Shaped
<1>2. [L EXCEPT !.body[p].casting = k, !.events = @ \union {e}, !.log = Append(@, c)] = M
  OBVIOUS
<1>3. /\ Len(L.log) \in Nat /\ DOMAIN L.log = 1..Len(L.log)
      /\ \A i \in DOMAIN L.log : L.log[i] \in Cast
  BY <1>1, LogTyped
<1>4. /\ c \in Cast /\ c.who = p /\ c.skill = s /\ c.hits = 0 /\ ~c.aborted /\ c.start = clock
  BY DEF Cast
<1>5. e \in Event /\ e.kind = "hit" /\ e.id = id /\ e.who = p /\ e.at = clock + Data[s].cast
  BY <1>1, <1>3 DEF Event
<1>6. /\ N \in Seq(Cast) /\ DOMAIN N = 1..id /\ N[id] = c
      /\ \A i \in DOMAIN L.log : N[i] = L.log[i]
  BY <1>1, <1>3, <1>4, AppendProperties DEF Shaped
<1>7. k # NoCast /\ k.id = id /\ k.skill = s
  BY <1>3 DEF NoCast
<1>8. IsBody(b) /\ b.casting = k /\ b.mp = L.body[p].mp
  BY <1>1 DEF Shaped, IsBody, Fields
<1> HIDE DEF b, k, N, E
<1>9. /\ DOMAIN M = Parts /\ DOMAIN M.body = Players /\ M.body[p] = b
      /\ \A q \in Players : q # p => M.body[q] = L.body[q]
      /\ M.log = N /\ M.events = E /\ M.pending = L.pending /\ M.ready = L.ready
  BY <1>1 DEF Shaped, Parts
<1> HIDE DEF M
<1>10. Shaped(M)
  <2>1. \A q \in Players : IsBody(M.body[q])
    BY <1>1, <1>8, <1>9 DEF Shaped
  <2>2. E \subseteq Event
    BY <1>1, <1>5 DEF Shaped, E
  <2> QED BY <1>1, <1>6, <1>9, <2>1, <2>2 DEF Shaped
<1>11. Beats(M)
  BY <1>9 DEF Fine, Beats, E
<1>12. Linked(M)
  <2>1. ASSUME NEW q \in Players, M.body[q].casting # NoCast
        PROVE  LET m == M.body[q].casting
               IN  /\ m.id \in DOMAIN N
                   /\ N[m.id].who = q /\ N[m.id].skill = m.skill
                   /\ ~N[m.id].aborted /\ N[m.id].hits = 0
                   /\ M.body[q].mp >= Data[m.skill].mp2
                   /\ \A j \in DOMAIN N : j > m.id => N[j].who # q
    <3>1. CASE q = p
      <4>1. \A j \in DOMAIN N : ~(j > id)
        BY <1>3, <1>6
      <4>2. id \in DOMAIN N
        BY <1>3, <1>6
      <4> HIDE DEF id
      <4> QED BY <3>1, <4>1, <4>2, <1>4, <1>6, <1>7, <1>8, <1>9
    <3>2. CASE q # p
      <4> DEFINE m == L.body[q].casting
      <4>1. M.body[q] = L.body[q]
        BY <3>2, <1>9
      <4>2. /\ m.id \in DOMAIN L.log
            /\ L.log[m.id].who = q /\ L.log[m.id].skill = m.skill
            /\ ~L.log[m.id].aborted /\ L.log[m.id].hits = 0
            /\ L.body[q].mp >= Data[m.skill].mp2
            /\ \A j \in DOMAIN L.log : j > m.id => L.log[j].who # q
        BY <4>1, <2>1 DEF Fine, Linked
      <4>3. m.id \in DOMAIN N /\ N[m.id] = L.log[m.id]
        BY <4>2, <1>3, <1>6
      <4>4. \A j \in DOMAIN N : j > m.id => N[j].who # q
        <5> TAKE j \in DOMAIN N
        <5>1. j \in DOMAIN L.log \/ j = id
          BY <1>3, <1>6
        <5>2. CASE j = id
          BY <5>2, <3>2, <1>4, <1>6
        <5>3. CASE j \in DOMAIN L.log
          BY <5>3, <4>2, <1>6
        <5> QED BY <5>1, <5>2, <5>3
      <4> QED BY <4>1, <4>2, <4>3, <4>4
    <3> QED BY <3>1, <3>2
  <2> QED BY <2>1, <1>9 DEF Linked
<1>13. DOMAIN N = DOMAIN L.log \union {id} /\ id \notin DOMAIN L.log
  BY <1>3, <1>6
<1>14. Queued(M)
  <2> SUFFICES ASSUME NEW x \in E, x.kind = "hit"
               PROVE  /\ x.id \in DOMAIN N /\ N[x.id].who = x.who
                      /\ x.at = N[x.id].start + Data[N[x.id].skill].cast
    BY <1>9 DEF Queued
  <2>1. CASE x = e
    BY <2>1, <1>4, <1>5, <1>6, <1>13
  <2>2. CASE x \in L.events
    BY <2>2, <1>6, <1>13 DEF Fine, Queued
  <2> QED BY <2>1, <2>2 DEF E
<1>15. \A i \in DOMAIN N : N[i].hits > 0 => i \in DOMAIN L.log /\ N[i] = L.log[i]
  <2> TAKE i \in DOMAIN N
  <2>1. CASE i = id
    BY <2>1, <1>4, <1>6
  <2>2. CASE i \in DOMAIN L.log
    BY <2>2, <1>6
  <2> QED BY <2>1, <2>2, <1>13
<1>16. HitsOnce(M)
  BY <1>9, <1>15 DEF Fine, HitsOnce
<1>17. Cooled(M)
  BY <1>9, <1>15 DEF Fine, Cooled
<1>18. Spaced(M)
  <2> SUFFICES ASSUME NEW i \in DOMAIN N, NEW j \in DOMAIN N, i < j, N[i].who = N[j].who,
                      N[i].skill = N[j].skill, N[i].hits > 0, ~N[i].cleared
               PROVE  N[j].start >= N[i].landed + Data[N[i].skill].reuse
    BY <1>9 DEF Spaced
  <2>1. i \in DOMAIN L.log /\ N[i] = L.log[i]
    BY <1>3, <1>4, <1>6
  <2>2. CASE j \in DOMAIN L.log
    BY <2>1, <2>2, <1>6 DEF Fine, Spaced
  <2>3. CASE j = id
    <3>1. L.log[i].who = p /\ L.log[i].skill = s /\ L.log[i].landed \in Nat
      BY <2>1, <2>3, <1>3, <1>4, <1>6 DEF Cast
    <3>2. /\ L.log[i].landed <= clock
          /\ Data[s].reuse # 0 => L.ready[p][s] >= L.log[i].landed + Data[s].reuse
      BY <2>1, <3>1 DEF Fine, Cooled
    <3>3. L.ready[p][s] \in Nat /\ Data[s].reuse \in Nat
      BY <1>1, DataTyped DEF Shaped
    <3>4. clock >= L.log[i].landed + Data[s].reuse
      BY <3>1, <3>2, <3>3
    <3> QED BY <2>1, <2>3, <3>1, <3>4, <1>4, <1>6
  <2> QED BY <2>2, <2>3, <1>13
<1> QED BY <1>2, <1>9, <1>10, <1>11, <1>12, <1>14, <1>16, <1>17, <1>18 DEF Fine, k

(* An entry that goes needs no heartbeat. *)
LEMMA ForgetIsFine ==
  ASSUME NEW L, Fine(L), NEW p \in Players
  PROVE  Fine([L EXCEPT !.pending[p] = NoPending])
<1> DEFINE P == [L.pending EXCEPT ![p] = NoPending]
           M == [L EXCEPT !.pending = P]
<1>1. Shaped(L) /\ DOMAIN L = Parts
  BY DEF Fine, Shaped
<1>2. /\ P \in [Players -> [skill : Skills \union {NoSkill}, ctrl : BOOLEAN]]
      /\ P[p] = NoPending /\ \A q \in Players : q # p => P[q] = L.pending[q]
  BY <1>1 DEF Shaped, NoPending
<1> HIDE DEF P
<1>3. /\ DOMAIN M = Parts /\ M.body = L.body /\ M.log = L.log /\ M.events = L.events
      /\ M.pending = P /\ M.ready = L.ready
  BY <1>1 DEF Parts
<1> HIDE DEF M
<1>4. Beats(M)
  BY <1>2, <1>3 DEF Fine, Beats, NoPending
<1>5. DOMAIN M.body = Players /\ \A q \in Players : IsBody(M.body[q]) /\ M.body[q].mp >= L.body[q].mp
  BY <1>1, <1>3 DEF Shaped, IsBody
<1>6. M.events \subseteq Event
  BY <1>1, <1>3 DEF Shaped
<1>7. Fine(M)
  BY <1>2, <1>3, <1>4, <1>5, <1>6, CalmIsFine
<1> QED BY <1>7 DEF M, P

(* An approach that starts queues its heartbeat. *)
LEMMA ApproachIsFine ==
  ASSUME NEW L, Fine(L), NEW p \in Players, NEW t \in Objects, NEW s \in Skills, NEW ctrl \in BOOLEAN, clock \in Nat
  PROVE  Fine(StartApproach(L, p, t, s, ctrl))
<1>1. CASE L.pending[p].skill = s
  BY <1>1 DEF StartApproach
<1>2. CASE L.pending[p].skill # s
  <2> DEFINE P == [L.pending EXCEPT ![p] = [skill |-> s, ctrl |-> ctrl]]
             b == [L.body[p] EXCEPT !.moving = TRUE]
             B == [L.body EXCEPT ![p] = b]
             I == [L.intent EXCEPT ![p] = "cast"]
             e == [kind |-> "approach", at |-> clock + 1, who |-> p, target |-> t, skill |-> s,
                   ctrl |-> ctrl, id |-> 0]
             E == L.events \union {e}
             M == [L EXCEPT !.pending = P, !.intent = I, !.body = B, !.events = E]
  <2>1. StartApproach(L, p, t, s, ctrl) = M
    BY <1>2 DEF StartApproach
  <2>2. Shaped(L) /\ DOMAIN L = Parts
    BY DEF Fine, Shaped
  <2>3. /\ P \in [Players -> [skill : Skills \union {NoSkill}, ctrl : BOOLEAN]]
        /\ P[p].skill = s /\ \A q \in Players : q # p => P[q] = L.pending[q]
    BY <2>2 DEF Shaped
  <2>4. IsBody(L.body[p]) /\ IsBody(b) /\ b.casting = L.body[p].casting /\ b.mp >= L.body[p].mp
    BY <2>2 DEF Shaped, IsBody, Fields
  <2>5. e \in Event /\ e.kind = "approach" /\ e.who = p /\ e.skill = s
    BY DEF Event
  <2> HIDE DEF P, b, I, e
  <2>6. /\ DOMAIN M = Parts /\ DOMAIN M.body = Players /\ M.body[p] = b
        /\ \A q \in Players : q # p => M.body[q] = L.body[q]
        /\ M.log = L.log /\ M.events = E /\ M.pending = P /\ M.ready = L.ready
    BY <2>2 DEF Shaped, Parts
  <2> HIDE DEF M
  <2>7. Beats(M)
    BY <2>3, <2>5, <2>6 DEF Fine, Beats
  <2>8. \A q \in Players : /\ IsBody(M.body[q]) /\ M.body[q].mp >= L.body[q].mp
                           /\ M.body[q].casting = L.body[q].casting
    <3> TAKE q \in Players
    <3>1. IsBody(L.body[q]) /\ L.body[q].mp \in Nat
      BY <2>2 DEF Shaped, IsBody
    <3>2. CASE q = p
      BY <3>2, <2>4, <2>6
    <3>3. CASE q # p
      BY <3>1, <3>3, <2>6
    <3> QED BY <3>2, <3>3
  <2>9. M.events \subseteq Event /\ \A x \in M.events : x.kind = "hit" => x \in L.events
    BY <2>2, <2>5, <2>6 DEF Shaped
  <2> HIDE DEF B, E
  <2>10. Fine(M)
    BY <2>3, <2>6, <2>7, <2>8, <2>9, CalmIsFine
  <2> QED BY <2>1, <2>10
<1> QED BY <1>1, <1>2

(* MP is spent by one who casts nothing. *)
LEMMA PaidIsFine ==
  ASSUME NEW L, Fine(L), NEW p \in Players, L.body[p].casting = NoCast, NEW n \in Nat
  PROVE  LET M == [L EXCEPT !.body[p].mp = n]
         IN  Fine(M) /\ M.body[p].mp = n /\ M.body[p].casting = NoCast /\ M.body[p].flag = L.body[p].flag
             /\ M.ready = L.ready /\ M.log = L.log
<1> DEFINE b == [L.body[p] EXCEPT !.mp = n]
           M == [L EXCEPT !.body = [L.body EXCEPT ![p] = b]]
<1>1. Shaped(L) /\ DOMAIN L = Parts
  BY DEF Fine, Shaped
<1>2. IsBody(b) /\ b.casting = NoCast /\ b.mp = n /\ b.flag = L.body[p].flag
  BY <1>1 DEF Shaped, IsBody, Fields
<1> HIDE DEF b
<1>3. /\ DOMAIN M = Parts /\ DOMAIN M.body = Players /\ M.body[p] = b
      /\ \A q \in Players : q # p => M.body[q] = L.body[q]
      /\ M.log = L.log /\ M.events = L.events /\ M.pending = L.pending /\ M.ready = L.ready
  BY <1>1 DEF Shaped, Parts
<1> HIDE DEF M
<1>4. Beats(M)
  BY <1>3 DEF Fine, Beats
<1>5. \A q \in Players : /\ IsBody(M.body[q])
                         /\ \/ M.body[q].casting = NoCast
                            \/ M.body[q].casting = L.body[q].casting /\ M.body[q].mp >= L.body[q].mp
  <2> TAKE q \in Players
  <2>1. IsBody(L.body[q]) /\ L.body[q].mp \in Nat
    BY <1>1 DEF Shaped, IsBody
  <2>2. CASE q = p
    BY <2>2, <1>2, <1>3
  <2>3. CASE q # p
    BY <2>1, <2>3, <1>3
  <2> QED BY <2>2, <2>3
<1>6. M.events \subseteq Event /\ M.pending \in [Players -> [skill : Skills \union {NoSkill}, ctrl : BOOLEAN]]
  BY <1>1, <1>3 DEF Shaped
<1>7. Fine(M)
  BY <1>3, <1>4, <1>5, <1>6, CalmIsFine
<1> QED BY <1>2, <1>3, <1>7 DEF M, b

(* Who passes the gate has paid the first part of the cost and has the second. *)
LEMMA GateIsFine ==
  ASSUME NEW L, Fine(L), NEW p \in Players, NEW t, NEW s \in Skills, NEW ctrl,
         L.body[p].casting = NoCast, clock \in Nat
  PROVE  LET g == Gate(L, p, t, s, ctrl)
         IN  /\ Fine(g.L)
             /\ g.ok => /\ g.L.body[p].casting = NoCast /\ g.L.body[p].mp >= Data[s].mp2
                        /\ g.L.ready = L.ready
<1> DEFINE against == IsOffensive(s) /\ t # p /\ t \in here
           F == IF against /\ ~Provoked(p, t) /\ ctrl THEN SetFlag(L, p) ELSE L
           n == F.body[p].mp - Data[s].mp1
           N == [F EXCEPT !.body[p].mp = n]
           g == Gate(L, p, t, s, ctrl)
<1>1. Shaped(L) /\ Alike(L, F)
  BY SetFlagAlike, AlikeRefl DEF Fine
<1>2. g = IF against /\ ~MayAttack(p, t, ctrl) THEN [ok |-> FALSE, L |-> L]
          ELSE IF L.body[p].mp < MpDue(s) THEN [ok |-> FALSE, L |-> F]
          ELSE [ok |-> TRUE, L |-> N]
  BY DEF Gate
<1> HIDE DEF F, g, against
<1>3. Fine(F) /\ F.body[p].casting = NoCast /\ F.ready = L.ready /\ F.body[p].mp >= L.body[p].mp
      /\ F.body[p].mp \in Nat /\ L.body[p].mp \in Nat
  BY <1>1, AlikeIsFine DEF Alike, Spared, Shaped, IsBody
<1>4. CASE L.body[p].mp >= MpDue(s)
  <2>1. n \in Nat /\ n >= Data[s].mp2
    BY <1>3, <1>4, DataTyped DEF MpDue
  <2> HIDE DEF n
  <2>2. Fine(N) /\ N.body[p].mp = n /\ N.body[p].casting = NoCast /\ N.ready = L.ready
    BY <1>3, <2>1, PaidIsFine
  <2> HIDE DEF N
  <2> QED BY <1>2, <1>3, <2>1, <2>2 DEF g
<1>5. CASE ~(L.body[p].mp >= MpDue(s))
  <2>1. L.body[p].mp < MpDue(s)
    BY <1>3, <1>5, DataTyped DEF MpDue
  <2> QED BY <1>2, <1>3, <2>1 DEF g
<1> QED BY <1>4, <1>5

LEMMA BeginIsFine ==
  ASSUME NEW L, Fine(L), NEW p \in Players, NEW t \in Objects, NEW s \in Skills, NEW ctrl,
         here \subseteq Players, clock \in Nat,
         L.body[p].casting = NoCast, L.body[p].mp >= Data[s].mp2, L.ready[p][s] <= clock
  PROVE  Fine(Begin(L, p, t, s, ctrl))
<1>1. CASE Data[s].kind = "toggle"
  <2> DEFINE A == ApplySkillEffects(L, p, t, s, Known[p][s])
  <2>1. Fine(A)
    BY SkillEffectsAlike, AlikeIsFine DEF Fine
  <2> HIDE DEF A
  <2>2. Fine(ArmReuse(A, p, s))
    BY <2>1, ArmedIsFine
  <2> QED BY <1>1, <2>2 DEF Begin, A
<1>2. CASE Data[s].kind # "toggle"
  <2> DEFINE fair == t \notin here \/ Provoked(p, t)
             c == [who |-> p, skill |-> s, target |-> t, start |-> clock, hits |-> 0, landed |-> 0,
                   aborted |-> FALSE, cleared |-> FALSE, fair |-> fair, answer |-> 0]
             e == [kind |-> "hit", at |-> clock + Data[s].cast, who |-> p, target |-> t, skill |-> s,
                   ctrl |-> FALSE, id |-> Len(L.log) + 1]
             M == [L EXCEPT !.body[p].casting = [id |-> Len(L.log) + 1, skill |-> s, target |-> t],
                            !.events = @ \union {e}, !.log = Append(@, c)]
  <2>1. Begin(L, p, t, s, ctrl) = M
    BY <1>2 DEF Begin
  <2>2. fair \in BOOLEAN
    BY DEF Provoked, Flagged
  <2> HIDE DEF fair
  <2>3. Fine(M)
    BY <2>2, BegunIsFine
  <2> HIDE DEF M
  <2> QED BY <2>1, <2>3
<1> QED BY <1>1, <1>2

LEMMA TargetTyped ==
  ASSUME Fine(L0), NEW p \in Players, NEW s \in Skills
  PROVE  CastTarget(p, s) \in Objects \union {Nobody}
<1>1. body[p].target \in Objects \union {Nobody}
  BY DEF Fine, Shaped, IsBody, L0
<1> QED BY <1>1 DEF CastTarget, Objects

LEMMA TryCastIsFine ==
  ASSUME NEW L, Fine(L), Fine(L0), NEW p \in Players, NEW s \in Skills, NEW ctrl \in BOOLEAN,
         here \subseteq Players, clock \in Nat
  PROVE  Fine(TryCast(L, p, s, ctrl))
<1> DEFINE t == CastTarget(p, s)
           R == [L EXCEPT !.pending[p] = NoPending]
           g == Gate(R, p, t, s, ctrl)
<1>1. TryCast(L, p, s, ctrl) =
        IF ~Castable(L, p, s) THEN L
        ELSE IF Data[s].kind = "toggle" /\ HasSkill(L.body[p].effects, s) THEN ToggleOff(L, p, s)
        ELSE IF clock < L.ready[p][s] \/ t = Nobody THEN L
        ELSE IF ~InRange(p, t, s) THEN StartApproach(L, p, t, s, ctrl)
        ELSE IF ~g.ok THEN g.L
        ELSE Begin(g.L, p, t, s, ctrl)
  BY DEF TryCast
<1>2. t \in Objects \union {Nobody}
  BY TargetTyped
<1>3. Fine(R) /\ R.body = L.body /\ R.ready = L.ready
  <2>1. DOMAIN L = Parts
    BY DEF Fine, Shaped
  <2> QED BY <2>1, ForgetIsFine DEF Parts
<1> HIDE DEF t, R
<1>4. Fine(ToggleOff(L, p, s))
  BY ToggleOffAlike, AlikeIsFine DEF Fine
<1>5. t # Nobody => Fine(StartApproach(L, p, t, s, ctrl))
  BY <1>2, ApproachIsFine
<1>6. ASSUME Castable(L, p, s)
      PROVE  /\ Fine(g.L)
             /\ g.ok => /\ g.L.body[p].casting = NoCast /\ g.L.body[p].mp >= Data[s].mp2
                        /\ g.L.ready = R.ready
  <2>1. R.body[p].casting = NoCast
    BY <1>3, <1>6 DEF Castable
  <2> QED BY <1>3, <2>1, GateIsFine
<1> HIDE DEF g
<1>7. ASSUME Castable(L, p, s), t # Nobody, ~(clock < L.ready[p][s]), g.ok
      PROVE  Fine(Begin(g.L, p, t, s, ctrl))
  <2>1. L.ready[p][s] \in Nat
    BY DEF Fine, Shaped
  <2>2. g.L.ready[p][s] <= clock
    BY <1>3, <1>6, <1>7, <2>1
  <2> QED BY <1>2, <1>6, <1>7, <2>2, BeginIsFine
<1> QED BY <1>1, <1>4, <1>5, <1>6, <1>7

-----------------------------------------------------------------------------
(* The events of the loop. *)

LEMMA LoopParts0 ==
  /\ DOMAIN L0 = Parts /\ L0.body = body /\ L0.pending = S.pending /\ L0.events = S.events
  /\ L0.ready = S.ready /\ L0.log = h.log /\ L0.near = near /\ L0.intent = S.intent
BY DEF L0, Parts

(* An event is handled, and another one may be queued. The entry of its character
   goes when it was the heartbeat of that entry. *)
LEMMA HandledIsFine ==
  ASSUME NEW L, Fine(L), NEW e \in L.events, NEW M, DOMAIN M = Parts,
         M.body = L.body, M.ready = L.ready, M.log = L.log, M.events = L.events \ {e},
         \/ M.pending = [L.pending EXCEPT ![e.who] = NoPending]
         \/ M.pending = L.pending /\ (e.kind = "hit" \/ L.pending[e.who].skill # e.skill)
  PROVE  Fine(M)
<1>1. Shaped(L) /\ e \in Event /\ e.who \in Players
  BY DEF Fine, Shaped, Event
<1>2. M.pending \in [Players -> [skill : Skills \union {NoSkill}, ctrl : BOOLEAN]]
  <2> DEFINE T == [skill : Skills \union {NoSkill}, ctrl : BOOLEAN]
  <2>1. NoPending \in T
    BY DEF NoPending
  <2>2. L.pending \in [Players -> T]
    BY <1>1 DEF Shaped
  <2> HIDE DEF T
  <2>3. M.pending \in [Players -> T]
    BY <1>1, <2>1, <2>2
  <2> QED BY <2>3 DEF T
<1>3. ASSUME NEW q \in Players, M.pending[q].skill # NoSkill
      PROVE  \E x \in M.events : x.kind = "approach" /\ x.who = q /\ x.skill = M.pending[q].skill
  <2>1. M.pending[q] = L.pending[q] /\ (q # e.who \/ e.kind = "hit" \/ L.pending[q].skill # e.skill)
    BY <1>1, <1>3 DEF Shaped, NoPending
  <2>2. PICK x \in L.events : x.kind = "approach" /\ x.who = q /\ x.skill = L.pending[q].skill
    BY <1>3, <2>1 DEF Fine, Beats
  <2>3. x # e
    BY <2>1, <2>2
  <2> QED BY <2>1, <2>2, <2>3
<1>4. Beats(M)
  BY <1>3 DEF Beats
<1>5. \A q \in Players : IsBody(M.body[q]) /\ M.body[q].mp >= L.body[q].mp
  BY <1>1 DEF Shaped, IsBody
<1>6. M.events \subseteq Event /\ DOMAIN M.body = Players
  BY <1>1 DEF Shaped
<1> QED BY <1>2, <1>4, <1>5, <1>6, CalmIsFine

(* A cast that is over leaves its character free. *)
LEMMA FreedIsFine ==
  ASSUME NEW L, Fine(L), NEW p \in Players
  PROVE  LET M == [L EXCEPT !.body[p].casting = NoCast]
         IN  /\ Fine(M) /\ M.body[p].casting = NoCast /\ M.body[p].flag = L.body[p].flag
             /\ M.body[p].mp = L.body[p].mp /\ M.log = L.log /\ M.ready = L.ready
<1> DEFINE b == [L.body[p] EXCEPT !.casting = NoCast]
           M == [L EXCEPT !.body = [L.body EXCEPT ![p] = b]]
<1>1. Shaped(L) /\ DOMAIN L = Parts
  BY DEF Fine, Shaped
<1>2. IsBody(b) /\ b.casting = NoCast /\ b.mp = L.body[p].mp /\ b.flag = L.body[p].flag
  BY <1>1 DEF Shaped, IsBody, Fields
<1> HIDE DEF b
<1>3. /\ DOMAIN M = Parts /\ DOMAIN M.body = Players /\ M.body[p] = b
      /\ \A q \in Players : q # p => M.body[q] = L.body[q]
      /\ M.log = L.log /\ M.events = L.events /\ M.pending = L.pending /\ M.ready = L.ready
  BY <1>1 DEF Shaped, Parts
<1> HIDE DEF M
<1>4. Beats(M)
  BY <1>3 DEF Fine, Beats
<1>5. \A q \in Players : /\ IsBody(M.body[q])
                         /\ \/ M.body[q].casting = NoCast
                            \/ M.body[q].casting = L.body[q].casting /\ M.body[q].mp >= L.body[q].mp
  <2> TAKE q \in Players
  <2>1. IsBody(L.body[q]) /\ L.body[q].mp \in Nat
    BY <1>1 DEF Shaped, IsBody
  <2>2. CASE q = p
    BY <2>2, <1>2, <1>3
  <2>3. CASE q # p
    BY <2>1, <2>3, <1>3
  <2> QED BY <2>2, <2>3
<1>6. M.events \subseteq Event /\ M.pending \in [Players -> [skill : Skills \union {NoSkill}, ctrl : BOOLEAN]]
  BY <1>1, <1>3 DEF Shaped
<1>7. Fine(M)
  BY <1>3, <1>4, <1>5, <1>6, CalmIsFine
<1> QED BY <1>2, <1>3, <1>7 DEF M, b

(* The hit of a cast: the rest of its cost, its effects, its cooldown. *)
LEMMA LandingIsFine ==
  ASSUME NEW L, Fine(L), NEW p \in Players, NEW c, NEW K, Fine(K), K.log = L.log, K.body[p].casting = c,
         c # NoCast, here \subseteq Players, clock \in Nat,
         L.body[p].casting = NoCast,
         clock >= L.log[c.id].start + Data[L.log[c.id].skill].cast
  PROVE  Fine(Landing(L, p, c))
<1> DEFINE id == c.id
           s == c.skill
           A == PayHit(L, p, s)
           B == ApplySkillEffects(A, p, c.target, s, Known[p][s])
           C == ArmReuse(B, p, s)
           a == L.body[p].flag
<1>1. /\ id \in DOMAIN L.log /\ L.log[id].who = p /\ L.log[id].skill = s
      /\ ~L.log[id].aborted /\ L.log[id].hits = 0
      /\ \A j \in DOMAIN L.log : j > id => L.log[j].who # p
  <2>1. /\ c.id \in DOMAIN K.log /\ K.log[c.id].who = p /\ K.log[c.id].skill = c.skill
        /\ ~K.log[c.id].aborted /\ K.log[c.id].hits = 0
        /\ \A j \in DOMAIN K.log : j > c.id => K.log[j].who # p
    BY DEF Fine, Linked
  <2> HIDE DEF A, B, C, a
  <2> QED BY <2>1
<1>2. s \in Skills
  <2>1. L.log[id] \in Cast
    BY <1>1, LogTyped DEF Fine
  <2> QED BY <1>1, <2>1 DEF Cast
<1>3. Landing(L, p, c) = [C EXCEPT !.log[id].hits = @ + 1, !.log[id].landed = clock, !.log[id].answer = a]
  BY DEF Landing
<1>4. a \in Nat /\ L.body[p].mp \in Nat
  BY DEF Fine, Shaped, IsBody
<1> HIDE DEF id, s, A, B, C, a
<1>5. Fine(A) /\ A.log = L.log /\ A.body[p].casting = NoCast
  <2>1. CASE L.body[p].mp < Data[s].mp2
    BY <2>1 DEF PayHit, A
  <2>2. CASE ~(L.body[p].mp < Data[s].mp2)
    <3> DEFINE n == L.body[p].mp - Data[s].mp2
    <3>1. n \in Nat
      BY <1>2, <1>4, <2>2, DataTyped
    <3>2. A = [L EXCEPT !.body[p].mp = n]
      BY <2>2 DEF PayHit, A
    <3> HIDE DEF n
    <3> QED BY <3>1, <3>2, PaidIsFine
  <2> QED BY <2>1, <2>2
<1>6. Fine(B) /\ B.log = A.log /\ B.body[p].casting = NoCast
  <2>1. Alike(A, B)
    BY <1>5, SkillEffectsAlike DEF Fine, B
  <2> QED BY <1>5, <2>1, AlikeIsFine DEF Alike, Spared
<1>7. /\ Fine(C) /\ C.body = B.body /\ C.log = B.log
      /\ Data[s].reuse # 0 => C.ready[p][s] = clock + Data[s].reuse
  BY <1>2, <1>6, ArmedIsFine DEF C
<1>8. /\ C.log = L.log /\ C.body[p].casting = NoCast
      /\ Data[s].reuse # 0 => C.ready[p][s] >= clock + Data[s].reuse
  BY <1>2, <1>5, <1>6, <1>7, DataTyped
<1>9. clock >= C.log[id].start + Data[C.log[id].skill].cast
  BY <1>8 DEF id
<1>10. /\ id \in DOMAIN C.log /\ ~C.log[id].aborted /\ C.log[id].hits = 0
       /\ Data[C.log[id].skill].reuse # 0 =>
            C.ready[C.log[id].who][C.log[id].skill] >= clock + Data[C.log[id].skill].reuse
       /\ C.body[C.log[id].who].casting = NoCast
       /\ \A j \in DOMAIN C.log : j > id => C.log[j].who # C.log[id].who
  BY <1>1, <1>8
<1>11. Fine([C EXCEPT !.log[id].hits = @ + 1, !.log[id].landed = clock, !.log[id].answer = a])
  BY <1>4, <1>7, <1>9, <1>10, LandedIsFine
<1> QED BY <1>3, <1>11

-----------------------------------------------------------------------------
(* The actions. *)

LEMMA StateFine ==
  ASSUME NEW M, Fine(M), clock' = clock, body' = M.body, h'.log = M.log,
         S'.pending = M.pending, S'.events = M.events, S'.ready = M.ready
  PROVE  Fine(L0)'
<1>1. /\ DOMAIN L0' = Parts /\ L0'.body = M.body /\ L0'.pending = M.pending /\ L0'.events = M.events
      /\ L0'.ready = M.ready /\ L0'.log = M.log
  BY DEF L0, Parts
<1>2. Shaped(M) /\ Linked(M) /\ Queued(M) /\ HitsOnce(M) /\ Cooled(M) /\ Spaced(M) /\ Beats(M)
  BY DEF Fine
<1>3. Shaped(L0)'
  BY <1>1, <1>2 DEF Shaped, IsBody
<1>4. Linked(L0)' /\ Queued(L0)' /\ HitsOnce(L0)'
  <2>1. Linked(L0)'
    BY <1>1, <1>2 DEF Linked
  <2>2. Queued(L0)' /\ HitsOnce(L0)'
    BY <1>1, <1>2 DEF Queued, HitsOnce
  <2> QED BY <2>1, <2>2
<1>5. Cooled(L0)' /\ Spaced(L0)' /\ Beats(L0)'
  BY <1>1, <1>2 DEF Cooled, Spaced, Beats
<1> QED BY <1>3, <1>4, <1>5 DEF Fine

(* A handler of the loop leaves the state it computes. *)
LEMMA BecomeFine ==
  ASSUME EffectsInv, NEW M, Fine(M), Become(M), UNCHANGED <<here, clock>>
  PROVE  EffectsInv'
<1>1. /\ DOMAIN S' = LoopParts /\ DOMAIN h' = Memory
      /\ S'.pending = M.pending /\ S'.events = M.events /\ S'.ready = M.ready /\ h'.log = M.log
      /\ body' = M.body
  BY DEF Become, EffectsInv, LoopParts, Memory
<1>2. Fine(L0)'
  BY <1>1, StateFine
<1> QED BY <1>1, <1>2 DEF EffectsInv

LEMMA BecomeAlike ==
  ASSUME EffectsInv, NEW M, Alike(L0, M), Become(M), UNCHANGED <<here, clock>>
  PROVE  EffectsInv'
BY AlikeIsFine, BecomeFine DEF EffectsInv

(* What the connections do to a character leaves its casts alone. *)
LEMMA BodyStep ==
  ASSUME EffectsInv, NEW B, DOMAIN B = Players, \A p \in Players : Spared(body[p], B[p]), body' = B,
         clock' = clock, h'.log = h.log, DOMAIN h' = Memory, here' \subseteq Players, DOMAIN S' = LoopParts,
         S'.pending = S.pending, S'.events = S.events, S'.ready = S.ready
  PROVE  EffectsInv'
<1> DEFINE M == [L0 EXCEPT !.body = B]
<1>1. /\ DOMAIN M = Parts /\ M.body = B /\ M.pending = S.pending /\ M.events = S.events
      /\ M.ready = S.ready /\ M.log = h.log
  BY LoopParts0 DEF Parts
<1> HIDE DEF M
<1>2. Alike(L0, M)
  BY <1>1, LoopParts0 DEF Alike
<1>3. Fine(M)
  BY <1>2, AlikeIsFine DEF EffectsInv
<1>4. Fine(L0)'
  BY <1>1, <1>3, StateFine
<1> QED BY <1>4 DEF EffectsInv

LEMMA BodyRefl == EffectsInv => DOMAIN body = Players /\ \A p \in Players : IsBody(body[p]) /\ Spared(body[p], body[p])
BY LoopParts0 DEF EffectsInv, Fine, Shaped, Spared, IsBody

LEMMA EffectsInit == Init => EffectsInv
<1> SUFFICES ASSUME Init PROVE EffectsInv
  OBVIOUS
<1>1. /\ here = Players /\ body = [p \in Players |-> FreshBody] /\ clock = 0
      /\ S = LoopInit /\ h = [log |-> <<>>, lost |-> {}, mixed |-> {}]
  BY DEF Init, StartAt
<1>2. DOMAIN S = LoopParts /\ DOMAIN h = Memory
  BY <1>1 DEF LoopInit, LoopParts, Memory
<1>3. /\ L0.log = <<>> /\ L0.events = {} /\ L0.pending = [p \in Players |-> NoPending]
      /\ L0.ready = [p \in Players |-> [s \in Skills |-> 0]] /\ DOMAIN L0 = Parts
      /\ L0.body = [p \in Players |-> FreshBody]
  BY <1>1, LoopParts0 DEF LoopInit
<1>4. IsBody(FreshBody) /\ FreshBody.casting = NoCast
  BY EffectsAssumption DEF FreshBody, RebuildStatMods, IsBody, Fields
<1>5. Shaped(L0)
  <2>1. <<>> \in Seq(Cast)
    BY EmptySeq
  <2>2. NoPending \in [skill : Skills \union {NoSkill}, ctrl : BOOLEAN]
    BY DEF NoPending
  <2> QED BY <1>3, <1>4, <2>1, <2>2 DEF Shaped
<1>6. Linked(L0) /\ Queued(L0) /\ Beats(L0)
  BY <1>3, <1>4 DEF Linked, Queued, Beats, NoPending
<1>7. HitsOnce(L0) /\ Cooled(L0) /\ Spaced(L0)
  <2>1. DOMAIN L0.log = {}
    BY <1>3, LogTyped, <1>5
  <2> QED BY <2>1 DEF HitsOnce, Cooled, Spaced
<1> QED BY <1>1, <1>2, <1>5, <1>6, <1>7 DEF EffectsInv, Fine

LEMMA HitKeeps ==
  ASSUME EffectsInv, NEW e \in S.events, e.at <= clock, CastHit(e), UNCHANGED <<here, clock>>
  PROVE  EffectsInv'
<1> DEFINE p == e.who
           E == S.events \ {e}
           done == [L0 EXCEPT !.events = E]
           free == [done EXCEPT !.body[p].casting = NoCast]
           c == body[p].casting
           M == IF Superseded(e) THEN done ELSE IF body[p].hp = 0 THEN free ELSE Landing(free, p, c)
<1>1. e.kind = "hit" /\ Become(M)
  BY LoopParts0 DEF CastHit
<1>2. p \in Players /\ Fine(L0) /\ here \subseteq Players /\ clock \in Nat /\ DOMAIN body = Players
  BY BodyRefl, LoopParts0 DEF EffectsInv, Fine, Shaped, Event
<1>3. /\ DOMAIN done = Parts /\ done.body = body /\ done.ready = L0.ready /\ done.log = L0.log
      /\ done.events = L0.events \ {e} /\ done.pending = L0.pending
  BY LoopParts0 DEF Parts
<1> HIDE DEF done
<1>4. Fine(done)
  BY <1>1, <1>2, <1>3, LoopParts0, HandledIsFine
<1>5. Fine(free) /\ free.body[p].casting = NoCast /\ free.log = h.log
  BY <1>2, <1>3, <1>4, LoopParts0, FreedIsFine
<1> HIDE DEF free, p
<1>6. ASSUME ~Superseded(e) PROVE Fine(Landing(free, p, c))
  <2>1. c.id = e.id /\ e.id \in DOMAIN h.log /\ e.at = h.log[e.id].start + Data[h.log[e.id].skill].cast
    BY <1>1, <1>2, <1>6, LoopParts0 DEF Superseded, Fine, Queued, p
  <2>2. c # NoCast
    BY <2>1, <1>2, LogTyped, LoopParts0 DEF NoCast, Fine
  <2>3. clock >= h.log[c.id].start + Data[h.log[c.id].skill].cast
    <3>1. h.log[e.id] \in Cast
      BY <2>1, <1>2, LogTyped, LoopParts0 DEF Fine
    <3>2. h.log[e.id].start \in Nat /\ Data[h.log[e.id].skill].cast \in Nat
      BY <3>1, DataTyped DEF Cast
    <3> QED BY <2>1, <3>2, <1>2
  <2>4. done.log = free.log /\ done.body[p].casting = c
    BY <1>3, <1>5, LoopParts0
  <2> HIDE DEF c
  <2> QED BY <1>2, <1>4, <1>5, <2>2, <2>3, <2>4, LandingIsFine
<1>7. Fine(M)
  BY <1>4, <1>5, <1>6
<1> HIDE DEF M
<1> QED BY <1>1, <1>7, BecomeFine

(* The heartbeat that is heard clears its entry. *)
LEMMA ClearedIsFine ==
  ASSUME Fine(L0), NEW e \in S.events, S.pending[e.who].skill = e.skill, NEW done,
         DOMAIN done = Parts, done.body = body, done.ready = L0.ready, done.log = L0.log,
         done.events = L0.events \ {e}, done.pending = S.pending
  PROVE  Fine(ClearPending(done, e.who, e.skill))
<1> DEFINE P == [S.pending EXCEPT ![e.who] = NoPending]
           N == [done EXCEPT !.pending = P]
<1>1. ClearPending(done, e.who, e.skill) = N
  BY DEF ClearPending
<1>2. /\ DOMAIN N = Parts /\ N.body = L0.body /\ N.ready = L0.ready /\ N.log = L0.log
      /\ N.events = L0.events \ {e} /\ N.pending = [L0.pending EXCEPT ![e.who] = NoPending]
  BY LoopParts0 DEF Parts
<1> HIDE DEF N
<1>3. Fine(N)
  BY <1>2, LoopParts0, HandledIsFine
<1> QED BY <1>1, <1>3

LEMMA ApproachKeeps ==
  ASSUME EffectsInv, NEW e \in S.events, CastApproach(e), UNCHANGED <<here, clock>>
  PROVE  EffectsInv'
<1> DEFINE p == e.who
           E == S.events \ {e}
           done == [L0 EXCEPT !.events = E]
           clear == ClearPending(done, p, e.skill)
           x == [e EXCEPT !.at = clock + 1]
           again == [done EXCEPT !.events = @ \union {x}, !.body[p].moving = TRUE]
           stop == [clear EXCEPT !.body[p].moving = FALSE]
           I == [stop.intent EXCEPT ![p] = "idle"]
           arrived == [stop EXCEPT !.intent = I]
           M == IF S.pending[p].skill # e.skill THEN done
                ELSE IF Abandons(e) THEN clear
                ELSE IF ~InRange(p, e.target, e.skill) THEN again
                ELSE TryCast(arrived, p, e.skill, e.ctrl)
<1>1. e.kind = "approach" /\ Become(M)
  <2>1. [clear EXCEPT !.body[p].moving = FALSE, !.intent[p] = "idle"] = arrived
    OBVIOUS
  <2> QED BY <2>1, LoopParts0 DEF CastApproach
<1>2. /\ p \in Players /\ Fine(L0) /\ here \subseteq Players /\ clock \in Nat
      /\ e \in Event /\ e.skill \in Skills /\ e.ctrl \in BOOLEAN
  BY LoopParts0 DEF EffectsInv, Fine, Shaped, Event
<1>3. /\ DOMAIN done = Parts /\ done.body = body /\ done.ready = L0.ready /\ done.log = L0.log
      /\ done.events = L0.events \ {e} /\ done.pending = S.pending
  BY LoopParts0 DEF Parts
<1> HIDE DEF done
<1>4. S.pending[p].skill # e.skill => Fine(done)
  BY <1>2, <1>3, LoopParts0, HandledIsFine
<1>5. S.pending[p].skill = e.skill => Fine(clear)
  BY <1>2, <1>3, ClearedIsFine
<1>6. S.pending[p].skill = e.skill => Fine(again)
  <2> SUFFICES ASSUME S.pending[p].skill = e.skill PROVE Fine(again)
    OBVIOUS
  <2> DEFINE b == [body[p] EXCEPT !.moving = TRUE]
             B == [body EXCEPT ![p] = b]
             F == (S.events \ {e}) \union {x}
             N == [done EXCEPT !.events = F, !.body = B]
  <2>1. again = N
    BY <1>3, LoopParts0
  <2>2. IsBody(body[p]) /\ DOMAIN body = Players /\ Shaped(L0)
    BY <1>2, LoopParts0 DEF Fine, Shaped
  <2>3. IsBody(b) /\ b.casting = body[p].casting /\ b.mp >= body[p].mp
    BY <2>2 DEF IsBody, Fields
  <2>4. x \in Event /\ x.kind = "approach" /\ x.who = p /\ x.skill = e.skill
    BY <1>1, <1>2 DEF Event
  <2> HIDE DEF b, x
  <2>5. /\ DOMAIN N = Parts /\ DOMAIN N.body = Players /\ N.body[p] = b
        /\ \A q \in Players : q # p => N.body[q] = body[q]
        /\ N.log = h.log /\ N.events = F /\ N.pending = S.pending /\ N.ready = S.ready
    BY <1>2, <1>3, <2>2, LoopParts0 DEF Parts
  <2> HIDE DEF N
  <2>6. Beats(N)
    <3> SUFFICES ASSUME NEW q \in Players, S.pending[q].skill # NoSkill
                 PROVE  \E y \in F : y.kind = "approach" /\ y.who = q /\ y.skill = S.pending[q].skill
      BY <2>5 DEF Beats
    <3>1. CASE q = p
      BY <3>1, <2>4
    <3>2. CASE q # p
      BY <3>2, <1>2, LoopParts0 DEF Fine, Beats
    <3> QED BY <3>1, <3>2
  <2>7. \A q \in Players : /\ IsBody(N.body[q]) /\ N.body[q].mp >= body[q].mp
                           /\ N.body[q].casting = body[q].casting
    <3> TAKE q \in Players
    <3>1. CASE q = p
      BY <3>1, <2>3, <2>5
    <3>2. CASE q # p
      BY <3>2, <2>5, BodyRefl DEF Spared
    <3> QED BY <3>1, <3>2
  <2>8. F \subseteq Event /\ \A y \in F : y.kind = "hit" => y \in S.events
    BY <2>2, <2>4, LoopParts0 DEF Shaped
  <2>9. N.pending \in [Players -> [skill : Skills \union {NoSkill}, ctrl : BOOLEAN]]
    BY <2>2, <2>5, LoopParts0 DEF Shaped
  <2> HIDE DEF F, B
  <2>10. Fine(N)
    BY <1>2, <2>5, <2>6, <2>7, <2>8, <2>9, LoopParts0, CalmIsFine
  <2> QED BY <2>1, <2>10
<1> HIDE DEF clear, again, p
<1>7. S.pending[p].skill = e.skill => Fine(TryCast(arrived, p, e.skill, e.ctrl))
  <2> SUFFICES ASSUME S.pending[p].skill = e.skill PROVE Fine(TryCast(arrived, p, e.skill, e.ctrl))
    OBVIOUS
  <2>1. Fine(stop)
    BY <1>2, <1>5, FieldAlike, AlikeIsFine DEF Fine
  <2> HIDE DEF stop, I
  <2>2. Fine(arrived)
    BY <2>1, SidesAlike, AlikeIsFine DEF Fine
  <2> HIDE DEF arrived
  <2> QED BY <1>2, <2>2, TryCastIsFine
<1>8. Fine(M)
  BY <1>4, <1>5, <1>6, <1>7
<1> HIDE DEF M
<1> QED BY <1>1, <1>8, BecomeFine

(* The sweep ends flags and effects and hurts, and leaves casts and MP alone. *)
LEMMA TicksSpare ==
  ASSUME NEW b, IsBody(b)
  PROVE  Spared(b, FireTicks(b))
<1> DEFINE x == IF b.hp > 1 THEN b.hp - 1 ELSE 1
           f == {IF TickDue(y) THEN [y EXCEPT !.next = clock + 1] ELSE y : y \in b.effects}
           d == [b EXCEPT !.hp = x, !.effects = f]
<1>1. FireTicks(b) = b \/ FireTicks(b) = d
  <2>1. [b EXCEPT !.hp = x].effects = b.effects
    BY DEF IsBody, Fields
  <2> QED BY <2>1 DEF FireTicks
<1> HIDE DEF x, f
<1>2. Spared(b, d) /\ Spared(b, b)
  BY DEF Spared, IsBody, Fields
<1> QED BY <1>1, <1>2

LEMMA ServicedSpares ==
  ASSUME NEW b, IsBody(b)
  PROVE  Spared(b, Serviced(b))
<1> DEFINE t == FireTicks(b)
           k == RemoveExpired(t.effects)
<1>1. Serviced(b) = IF Outlived(t.effects) = {} THEN t ELSE RebuildStatMods([t EXCEPT !.effects = k])
  BY DEF Serviced
<1>2. Spared(b, t) /\ IsBody(t)
  BY TicksSpare DEF Spared
<1> HIDE DEF t, k
<1>3. Spared(t, RebuildStatMods([t EXCEPT !.effects = k]))
  BY <1>2, RebuildSpares
<1>4. Spared(b, RebuildStatMods([t EXCEPT !.effects = k]))
  BY <1>2, <1>3 DEF Spared, IsBody
<1> QED BY <1>1, <1>2, <1>4

LEMMA ExpireAlike ==
  ASSUME NEW L, Shaped(L)
  PROVE  Alike(L, ExpireFlags(L))
<1> DEFINE over == {p \in L.flagged : p \in here /\ L.body[p].flag <= clock}
           F == {p \in L.flagged : p \in here} \ over
           B == [p \in Players |-> IF p \in over THEN [L.body[p] EXCEPT !.flag = 0, !.shown = FALSE]
                                   ELSE L.body[p]]
           M == [L EXCEPT !.flagged = F, !.body = B]
<1>1. DOMAIN L = Parts
  BY DEF Shaped
<1>2. ExpireFlags(L) = M
  <2>1. [L EXCEPT !.flagged = F].body = L.body
    BY <1>1 DEF Parts
  <2> QED BY <2>1 DEF ExpireFlags
<1>3. \A p \in Players : Spared(L.body[p], B[p])
  <2> TAKE p \in Players
  <2> DEFINE b == L.body[p]
             d == [b EXCEPT !.flag = 0, !.shown = FALSE]
  <2>1. IsBody(b) /\ (B[p] = d \/ B[p] = b)
    BY DEF Shaped
  <2> HIDE DEF b
  <2>2. Spared(b, d) /\ Spared(b, b)
    BY <2>1 DEF Spared, IsBody, Fields
  <2> HIDE DEF d
  <2> QED BY <2>1, <2>2 DEF b
<1>4. DOMAIN B = Players
  OBVIOUS
<1> HIDE DEF F, B, over
<1>5. /\ DOMAIN M = Parts /\ M.body = B
      /\ M.pending = L.pending /\ M.events = L.events /\ M.ready = L.ready /\ M.log = L.log
  BY <1>1 DEF Parts
<1> HIDE DEF M
<1> QED BY <1>2, <1>3, <1>4, <1>5 DEF Alike

LEMMA SweepKeeps == EffectsInv /\ ServiceBuffs => EffectsInv'
<1> SUFFICES ASSUME EffectsInv, ServiceBuffs PROVE EffectsInv'
  OBVIOUS
<1> DEFINE L == ExpireFlags(L0)
           due == {p \in L.buffed : p \in here /\ L.body[p].effects # {}}
           after == [p \in Players |-> IF p \in due THEN Serviced(L.body[p]) ELSE L.body[p]]
           rebuilt == {p \in due : Outlived(body[p].effects) # {}}
           overlap == {p \in rebuilt : dressing[p] # <<>>}
           buffed == {p \in due : after[p].effects # {}}
           lost == L.lost \ ({"buff"} \X due)
           mixed == (L.mixed \ rebuilt) \union overlap
           M == [L EXCEPT !.body = after, !.buffed = buffed, !.lost = lost, !.mixed = mixed]
<1>1. Alike(L0, L) /\ Shaped(L)
  BY ExpireAlike, AlikeIsShaped DEF EffectsInv, Fine
<1>2. Become(M) /\ UNCHANGED <<here, clock>>
  <2>1. /\ [L EXCEPT !.body = after].lost = L.lost /\ [L EXCEPT !.body = after].mixed = L.mixed
    BY <1>1 DEF Shaped, Parts
  <2> QED BY DEF ServiceBuffs
<1> HIDE DEF L, due
<1>3. DOMAIN after = Players /\ \A p \in Players : Spared(L.body[p], after[p])
  <2> SUFFICES ASSUME NEW p \in Players PROVE Spared(L.body[p], after[p])
    OBVIOUS
  <2>1. IsBody(L.body[p]) /\ Spared(L.body[p], L.body[p])
    BY <1>1 DEF Shaped, Spared, IsBody
  <2>2. Spared(L.body[p], Serviced(L.body[p]))
    BY <2>1, ServicedSpares
  <2> QED BY <2>1, <2>2
<1> HIDE DEF after, buffed, lost, mixed
<1>4. /\ DOMAIN M = Parts /\ M.body = after
      /\ M.pending = L.pending /\ M.events = L.events /\ M.ready = L.ready /\ M.log = L.log
  BY <1>1 DEF Shaped, Parts
<1> HIDE DEF M
<1>5. Alike(L, M)
  BY <1>3, <1>4 DEF Alike
<1>6. Alike(L0, M)
  BY <1>1, <1>5, AlikeTrans DEF EffectsInv, Fine
<1> QED BY <1>2, <1>6, BecomeAlike

LEMMA MoveKeeps ==
  ASSUME EffectsInv, NEW p \in Players, MoveToLocation(p)
  PROVE  EffectsInv'
<1> DEFINE A == AbortCast(L0, p)
           P == [A EXCEPT !.pending[p] = NoPending]
           I == [P.intent EXCEPT ![p] = "walk"]
           N == [P EXCEPT !.intent = I]
           M == [N EXCEPT !.body[p].moving = TRUE]
<1>1. Fine(A)
  BY AbortIsFine DEF EffectsInv
<1>2. DOMAIN A = Parts
  BY <1>1 DEF Fine, Shaped
<1>3. Become(M) /\ UNCHANGED <<here, clock>>
  <2>1. [A EXCEPT !.pending[p] = NoPending, !.intent[p] = "walk", !.body[p].moving = TRUE] = M
    BY <1>2 DEF Parts
  <2> QED BY <2>1 DEF MoveToLocation, SameWorld
<1> HIDE DEF A
<1>4. Fine(P)
  BY <1>1, ForgetIsFine
<1> HIDE DEF P, I
<1>5. Fine(N)
  BY <1>4, SidesAlike, AlikeIsFine DEF Fine
<1> HIDE DEF N
<1>6. Fine(M)
  BY <1>5, FieldAlike, AlikeIsFine DEF Fine
<1> HIDE DEF M
<1> QED BY <1>3, <1>6, BecomeFine

LEMMA ArriveKeeps ==
  ASSUME EffectsInv, NEW p \in Players, Arrive(p)
  PROVE  EffectsInv'
<1>1. PICK o : Become([L0 EXCEPT !.body[p].moving = FALSE, !.near[p] = @ \union {o}])
  BY DEF Arrive
<1> DEFINE N == [L0 EXCEPT !.body[p].moving = FALSE]
           n == [L0.near EXCEPT ![p] = @ \union {o}]
           M == [N EXCEPT !.near = n]
<1>2. [L0 EXCEPT !.body[p].moving = FALSE, !.near[p] = @ \union {o}] = M
  <2>1. N.near = L0.near
    BY LoopParts0 DEF Parts
  <2> QED BY <2>1
<1>3. Alike(L0, N) /\ Shaped(N) /\ Shaped(L0)
  BY FieldAlike, AlikeIsShaped DEF EffectsInv, Fine
<1> HIDE DEF N, n
<1>4. Alike(N, M)
  BY <1>3, SidesAlike
<1>5. Alike(L0, M)
  BY <1>3, <1>4, AlikeTrans
<1> HIDE DEF M
<1> QED BY <1>1, <1>2, <1>5, BecomeAlike DEF Arrive, SameWorld

LEMMA WoundKeeps ==
  ASSUME EffectsInv, NEW p \in Players, Wound(p)
  PROVE  EffectsInv'
<1> DEFINE x == L0.body[p].hp - 1
           M == [L0 EXCEPT !.body[p].hp = x]
<1>1. Become(M) /\ UNCHANGED <<here, clock>>
  BY DEF Wound, SameWorld
<1> HIDE DEF x
<1>2. Alike(L0, M)
  BY FieldAlike DEF EffectsInv, Fine
<1> HIDE DEF M
<1> QED BY <1>1, <1>2, BecomeAlike

LEMMA RegenKeeps == EffectsInv /\ Regen => EffectsInv'
<1> SUFFICES ASSUME EffectsInv, Regen PROVE EffectsInv'
  OBVIOUS
<1> DEFINE B == [p \in Players |-> IF Living(p) THEN Regenerated(L0.body[p]) ELSE L0.body[p]]
           M == [L0 EXCEPT !.body = B]
<1>1. Become(M) /\ UNCHANGED <<here, clock>>
  BY DEF Regen, SameWorld
<1>2. \A p \in Players : Spared(body[p], B[p])
  <2> TAKE p \in Players
  <2> DEFINE b == body[p]
             hp == IF b.hp < MaxHP THEN b.hp + 1 ELSE b.hp
             mp == IF b.mp < MaxMP THEN b.mp + 1 ELSE b.mp
             d == [b EXCEPT !.hp = hp, !.mp = mp]
  <2>1. IsBody(b) /\ Spared(b, b)
    BY BodyRefl
  <2>2. Regenerated(b) = d
    <3>1. [b EXCEPT !.hp = hp].mp = b.mp
      BY <2>1 DEF IsBody, Fields
    <3> QED BY <3>1 DEF Regenerated
  <2>3. mp \in Nat /\ mp >= b.mp
    BY <2>1, EffectsAssumption DEF IsBody
  <2> HIDE DEF hp, mp
  <2>4. Spared(b, d)
    BY <2>1, <2>3 DEF Spared, IsBody, Fields
  <2> QED BY <2>1, <2>2, <2>4, LoopParts0
<1>3. DOMAIN B = Players
  OBVIOUS
<1> HIDE DEF B
<1>4. /\ DOMAIN M = Parts /\ M.body = B /\ M.pending = L0.pending /\ M.events = L0.events
      /\ M.ready = L0.ready /\ M.log = L0.log
  BY LoopParts0 DEF Parts
<1> HIDE DEF M
<1>5. Alike(L0, M)
  BY <1>2, <1>3, <1>4, LoopParts0 DEF Alike
<1> QED BY <1>1, <1>5, BecomeAlike

LEMMA ReviveKeeps ==
  ASSUME EffectsInv, NEW p \in Players, Revive(p)
  PROVE  EffectsInv'
<1> DEFINE N == [L0 EXCEPT !.body[p].hp = MaxHP]
           M == IF p \in here THEN Teleport(N, p) ELSE L0
<1>1. Become(M) /\ UNCHANGED <<here, clock>>
  BY DEF Revive
<1>2. Alike(L0, N) /\ Shaped(N) /\ Shaped(L0) /\ Alike(L0, L0)
  BY FieldAlike, AlikeRefl, AlikeIsShaped DEF EffectsInv, Fine
<1> HIDE DEF N
<1>3. Alike(L0, M)
  BY <1>2, TeleportAlike, AlikeTrans
<1> HIDE DEF M
<1> QED BY <1>1, <1>3, BecomeAlike

LEMMA RequestKeeps ==
  ASSUME EffectsInv, NEW p \in Players, NEW s \in Skills
  PROVE  /\ \A ctrl \in BOOLEAN : CastRequest(p, s, ctrl) => EffectsInv'
         /\ ItemSkillCast(p, s) => EffectsInv'
         /\ Dispel(p, s) => EffectsInv'
<1>1. Fine(L0) /\ Shaped(L0) /\ here \subseteq Players /\ clock \in Nat
  BY DEF EffectsInv, Fine
<1>2. ASSUME NEW ctrl \in BOOLEAN, CastRequest(p, s, ctrl) PROVE EffectsInv'
  <2>1. Fine(TryCast(L0, p, s, ctrl))
    BY <1>1, TryCastIsFine
  <2> QED BY <1>2, <2>1, BecomeFine DEF CastRequest, SameWorld
<1>3. ASSUME ItemSkillCast(p, s) PROVE EffectsInv'
  <2>1. Alike(L0, ApplySkillEffects(L0, p, p, s, 1))
    BY <1>1, SkillEffectsAlike
  <2> QED BY <1>3, <2>1, BecomeAlike DEF ItemSkillCast, SameWorld
<1>4. ASSUME Dispel(p, s) PROVE EffectsInv'
  <2>1. Alike(L0, ToggleOff(L0, p, s))
    BY <1>1, ToggleOffAlike
  <2> QED BY <1>4, <2>1, BecomeAlike DEF Dispel, SameWorld
<1> QED BY <1>2, <1>3, <1>4

(* The loop forgets a character: with its cooldowns goes what they protect. *)
LEMMA DisconnectedKeeps ==
  ASSUME EffectsInv, NEW p \in Players, PlayerDisconnected(p)
  PROVE  EffectsInv'
<1> DEFINE l == h.log
           N == [i \in DOMAIN l |-> IF l[i].who = p THEN [l[i] EXCEPT !.cleared = TRUE] ELSE l[i]]
           Z == [s \in Skills |-> 0]
           R == [S.ready EXCEPT ![p] = Z]
           P == [S.pending EXCEPT ![p] = NoPending]
<1>1. Shaped(L0) /\ Fine(L0) /\ l \in Seq(Cast)
  BY LoopParts0 DEF EffectsInv, Fine, Shaped
<1>2. /\ DOMAIN S' = LoopParts /\ DOMAIN h' = Memory /\ body' = body /\ h'.log = N
      /\ S'.pending = P /\ S'.ready = R /\ S'.events = S.events /\ here' = here /\ clock' = clock
  <2> DEFINE carries == (IF body[p].effects # {} THEN {<<"buff", p>>} ELSE {})
                          \union (IF body[p].flag # 0 THEN {<<"flag", p>>} ELSE {})
             M == [L0 EXCEPT
                     !.ready[p] = [s \in Skills |-> 0],
                     !.buffed = @ \ {p}, !.flagged = @ \ {p},
                     !.pending[p] = NoPending,
                     !.lost = IF p \in here THEN @ \union carries ELSE @,
                     !.log = [i \in DOMAIN @ |-> IF @[i].who = p
                                THEN [@[i] EXCEPT !.cleared = TRUE] ELSE @[i]]]
  <2>1. Become(M) /\ UNCHANGED <<here, clock>>
    BY DEF PlayerDisconnected
  <2>2. M.body = body /\ M.log = N /\ M.pending = P /\ M.ready = R /\ M.events = S.events
    BY LoopParts0 DEF Parts
  <2> HIDE DEF M, N, P, R
  <2> QED BY <2>1, <2>2 DEF Become, EffectsInv, LoopParts, Memory
<1>3. /\ N \in Seq(Cast) /\ DOMAIN N = DOMAIN l
      /\ \A i \in DOMAIN l : /\ l[i] \in Cast /\ N[i].who = l[i].who /\ N[i].skill = l[i].skill
                             /\ N[i].hits = l[i].hits /\ N[i].aborted = l[i].aborted
                             /\ N[i].start = l[i].start /\ N[i].landed = l[i].landed
                             /\ (N[i].cleared <=> l[i].who = p \/ l[i].cleared)
  <2>1. DOMAIN l = 1..Len(l) /\ Len(l) \in Nat /\ \A i \in DOMAIN l : l[i] \in Cast
    BY <1>1, LogTyped, LoopParts0
  <2>2. \A i \in DOMAIN l : /\ N[i] \in Cast /\ N[i].who = l[i].who /\ N[i].skill = l[i].skill
                            /\ N[i].hits = l[i].hits /\ N[i].aborted = l[i].aborted
                            /\ N[i].start = l[i].start /\ N[i].landed = l[i].landed
                            /\ (N[i].cleared <=> l[i].who = p \/ l[i].cleared)
    <3> TAKE i \in DOMAIN l
    <3> DEFINE c == l[i]
    <3>1. c \in Cast /\ N[i] = IF c.who = p THEN [c EXCEPT !.cleared = TRUE] ELSE c
      BY <2>1
    <3> HIDE DEF l, N
    <3>2. /\ N[i] \in Cast /\ N[i].who = c.who /\ N[i].skill = c.skill
          /\ N[i].hits = c.hits /\ N[i].aborted = c.aborted
          /\ N[i].start = c.start /\ N[i].landed = c.landed
          /\ (N[i].cleared <=> c.who = p \/ c.cleared)
      <4> HIDE DEF c
      <4>1. CASE c.who = p
        BY <3>1, <4>1 DEF Cast
      <4>2. CASE c.who # p
        BY <3>1, <4>2 DEF Cast
      <4> QED BY <4>1, <4>2
    <3> QED BY <3>2
  <2>3. N \in [1..Len(l) -> Cast]
    BY <2>1, <2>2
  <2>4. N \in Seq(Cast)
    BY <2>1, <2>3, SeqDef
  <2> QED BY <2>1, <2>2, <2>4
<1>4. /\ R \in [Players -> [Skills -> Nat]] /\ \A q \in Players : q # p => R[q] = S.ready[q]
      /\ P \in [Players -> [skill : Skills \union {NoSkill}, ctrl : BOOLEAN]]
      /\ P[p] = NoPending /\ \A q \in Players : q # p => P[q] = S.pending[q]
  <2> DEFINE T == [skill : Skills \union {NoSkill}, ctrl : BOOLEAN]
             U == [Skills -> Nat]
  <2>1. NoPending \in T /\ Z \in U
    BY DEF NoPending
  <2>2. S.pending \in [Players -> T] /\ S.ready \in [Players -> U]
    BY <1>1, LoopParts0 DEF Shaped
  <2> HIDE DEF T, U, Z
  <2>3. /\ R \in [Players -> U] /\ \A q \in Players : q # p => R[q] = S.ready[q]
        /\ P \in [Players -> T] /\ P[p] = NoPending /\ \A q \in Players : q # p => P[q] = S.pending[q]
    BY <2>1, <2>2
  <2> QED BY <2>3 DEF T, U
<1> HIDE DEF l, N, R, P
<1>5. /\ DOMAIN L0' = Parts /\ L0'.body = body /\ L0'.pending = P /\ L0'.events = S.events
      /\ L0'.ready = R /\ L0'.log = N
  BY <1>2 DEF L0, Parts
<1>6. Shaped(L0)'
  BY <1>1, <1>3, <1>4, <1>5, LoopParts0 DEF Shaped, IsBody
<1>7. Linked(L0)'
  <2>1. Linked(L0)
    BY <1>1 DEF Fine
  <2>2. \A q \in Players :
          LET c == body[q].casting
          IN  c # NoCast =>
                /\ c.id \in DOMAIN N
                /\ N[c.id].who = q /\ N[c.id].skill = c.skill
                /\ ~N[c.id].aborted /\ N[c.id].hits = 0
                /\ body[q].mp >= Data[c.skill].mp2
                /\ \A j \in DOMAIN N : j > c.id => N[j].who # q
    BY <2>1, <1>3, LoopParts0 DEF Linked, l
  <2> QED BY <1>5, <2>2 DEF Linked
<1>8. Queued(L0)'
  BY <1>1, <1>3, <1>5, LoopParts0 DEF Fine, Queued, l
<1>9. HitsOnce(L0)'
  BY <1>1, <1>3, <1>5, LoopParts0 DEF Fine, HitsOnce, l
<1>10. Cooled(L0)'
  <2>1. ASSUME NEW i \in DOMAIN N, N[i].hits > 0, ~N[i].cleared
        PROVE  /\ N[i].landed <= clock
               /\ Data[N[i].skill].reuse # 0 => R[N[i].who][N[i].skill] >= N[i].landed + Data[N[i].skill].reuse
    <3>1. i \in DOMAIN l /\ l[i].who # p /\ ~l[i].cleared /\ l[i].hits > 0 /\ l[i].who \in Players
      BY <2>1, <1>3 DEF Cast
    <3>2. /\ l[i].landed <= clock
          /\ Data[l[i].skill].reuse # 0 => S.ready[l[i].who][l[i].skill] >= l[i].landed + Data[l[i].skill].reuse
      BY <3>1, <1>1, LoopParts0 DEF Fine, Cooled, l
    <3> QED BY <3>1, <3>2, <1>3, <1>4
  <2> QED BY <2>1, <1>2, <1>5 DEF Cooled
<1>11. Spaced(L0)'
  <2>1. ASSUME NEW i \in DOMAIN N, NEW j \in DOMAIN N, i < j, N[i].who = N[j].who,
               N[i].skill = N[j].skill, N[i].hits > 0, ~N[i].cleared
        PROVE  N[j].start >= N[i].landed + Data[N[i].skill].reuse
    <3>1. /\ i \in DOMAIN l /\ j \in DOMAIN l /\ ~l[i].cleared /\ l[i].hits > 0
          /\ l[i].who = l[j].who /\ l[i].skill = l[j].skill
      BY <2>1, <1>3
    <3>2. l[j].start >= l[i].landed + Data[l[i].skill].reuse
      BY <2>1, <3>1, <1>1, LoopParts0 DEF Fine, Spaced, l
    <3> QED BY <3>1, <3>2, <1>3
  <2> QED BY <2>1, <1>5 DEF Spaced
<1>12. Beats(L0)'
  <2>1. ASSUME NEW q \in Players, P[q].skill # NoSkill
        PROVE  \E e \in S.events : e.kind = "approach" /\ e.who = q /\ e.skill = P[q].skill
    <3>1. q # p /\ P[q] = S.pending[q]
      BY <2>1, <1>4 DEF NoPending
    <3> QED BY <2>1, <3>1, <1>1, LoopParts0 DEF Fine, Beats
  <2> QED BY <2>1, <1>5 DEF Beats
<1>13. Fine(L0)'
  BY <1>6, <1>7, <1>8, <1>9, <1>10, <1>11, <1>12 DEF Fine
<1> QED BY <1>2, <1>13 DEF EffectsInv

(* The connections, and the loop's computation of stats. *)
LEMMA ComputeKeeps ==
  ASSUME EffectsInv
  PROVE  /\ \A p \in Players : ComputeRead(p) => EffectsInv'
         /\ ComputeStore => EffectsInv'
<1>1. ASSUME NEW p \in Players, ComputeRead(p) PROVE EffectsInv'
  <2> DEFINE x == body[p].mods
             d == [body[p] EXCEPT !.cached = x]
             B == [body EXCEPT ![p] = d]
  <2>1. IsBody(body[p]) /\ DOMAIN body = Players /\ \A q \in Players : Spared(body[q], body[q])
    BY BodyRefl
  <2> HIDE DEF x
  <2>2. Spared(body[p], d)
    BY <2>1 DEF Spared, IsBody, Fields
  <2>3. body' = B
    BY <1>1 DEF ComputeRead, x
  <2> HIDE DEF d
  <2>4. DOMAIN B = Players /\ \A q \in Players : Spared(body[q], B[q])
    BY <2>1, <2>2
  <2>5. S' = [S EXCEPT !.computing = p] /\ UNCHANGED <<here, clock, h>>
    BY <1>1 DEF ComputeRead
  <2>6. DOMAIN S' = LoopParts /\ S'.pending = S.pending /\ S'.events = S.events /\ S'.ready = S.ready
    BY <2>5 DEF EffectsInv, LoopParts
  <2> HIDE DEF B
  <2> QED BY <2>3, <2>4, <2>5, <2>6, BodyStep DEF EffectsInv
<1>2. ASSUME ComputeStore PROVE EffectsInv'
  <2> DEFINE p == S.computing
             d == [body[p] EXCEPT !.valid = TRUE]
             B == [body EXCEPT ![p] = d]
  <2>1. DOMAIN body = Players /\ \A q \in Players : IsBody(body[q]) /\ Spared(body[q], body[q])
    BY BodyRefl
  <2>2. p \in Players => Spared(body[p], d)
    BY <2>1 DEF Spared, IsBody, Fields
  <2>3. body' = B
    BY <1>2 DEF ComputeStore
  <2>5. S' = [S EXCEPT !.computing = Nobody] /\ UNCHANGED <<here, clock, h>>
    BY <1>2 DEF ComputeStore
  <2> HIDE DEF d, p
  <2>4. DOMAIN B = Players /\ \A q \in Players : Spared(body[q], B[q])
    BY <2>1, <2>2
  <2>6. DOMAIN S' = LoopParts /\ S'.pending = S.pending /\ S'.events = S.events /\ S'.ready = S.ready
    BY <2>5 DEF EffectsInv, LoopParts
  <2> HIDE DEF B
  <2> QED BY <2>3, <2>4, <2>5, <2>6, BodyStep DEF EffectsInv
<1> QED BY <1>1, <1>2

LEMMA ConnectionsKeep ==
  ASSUME EffectsInv, NEW p \in Players
  PROVE  /\ \A o \in Objects \union {Nobody} : SetTarget(p, o) => EffectsInv'
         /\ EquipRead(p) => EffectsInv'
         /\ EquipStore(p) => EffectsInv'
<1>1. IsBody(body[p]) /\ DOMAIN body = Players /\ \A q \in Players : Spared(body[q], body[q])
  BY BodyRefl
<1>2. ASSUME NEW d, Spared(body[p], d), body' = [body EXCEPT ![p] = d], UNCHANGED <<here, clock, h, S>>
      PROVE  EffectsInv'
  <2> DEFINE B == [body EXCEPT ![p] = d]
  <2>1. DOMAIN B = Players /\ \A q \in Players : Spared(body[q], B[q])
    BY <1>1, <1>2
  <2>2. body' = B
    BY <1>2
  <2> HIDE DEF B
  <2> QED BY <1>2, <2>1, <2>2, BodyStep DEF EffectsInv
<1>3. ASSUME NEW o \in Objects \union {Nobody}, SetTarget(p, o) PROVE EffectsInv'
  <2>1. Spared(body[p], [body[p] EXCEPT !.target = o])
    BY <1>1 DEF Spared, IsBody, Fields
  <2>2. body' = [body EXCEPT ![p] = [body[p] EXCEPT !.target = o]] /\ UNCHANGED <<here, clock, h, S>>
    BY <1>3 DEF SetTarget
  <2> QED BY <1>2, <2>1, <2>2
<1>4. ASSUME EquipRead(p) PROVE EffectsInv'
  <2> DEFINE g == 1 - body[p].gear
             d == [body[p] EXCEPT !.gear = g]
  <2>1. body' = [body EXCEPT ![p] = d] /\ UNCHANGED <<here, clock, h, S>>
    BY <1>4 DEF EquipRead
  <2> HIDE DEF g
  <2>2. Spared(body[p], d)
    BY <1>1 DEF Spared, IsBody, Fields
  <2> HIDE DEF d
  <2> QED BY <1>2, <2>1, <2>2
<1>5. ASSUME EquipStore(p) PROVE EffectsInv'
  <2> DEFINE m == dressing[p][1]
             d == [body[p] EXCEPT !.mods = m, !.valid = FALSE]
  <2>1. body' = [body EXCEPT ![p] = d] /\ UNCHANGED <<here, clock, h, S>>
    BY <1>1, <1>5 DEF EquipStore
  <2> HIDE DEF m
  <2>2. Spared(body[p], d)
    BY <1>1 DEF Spared, IsBody, Fields
  <2> HIDE DEF d
  <2> QED BY <1>2, <2>1, <2>2
<1> QED BY <1>3, <1>4, <1>5

(* Steps that leave bodies and the loop as they are. *)
LEMMA QuietKeeps ==
  ASSUME EffectsInv, UNCHANGED <<body, S, clock, h>>, here' \subseteq Players
  PROVE  EffectsInv'
<1>1. DOMAIN body = Players /\ \A q \in Players : Spared(body[q], body[q])
  BY BodyRefl
<1> QED BY <1>1, BodyStep DEF EffectsInv

(* A character that comes back casts nothing. *)
LEMMA AddKeeps ==
  ASSUME EffectsInv, NEW p \in Players, AddPlayer(p)
  PROVE  EffectsInv'
<1> DEFINE B == [body EXCEPT ![p] = FreshBody]
           M == [L0 EXCEPT !.body = B]
<1>1. /\ body' = B /\ here' = here \union {p} /\ clock' = clock /\ S' = S
      /\ h'.log = h.log /\ DOMAIN h' = Memory
  BY DEF AddPlayer, EffectsInv, Memory
<1>2. IsBody(FreshBody) /\ FreshBody.casting = NoCast
  BY EffectsAssumption DEF FreshBody, RebuildStatMods, IsBody, Fields
<1>3. DOMAIN body = Players /\ \A q \in Players : IsBody(body[q]) /\ Spared(body[q], body[q])
  BY BodyRefl
<1>4. /\ DOMAIN B = Players
      /\ \A q \in Players : /\ IsBody(B[q])
                            /\ \/ B[q].casting = NoCast
                               \/ B[q].casting = body[q].casting /\ B[q].mp >= body[q].mp
  <2>1. \A q \in Players : IsBody(B[q]) /\ (B[q].casting = NoCast \/ B[q] = body[q])
    BY <1>2, <1>3
  <2> QED BY <2>1, <1>3 DEF Spared
<1> HIDE DEF B
<1>5. /\ DOMAIN M = Parts /\ M.body = B /\ M.pending = S.pending /\ M.events = S.events
      /\ M.ready = S.ready /\ M.log = h.log
  BY LoopParts0 DEF Parts
<1> HIDE DEF M
<1>6. Beats(M) /\ M.events \subseteq Event
      /\ M.pending \in [Players -> [skill : Skills \union {NoSkill}, ctrl : BOOLEAN]]
  BY <1>5, LoopParts0 DEF EffectsInv, Fine, Beats, Shaped
<1>7. Fine(M)
  BY <1>4, <1>5, <1>6, LoopParts0, CalmIsFine DEF EffectsInv
<1>8. Fine(L0)'
  BY <1>1, <1>5, <1>7, StateFine
<1> QED BY <1>1, <1>8 DEF EffectsInv

LEMMA PassKeeps == EffectsInv /\ Pass => EffectsInv'
<1> SUFFICES ASSUME EffectsInv, Pass PROVE EffectsInv'
  OBVIOUS
<1>1. UNCHANGED <<here, body, S, h, near>> /\ clock' = clock + 1
  BY DEF Pass
<1>2. L0' = L0 /\ Fine(L0) /\ clock \in Nat
  BY <1>1 DEF L0, EffectsInv
<1>3. Shaped(L0)' /\ Linked(L0)' /\ Queued(L0)' /\ HitsOnce(L0)' /\ Spaced(L0)' /\ Beats(L0)'
  <2>1. Shaped(L0) /\ Linked(L0) /\ Queued(L0) /\ HitsOnce(L0) /\ Spaced(L0) /\ Beats(L0)
    BY <1>2 DEF Fine
  <2>2. Shaped(L0)'
    BY <1>2, <2>1 DEF Shaped, IsBody
  <2>3. Linked(L0)'
    BY <1>2, <2>1 DEF Linked
  <2>4. Queued(L0)' /\ HitsOnce(L0)'
    BY <1>2, <2>1 DEF Queued, HitsOnce
  <2>5. Spaced(L0)' /\ Beats(L0)'
    BY <1>2, <2>1 DEF Spaced, Beats
  <2> QED BY <2>2, <2>3, <2>4, <2>5
<1>4. Cooled(L0)'
  <2>1. \A i \in DOMAIN L0.log : L0.log[i].landed \in Nat
    BY <1>2, LogTyped DEF Fine, Cast
  <2>2. Cooled(L0)
    BY <1>2 DEF Fine
  <2> QED BY <1>1, <1>2, <2>1, <2>2 DEF Cooled
<1> QED BY <1>1, <1>3, <1>4 DEF EffectsInv, Fine

LEMMA EffectsStep == EffectsInv /\ [Next]_vars => EffectsInv'
<1> SUFFICES ASSUME EffectsInv, [Next]_vars PROVE EffectsInv'
  OBVIOUS
<1>1. ASSUME NEW p \in Players, NEW s \in Skills,
             \/ \E ctrl \in BOOLEAN : CastRequest(p, s, ctrl)
             \/ ItemSkillCast(p, s)
             \/ Dispel(p, s)
      PROVE  EffectsInv'
  BY <1>1, RequestKeeps
<1>2. ASSUME NEW p \in Players,
             \/ MoveToLocation(p) \/ Arrive(p) \/ Wound(p) \/ Revive(p) \/ PlayerDisconnected(p)
             \/ ComputeRead(p) \/ EquipRead(p) \/ EquipStore(p) \/ AddPlayer(p)
             \/ \E o \in Objects \cup {Nobody} : SetTarget(p, o)
      PROVE  EffectsInv'
  BY <1>2, MoveKeeps, ArriveKeeps, WoundKeeps, ReviveKeeps, DisconnectedKeeps, ComputeKeeps,
     ConnectionsKeep, AddKeeps
<1>3. ASSUME NEW p \in Players,
             \/ RequestRestartPoint(p) \/ BeginRestart(p) \/ RestartRefused(p) \/ RemovePlayer(p)
             \/ \E objects \in SUBSET (Objects \ {p}) : Wander(p, objects)
      PROVE  EffectsInv'
  <2>1. UNCHANGED <<body, S, clock, h>> /\ here' \subseteq Players
    BY <1>3 DEF RequestRestartPoint, BeginRestart, RestartRefused, RemovePlayer, Wander, EffectsInv
  <2> QED BY <2>1, QuietKeeps
<1>4. ASSUME Execute PROVE EffectsInv'
  <2>1. PICK e \in S.events : e.at <= clock /\ (CastHit(e) \/ CastApproach(e))
    BY <1>4 DEF Execute
  <2>2. UNCHANGED <<here, clock>>
    BY <1>4 DEF Execute
  <2> QED BY <2>1, <2>2, HitKeeps, ApproachKeeps
<1>5. CASE ComputeStore \/ Regen \/ ServiceBuffs \/ Pass
  BY <1>5, ComputeKeeps, RegenKeeps, SweepKeeps, PassKeeps
<1>6. CASE UNCHANGED vars
  BY <1>6, QuietKeeps DEF vars, EffectsInv
<1> QED BY <1>1, <1>2, <1>3, <1>4, <1>5, <1>6 DEF Next

-----------------------------------------------------------------------------

(* A cast hits once at most, not before its time is over and never after it was
   interrupted; a skill is not begun again before its cooldown is over; whoever
   casts can pay what is due at the hit (cast.go:60-110, 270-330). *)
THEOREM CastsStaySound == Spec => []CastsSound
<1>1. EffectsInv => CastsSound
  <2> SUFFICES ASSUME EffectsInv PROVE CastsSound
    OBVIOUS
  <2>1. OneCastOneHit /\ CooldownRespected
    BY LoopParts0 DEF EffectsInv, Fine, HitsOnce, Spaced, OneCastOneHit, CooldownRespected
  <2>2. AffordsHit
    BY LoopParts0 DEF EffectsInv, Fine, Linked, AffordsHit
  <2> QED BY <2>1, <2>2 DEF CastsSound
<1> QED BY <1>1, EffectsInit, EffectsStep, PTL DEF Spec

(* A pending approach has its heartbeat queued: the key that asked for it does
   not go dead (cast.go:200-260). *)
THEOREM ApproachesStayAlive == Spec => []HeartbeatAlive
<1>1. EffectsInv => HeartbeatAlive
  BY LoopParts0 DEF EffectsInv, Fine, Beats, HeartbeatAlive
<1> QED BY <1>1, EffectsInit, EffectsStep, PTL DEF Spec

-----------------------------------------------------------------------------
(* What a character carries: the effects, the modifiers they make, the flag. *)

(* Effects of one skill or one type exclude each other. *)
Exclusive(e) == /\ e \subseteq Buff /\ \A x \in e : x.type = Data[x.skill].type
                /\ \A x, y \in e : x # y => x.skill # y.skill /\ ~SameType(x, y)
Whole(b) == b \in Body /\ Exclusive(b.effects)

(* The name has the colour of the flag, and the sweep knows of it. *)
Coloured(b, listed, lost) ==
  /\ b.shown <=> b.flag # 0
  /\ ~lost => /\ b.flag # 0 => listed
              /\ swept = clock => b.flag = 0 \/ clock < b.flag

Lasting(b, listed, lost) ==
  ~lost => /\ b.effects # {} => listed
           /\ swept = clock => Outlived(b.effects) = {}

(* The modifiers are stored, or in the hands of the connection that will. *)
Added(b, d, mixed) ==
  ~mixed => IF d = <<>> THEN b.mods = ModsOf(b, b.effects) ELSE d = <<ModsOf(b, b.effects)>>

(* Harm nothing has provoked is answered by a flag that lasts longer than the cast. *)
Owes(c) == IsOffensive(c.skill) /\ c.target \in Players \ {c.who} /\ ~c.fair
Vouched(b, log) ==
  b.casting # NoCast =>
    LET c == log[b.casting.id]
    IN  /\ c.start \in 0..clock
        /\ Owes(c) => b.flag >= c.start + FlagTime \/ clock >= c.start + FlagTime

Kept(L, p) ==
  /\ Whole(L.body[p]) /\ Vouched(L.body[p], L.log)
  /\ p \in here => /\ Coloured(L.body[p], p \in L.flagged, <<"flag", p>> \in L.lost)
                   /\ Lasting(L.body[p], p \in L.buffed, <<"buff", p>> \in L.lost)
                   /\ Added(L.body[p], dressing[p], p \in L.mixed)

Told(log) ==
  \A i \in DOMAIN log : /\ log[i].start \in 0..clock
                        /\ log[i].hits > 0 /\ Owes(log[i]) => log[i].answer > log[i].landed

Held(L) ==
  /\ L.buffed \subseteq Players /\ L.flagged \subseteq Players
  /\ L.near \in [Players -> SUBSET Objects] /\ L.intent \in [Players -> {"idle", "cast", "walk"}]
  /\ L.body \in [Players -> Body] /\ \A p \in Players : Kept(L, p)
  /\ Told(L.log) /\ \A e \in L.events : clock <= e.at

(* The same character for all of this. *)
Beside(b, d) ==
  /\ d \in Body /\ d.effects = b.effects /\ d.flag = b.flag /\ d.shown = b.shown
  /\ d.gear = b.gear /\ d.mods = b.mods /\ (d.casting = b.casting \/ d.casting = NoCast)

LEMMA Edits ==
  ASSUME NEW b \in Body, NEW x
  PROVE  /\ Beside(b, b)
         /\ x \in 0..MaxHP => Beside(b, [b EXCEPT !.hp = x])
         /\ x \in 0..MaxMP => Beside(b, [b EXCEPT !.mp = x])
         /\ x \in Objects \union {Nobody} => Beside(b, [b EXCEPT !.target = x])
         /\ x \in BOOLEAN => Beside(b, [b EXCEPT !.moving = x])
         /\ Beside(b, [b EXCEPT !.casting = NoCast])
<1>1. NoCast \in Casting
  BY DEF NoCast, Casting
<1> QED BY <1>1 DEF Beside, Body

LEMMA BesideTrans == \A b, c, d : Beside(b, c) /\ Beside(c, d) => Beside(b, d)
BY DEF Beside

LEMMA BesideKept ==
  ASSUME NEW L, NEW M, NEW p \in Players, Kept(L, p), Beside(L.body[p], M.body[p]), M.log = L.log,
         p \in M.buffed <=> p \in L.buffed, p \in M.flagged <=> p \in L.flagged,
         p \in M.mixed <=> p \in L.mixed, <<"flag", p>> \in M.lost <=> <<"flag", p>> \in L.lost,
         <<"buff", p>> \in M.lost <=> <<"buff", p>> \in L.lost
  PROVE  Kept(M, p)
<1> DEFINE b == L.body[p]
           d == M.body[p]
<1>1. Whole(d)
  BY DEF Kept, Whole, Beside
<1>2. Vouched(d, M.log)
  BY DEF Kept, Vouched, Beside
<1>3. p \in here => Coloured(d, p \in M.flagged, <<"flag", p>> \in M.lost)
  BY DEF Kept, Coloured, Beside
<1>4. p \in here => Lasting(d, p \in M.buffed, <<"buff", p>> \in M.lost)
  BY DEF Kept, Lasting, Beside
<1>5. p \in here => Added(d, dressing[p], p \in M.mixed)
  BY DEF Kept, Added, Beside, ModsOf
<1> QED BY <1>1, <1>2, <1>3, <1>4, <1>5 DEF Kept

LEMMA BesideHeld ==
  ASSUME NEW L, Held(L), NEW M, \A p \in Players : Beside(L.body[p], M.body[p]),
         M.log = L.log, M.buffed = L.buffed, M.flagged = L.flagged, M.mixed = L.mixed, M.lost = L.lost,
         M.body \in [Players -> Body], M.near \in [Players -> SUBSET Objects],
         M.intent \in [Players -> {"idle", "cast", "walk"}], \A e \in M.events : clock <= e.at
  PROVE  Held(M)
BY BesideKept DEF Held

(* One character changes. *)
LEMMA HeldOne ==
  ASSUME NEW L, Held(L), NEW p \in Players, NEW M, Kept(M, p),
         \A q \in Players : q # p => /\ M.body[q] = L.body[q]
                                     /\ q \in M.buffed <=> q \in L.buffed
                                     /\ q \in M.flagged <=> q \in L.flagged
                                     /\ q \in M.mixed <=> q \in L.mixed
                                     /\ <<"flag", q>> \in M.lost <=> <<"flag", q>> \in L.lost
                                     /\ <<"buff", q>> \in M.lost <=> <<"buff", q>> \in L.lost,
         M.body \in [Players -> Body], M.log = L.log, M.buffed \subseteq Players, M.flagged \subseteq Players,
         M.near \in [Players -> SUBSET Objects], M.intent \in [Players -> {"idle", "cast", "walk"}],
         \A e \in M.events : clock <= e.at
  PROVE  Held(M)
<1>1. ASSUME NEW q \in Players, q # p PROVE Kept(M, q)
  <2>1. Kept(L, q) /\ L.body[q] \in Body
    BY DEF Held, Kept, Whole
  <2>2. Beside(L.body[q], M.body[q])
    BY <1>1, <2>1 DEF Beside
  <2> QED BY <1>1, <2>1, <2>2, BesideKept
<1> QED BY <1>1 DEF Held

-----------------------------------------------------------------------------
(* The helpers. *)

LEMMA RebuildFields ==
  ASSUME NEW b \in Body, NEW e \in SUBSET Buff, NEW a, a = RebuildStatMods([b EXCEPT !.effects = e])
  PROVE  /\ a \in Body /\ a.effects = e /\ a.mods = ModsOf(a, e) /\ a.casting = b.casting
         /\ a.flag = b.flag /\ a.shown = b.shown /\ a.gear = b.gear /\ a.mp = b.mp /\ a.hp = b.hp
<1> DEFINE d == [b EXCEPT !.effects = e]
           m == [gear |-> b.gear, from |-> {x.skill : x \in e}]
           r == [d EXCEPT !.mods = m, !.valid = FALSE]
<1>1. m \in Mods
  BY DEF Mods, Body, Buff
<1>2. /\ d \in Body /\ d.effects = e /\ d.gear = b.gear /\ d.casting = b.casting
      /\ d.flag = b.flag /\ d.shown = b.shown /\ d.mp = b.mp /\ d.hp = b.hp
  BY DEF Body
<1>3. ModsOf(d, d.effects) = m
  BY <1>2 DEF ModsOf
<1>4. RebuildStatMods([b EXCEPT !.effects = e]) = r
  BY <1>3 DEF RebuildStatMods
<1> HIDE DEF m, d
<1>5. /\ r \in Body /\ r.effects = e /\ r.mods = m /\ r.casting = b.casting
      /\ r.flag = b.flag /\ r.shown = b.shown /\ r.gear = b.gear /\ r.mp = b.mp /\ r.hp = b.hp
  BY <1>1, <1>2 DEF Body
<1>6. ModsOf(r, e) = m
  BY <1>5 DEF ModsOf, m
<1> QED BY <1>4, <1>5, <1>6

(* The loop changes the effects of p. *)
LEMMA EffectsKept ==
  ASSUME NEW L, Held(L), NEW p \in Players, NEW e, Exclusive(e), NEW M,
         M.body = [L.body EXCEPT ![p] = RebuildStatMods([L.body[p] EXCEPT !.effects = e])],
         M.log = L.log, M.events = L.events, M.near = L.near, M.intent = L.intent,
         M.flagged = L.flagged, M.lost = L.lost,
         M.mixed = IF dressing[p] = <<>> THEN L.mixed \ {p} ELSE L.mixed \union {p},
         M.buffed \subseteq Players, \A q \in Players : q # p => (q \in M.buffed <=> q \in L.buffed),
         p \in here /\ e # {} /\ <<"buff", p>> \notin L.lost => p \in M.buffed,
         Outlived(e) \subseteq Outlived(L.body[p].effects)
  PROVE  Held(M)
<1> DEFINE b == L.body[p]
           r == M.body[p]
<1>1. Kept(L, p) /\ b \in Body /\ e \in SUBSET Buff
  BY DEF Held, Kept, Whole, Exclusive
<1>0. L.body \in [Players -> Body]
  BY DEF Held
<1>2. /\ r \in Body /\ r.effects = e /\ r.mods = ModsOf(r, e) /\ r.casting = b.casting
      /\ r.flag = b.flag /\ r.shown = b.shown
  <2>1. r = RebuildStatMods([b EXCEPT !.effects = e])
    BY <1>0
  <2> HIDE DEF b, r
  <2> QED BY <1>1, <2>1, RebuildFields
<1>3. Whole(r) /\ Vouched(r, M.log)
  BY <1>1, <1>2 DEF Whole, Kept, Vouched
<1>4. p \in here => Coloured(r, p \in M.flagged, <<"flag", p>> \in M.lost)
  BY <1>1, <1>2 DEF Kept, Coloured
<1>5. p \in here => Lasting(r, p \in M.buffed, <<"buff", p>> \in M.lost)
  BY <1>1, <1>2 DEF Kept, Lasting
<1>6. p \in here => Added(r, dressing[p], p \in M.mixed)
  BY <1>2 DEF Added
<1>7. Kept(M, p)
  BY <1>3, <1>4, <1>5, <1>6 DEF Kept
<1>8. \A q \in Players : q # p => (q \in M.mixed <=> q \in L.mixed) /\ M.body[q] = L.body[q]
  BY <1>0
<1>9. /\ M.near \in [Players -> SUBSET Objects] /\ M.intent \in [Players -> {"idle", "cast", "walk"}]
      /\ \A x \in M.events : clock <= x.at
      /\ M.flagged \subseteq Players
  BY DEF Held
<1>10. M.body \in [Players -> Body]
  <2>1. M.body = [L.body EXCEPT ![p] = r]
    BY <1>0
  <2> HIDE DEF r
  <2> QED BY <1>0, <1>2, <2>1
<1> HIDE DEF b, r
<1> QED BY <1>7, <1>8, <1>9, <1>10, HeldOne

LEMMA AddBuffExclusive ==
  ASSUME NEW e, Exclusive(e), NEW s \in Skills, NEW level \in Nat, clock \in Nat
  PROVE  LET added == AddBuff(e, NewBuff(s, level))
         IN  /\ added.ok => Exclusive(added.list) /\ Outlived(added.list) \subseteq Outlived(e)
             /\ ~added.ok => added.list = e
<1> DEFINE n == NewBuff(s, level)
           rest == WithoutSkill(e, s)
           list == {c \in rest : ~SameType(n, c)} \union {n}
<1>1. /\ n \in Buff /\ n.skill = s /\ n.type = Data[s].type
      /\ n.expires = 0 \/ clock < n.expires
  <2>1. Data[s] \in SkillTemplate
    BY EffectsAssumption
  <2> QED BY <2>1 DEF NewBuff, SkillTemplate, Buff
<1> HIDE DEF n
<1>2. e \subseteq Buff /\ rest \subseteq e /\ \A x \in rest : x.skill # s
  BY DEF Exclusive, WithoutSkill
<1>3. AddBuff(e, n) = IF Stronger(rest, n) THEN [ok |-> FALSE, list |-> rest] ELSE [ok |-> TRUE, list |-> list]
  BY <1>1 DEF AddBuff
<1>4. ASSUME Stronger(rest, n) PROVE rest = e
  <2>1. PICK c \in rest : SameType(c, n)
    BY <1>4 DEF Stronger
  <2>2. SUFFICES ASSUME NEW x \in e, x.skill = s PROVE FALSE
    BY DEF WithoutSkill
  <2>3. x # c /\ x.type = n.type
    BY <1>1, <1>2, <2>2 DEF Exclusive
  <2>4. SameType(x, c)
    BY <2>1, <2>3 DEF SameType
  <2> QED BY <1>2, <2>3, <2>4 DEF Exclusive
<1>5. Exclusive(list)
  <2>1. list \subseteq Buff /\ \A x \in list : x.type = Data[x.skill].type
    BY <1>1, <1>2 DEF Exclusive
  <2>2. ASSUME NEW x \in list, NEW y \in list, x # y PROVE x.skill # y.skill /\ ~SameType(x, y)
    <3>1. CASE x = n
      BY <1>1, <1>2, <2>2, <3>1
    <3>2. CASE y = n
      BY <1>1, <1>2, <2>2, <3>2 DEF SameType
    <3>3. CASE x # n /\ y # n
      BY <1>2, <2>2, <3>3 DEF Exclusive
    <3> QED BY <3>1, <3>2, <3>3
  <2> QED BY <2>1, <2>2 DEF Exclusive
<1>6. Outlived(list) \subseteq Outlived(e)
  <2>1. n \notin Outlived(list)
    BY <1>1 DEF Outlived, Buff
  <2> QED BY <1>2, <2>1 DEF Outlived
<1> HIDE DEF list, rest
<1>7. LET added == AddBuff(e, n)
      IN  /\ added.ok => Exclusive(added.list) /\ Outlived(added.list) \subseteq Outlived(e)
          /\ ~added.ok => added.list = e
  BY <1>3, <1>4, <1>5, <1>6
<1> QED BY <1>7 DEF n

LEMMA FewerExclusive ==
  ASSUME NEW e, Exclusive(e), NEW f \in SUBSET e
  PROVE  Exclusive(f) /\ Outlived(f) \subseteq Outlived(e)
BY DEF Exclusive, Outlived

LEMMA ApplyBuffHeld ==
  ASSUME NEW L, Shaped(L), Held(L), NEW t, NEW s \in Skills, NEW level \in Nat, here \subseteq Players, clock \in Nat
  PROVE  Held(ApplyBuff(L, t, s, level))
<1>1. CASE t \notin here
  BY <1>1 DEF ApplyBuff
<1>2. CASE t \in here
  <2> DEFINE b == L.body[t]
             added == AddBuff(b.effects, NewBuff(s, level))
             M == [SetEffects(L, t, added.list) EXCEPT !.buffed = @ \union {t}]
  <2>1. t \in Players /\ Exclusive(b.effects) /\ b \in Body
    BY <1>2 DEF Held, Kept, Whole
  <2>2. /\ added.ok => Exclusive(added.list) /\ Outlived(added.list) \subseteq Outlived(b.effects)
        /\ ~added.ok => added.list = b.effects
    BY <2>1, AddBuffExclusive
  <2>3. ApplyBuff(L, t, s, level) = IF ~added.ok THEN [L EXCEPT !.body[t].effects = added.list] ELSE M
    BY <1>2 DEF ApplyBuff
  <2>4. CASE ~added.ok
    <3> DEFINE N == [L EXCEPT !.body[t].effects = added.list]
    <3>1. /\ N.body = [L.body EXCEPT ![t] = [b EXCEPT !.effects = added.list]]
          /\ N.log = L.log /\ N.events = L.events /\ N.near = L.near /\ N.intent = L.intent
          /\ N.flagged = L.flagged /\ N.lost = L.lost /\ N.mixed = L.mixed /\ N.buffed = L.buffed
      BY DEF Shaped, Parts
    <3>2. [b EXCEPT !.effects = added.list] = b
      BY <2>1, <2>2, <2>4 DEF Body
    <3> HIDE DEF N
    <3>3. \A q \in Players : N.body[q] = L.body[q]
      BY <2>1, <3>1, <3>2 DEF Shaped
    <3>4. \A q \in Players : Beside(L.body[q], N.body[q])
      BY <3>3, Edits DEF Held, Kept, Whole
    <3>5. N.body \in [Players -> Body]
      BY <2>1, <3>1, <3>2 DEF Held
    <3>6. Held(N)
      BY <3>1, <3>4, <3>5, BesideHeld DEF Held
    <3> QED BY <2>3, <2>4, <3>6 DEF N
  <2>5. CASE added.ok
    <3> DEFINE e == added.list
    <3>1. /\ M.body = [L.body EXCEPT ![t] = RebuildStatMods([b EXCEPT !.effects = e])]
          /\ M.mixed = (IF dressing[t] = <<>> THEN L.mixed \ {t} ELSE L.mixed \union {t})
          /\ M.buffed = L.buffed \union {t}
          /\ M.log = L.log /\ M.events = L.events /\ M.near = L.near /\ M.intent = L.intent
          /\ M.flagged = L.flagged /\ M.lost = L.lost
      BY DEF SetEffects, Shaped, Parts
    <3> HIDE DEF M, e
    <3>2. M.body = [L.body EXCEPT ![t] = RebuildStatMods([L.body[t] EXCEPT !.effects = e])]
      BY <3>1
    <3>3. M.buffed \subseteq Players /\ \A q \in Players : q # t => (q \in M.buffed <=> q \in L.buffed)
      BY <2>1, <3>1 DEF Held
    <3>4. Exclusive(e) /\ Outlived(e) \subseteq Outlived(L.body[t].effects)
      BY <2>2, <2>5 DEF e
    <3>5. t \in M.buffed
      BY <3>1
    <3>6. Held(M)
      BY <2>1, <3>1, <3>2, <3>3, <3>4, <3>5, EffectsKept
    <3> QED BY <2>3, <2>5, <3>6
  <2> QED BY <2>4, <2>5
<1> QED BY <1>1, <1>2

LEMMA ToggleOffHeld ==
  ASSUME NEW L, Shaped(L), Held(L), NEW p \in Players, NEW s
  PROVE  Held(ToggleOff(L, p, s))
<1>1. CASE ~HasSkill(L.body[p].effects, s)
  BY <1>1 DEF ToggleOff
<1>2. CASE HasSkill(L.body[p].effects, s)
  <2> DEFINE b == L.body[p]
             e == WithoutSkill(b.effects, s)
             M == [SetEffects(L, p, e) EXCEPT !.buffed = IF e = {} THEN @ \ {p} ELSE @]
  <2>1. Kept(L, p) /\ b \in Body /\ Exclusive(b.effects)
    BY DEF Held, Kept, Whole
  <2>2. Exclusive(e) /\ Outlived(e) \subseteq Outlived(b.effects) /\ (e # {} => b.effects # {})
    <3>1. e \subseteq b.effects
      BY DEF WithoutSkill
    <3> HIDE DEF e
    <3> QED BY <2>1, <3>1, FewerExclusive
  <2>3. ToggleOff(L, p, s) = M
    BY <1>2 DEF ToggleOff
  <2> HIDE DEF e
  <2>4. /\ M.body = [L.body EXCEPT ![p] = RebuildStatMods([b EXCEPT !.effects = e])]
        /\ M.mixed = (IF dressing[p] = <<>> THEN L.mixed \ {p} ELSE L.mixed \union {p})
        /\ M.buffed = (IF e = {} THEN L.buffed \ {p} ELSE L.buffed)
        /\ M.log = L.log /\ M.events = L.events /\ M.near = L.near /\ M.intent = L.intent
        /\ M.flagged = L.flagged /\ M.lost = L.lost
    BY DEF SetEffects, Shaped, Parts
  <2> HIDE DEF M
  <2>5. M.body = [L.body EXCEPT ![p] = RebuildStatMods([L.body[p] EXCEPT !.effects = e])]
    BY <2>4
  <2>6. M.buffed \subseteq Players /\ \A q \in Players : q # p => (q \in M.buffed <=> q \in L.buffed)
    BY <2>4 DEF Held
  <2>7. p \in here /\ e # {} /\ <<"buff", p>> \notin L.lost => p \in M.buffed
    BY <2>1, <2>2, <2>4 DEF Kept, Lasting
  <2>8. Held(M)
    BY <2>2, <2>4, <2>5, <2>6, <2>7, EffectsKept
  <2> QED BY <2>3, <2>8
<1> QED BY <1>1, <1>2

(* A flag is set: it is shown, and runs for its full time from now. *)
LEMMA SetFlagHeld ==
  ASSUME NEW L, Shaped(L), Held(L), NEW p \in Players, clock \in Nat
  PROVE  Held(SetFlag(L, p)) /\ SetFlag(L, p).body[p].flag = clock + FlagTime
<1> DEFINE b == L.body[p]
           f == clock + FlagTime
           c == IF Flagged(b) THEN b.shown ELSE TRUE
           d == [b EXCEPT !.flag = f, !.shown = c]
           M == SetFlag(L, p)
<1>1. Kept(L, p) /\ b \in Body
  BY DEF Held, Kept, Whole
<1>2. /\ M.body = [L.body EXCEPT ![p] = d] /\ M.flagged = L.flagged \union {p}
      /\ M.lost = L.lost \ {<<"flag", p>>} /\ M.buffed = L.buffed /\ M.mixed = L.mixed
      /\ M.log = L.log /\ M.events = L.events /\ M.near = L.near /\ M.intent = L.intent
  <2>1. SetFlag(L, p) = [L EXCEPT !.body = [L.body EXCEPT ![p] = d], !.flagged = L.flagged \union {p},
                                  !.lost = L.lost \ {<<"flag", p>>}]
    <3> DEFINE B1 == [L.body EXCEPT ![p] = [b EXCEPT !.flag = f]]
    <3>1. B1[p] = [b EXCEPT !.flag = f] /\ [b EXCEPT !.flag = f].shown = b.shown
      BY <1>1 DEF Shaped, Body
    <3> QED BY <3>1 DEF SetFlag, Shaped, Parts
  <2> HIDE DEF d
  <2> QED BY <2>1 DEF Shaped, Parts
<1> HIDE DEF M
<1>3. f \in Nat \ {0} /\ clock < f
  BY EffectsAssumption
<1>4. /\ d \in Body /\ d.effects = b.effects /\ d.gear = b.gear /\ d.mods = b.mods
      /\ d.casting = b.casting /\ d.flag = f /\ d.shown = c
  BY <1>1, <1>3 DEF Body
<1>5. M.body[p] = d /\ \A q \in Players : q # p => M.body[q] = L.body[q]
  BY <1>2 DEF Shaped
<1> HIDE DEF d, f
<1>6. Whole(d)
  BY <1>1, <1>4 DEF Kept, Whole
<1>7. Vouched(d, M.log)
  <2>1. Vouched(b, L.log) /\ FlagTime \in Nat
    BY <1>1, EffectsAssumption DEF Kept
  <2> HIDE DEF b, c
  <2> QED BY <1>2, <1>4, <2>1 DEF Vouched, f
<1>8. p \in here => Coloured(d, p \in M.flagged, <<"flag", p>> \in M.lost)
  BY <1>1, <1>2, <1>3, <1>4 DEF Kept, Coloured, Flagged, Body
<1>9. p \in here => Lasting(d, p \in M.buffed, <<"buff", p>> \in M.lost)
  BY <1>1, <1>2, <1>4 DEF Kept, Lasting
<1>10. p \in here => Added(d, dressing[p], p \in M.mixed)
  BY <1>1, <1>2, <1>4 DEF Kept, Added, ModsOf
<1>11. Kept(M, p)
  BY <1>5, <1>6, <1>7, <1>8, <1>9, <1>10 DEF Kept
<1>12. Held(M)
  <2>1. \A q \in Players : q # p => /\ q \in M.flagged <=> q \in L.flagged
                                    /\ <<"flag", q>> \in M.lost <=> <<"flag", q>> \in L.lost
                                    /\ <<"buff", q>> \in M.lost <=> <<"buff", q>> \in L.lost
    BY <1>2
  <2>2. /\ M.near \in [Players -> SUBSET Objects] /\ M.intent \in [Players -> {"idle", "cast", "walk"}]
        /\ \A x \in M.events : clock <= x.at
        /\ M.flagged \subseteq Players /\ M.buffed \subseteq Players /\ M.body \in [Players -> Body]
    BY <1>2, <1>4 DEF Held
  <2> QED BY <1>2, <1>5, <1>11, <2>1, <2>2, HeldOne
<1> QED BY <1>4, <1>5, <1>12 DEF M, f

LEMMA FieldHeld ==
  ASSUME NEW L, Shaped(L), Held(L), NEW p \in Players, NEW d, Beside(L.body[p], d), NEW M,
         M.body = [L.body EXCEPT ![p] = d], M.log = L.log, M.buffed = L.buffed, M.flagged = L.flagged,
         M.mixed = L.mixed, M.lost = L.lost,
         M.near \in [Players -> SUBSET Objects], M.intent \in [Players -> {"idle", "cast", "walk"}],
         \A e \in M.events : clock <= e.at
  PROVE  Held(M)
<1>1. M.body[p] = d /\ \A q \in Players : q # p => M.body[q] = L.body[q]
  BY DEF Shaped
<1>2. \A q \in Players : Beside(L.body[q], M.body[q])
  BY <1>1, Edits DEF Held, Kept, Whole
<1>3. M.body \in [Players -> Body]
  BY DEF Held, Beside
<1> QED BY <1>2, <1>3, BesideHeld

LEMMA HurtHeld ==
  ASSUME NEW L, Shaped(L), Held(L), NEW t \in Players, L.body[t].hp # 0, clock \in Nat
  PROVE  Held(Hurt(L, t))
<1> DEFINE b == L.body[t]
           x == b.hp - 1
           M == [L EXCEPT !.body[t].hp = x]
           d == [b EXCEPT !.hp = x]
<1>1. Hurt(L, t) = SetFlag(M, t)
  BY DEF Hurt
<1>2. Beside(b, d)
  <2>1. b \in Body
    BY DEF Held, Kept, Whole
  <2>2. b.hp \in 0..MaxHP /\ b.hp # 0
    BY <2>1 DEF Body
  <2>0. MaxHP \in Nat
    BY EffectsAssumption
  <2>3. x \in 0..MaxHP
    <3> DEFINE k == b.hp
    <3>1. k \in 0..MaxHP /\ k # 0
      BY <2>2
    <3> HIDE DEF k, b
    <3>2. k - 1 \in 0..MaxHP
      BY <2>0, <3>1
    <3> QED BY <3>2 DEF k
  <2> HIDE DEF b
  <2> HIDE DEF x
  <2> QED BY <2>1, <2>3, Edits
<1> HIDE DEF x
<1>3. Shaped(M)
  BY FieldAlike, AlikeIsShaped
<1>4. /\ M.body = [L.body EXCEPT ![t] = d] /\ M.log = L.log /\ M.buffed = L.buffed /\ M.flagged = L.flagged
      /\ M.mixed = L.mixed /\ M.lost = L.lost /\ M.near = L.near /\ M.intent = L.intent /\ M.events = L.events
  BY DEF Shaped, Parts
<1> HIDE DEF M, d
<1>6. /\ M.near \in [Players -> SUBSET Objects] /\ M.intent \in [Players -> {"idle", "cast", "walk"}]
      /\ \A y \in M.events : clock <= y.at
  BY <1>4 DEF Held
<1>5. Held(M)
  BY <1>2, <1>4, <1>6, FieldHeld
<1> QED BY <1>1, <1>3, <1>5, SetFlagHeld

LEMMA RestoreHeld ==
  ASSUME NEW L, Shaped(L), Held(L), NEW t, here \subseteq Players
  PROVE  Held(Restore(L, t))
<1>1. CASE t \in here /\ L.body[t].hp > 0
  <2> DEFINE b == L.body[t]
             x == IF b.hp < MaxHP THEN b.hp + 1 ELSE b.hp
             M == [L EXCEPT !.body[t].hp = x]
             d == [b EXCEPT !.hp = x]
  <2>1. Restore(L, t) = M
    BY <1>1 DEF Restore
  <2>2. Beside(b, d)
    <3>1. b \in Body
      BY <1>1 DEF Held, Kept, Whole
    <3>2. b.hp \in 0..MaxHP
      BY <3>1 DEF Body
    <3>3. x \in 0..MaxHP
      BY <3>2, EffectsAssumption
    <3> HIDE DEF x, b
    <3> QED BY <3>1, <3>3, Edits
  <2>3. /\ M.body = [L.body EXCEPT ![t] = d] /\ M.log = L.log /\ M.buffed = L.buffed /\ M.flagged = L.flagged
        /\ M.mixed = L.mixed /\ M.lost = L.lost /\ M.near = L.near /\ M.intent = L.intent /\ M.events = L.events
    BY DEF Shaped, Parts
  <2> HIDE DEF M, d
  <2>4. /\ M.near \in [Players -> SUBSET Objects] /\ M.intent \in [Players -> {"idle", "cast", "walk"}]
        /\ \A y \in M.events : clock <= y.at
    BY <2>3 DEF Held
  <2>5. Held(M)
    BY <1>1, <2>2, <2>3, <2>4, FieldHeld
  <2> QED BY <2>1, <2>5
<1>2. CASE ~(t \in here /\ L.body[t].hp > 0)
  BY <1>2 DEF Restore
<1> QED BY <1>1, <1>2

LEMMA StrikeHeld ==
  ASSUME NEW L, Shaped(L), Held(L), NEW p, NEW t, NEW s, here \subseteq Players, clock \in Nat
  PROVE  Held(Strike(L, p, t, s))
<1>1. CASE ~(t \in here /\ t # p) \/ L.body[t].hp = 0
  BY <1>1 DEF Strike
<1>2. CASE t \in here /\ t # p /\ L.body[t].hp # 0
  <2>1. Held(Hurt(L, t)) /\ Shaped(Hurt(L, t))
    BY <1>2, HurtHeld, HurtAlike, AlikeIsShaped
  <2>2. Held(Restore(Hurt(L, t), p))
    BY <2>1, RestoreHeld
  <2> QED BY <1>2, <2>1, <2>2 DEF Strike
<1> QED BY <1>1, <1>2

LEMMA TeleportHeld ==
  ASSUME NEW L, Shaped(L), Held(L), NEW p \in Players
  PROVE  Held(Teleport(L, p))
<1> DEFINE b == L.body[p]
           d1 == [b EXCEPT !.target = Nobody]
           d == [d1 EXCEPT !.moving = FALSE]
           n == [q \in Players |-> IF q = p THEN {} ELSE L.near[q] \ {p}]
           M == [L EXCEPT !.body = [L.body EXCEPT ![p] = d], !.near = n]
<1>1. Teleport(L, p) = M
  <2>1. [L EXCEPT !.body[p].target = Nobody, !.body[p].moving = FALSE].near = L.near
    BY DEF Shaped, Parts
  <2>2. [[L.body EXCEPT ![p] = d1] EXCEPT ![p] = d] = [L.body EXCEPT ![p] = d] /\ [L.body EXCEPT ![p] = d1][p] = d1
    BY DEF Shaped
  <2> QED BY <2>1, <2>2 DEF Teleport, Shaped, Parts
<1>2. Beside(b, d)
  <2>1. b \in Body
    BY DEF Held, Kept, Whole
  <2> HIDE DEF b
  <2>2. Beside(b, d1)
    BY <2>1, Edits
  <2>4. d1 \in Body
    BY <2>2 DEF Beside
  <2> HIDE DEF d1
  <2>3. Beside(d1, d)
    BY <2>4, Edits
  <2> HIDE DEF d
  <2> QED BY <2>2, <2>3, BesideTrans
<1>3. /\ M.body = [L.body EXCEPT ![p] = d] /\ M.log = L.log /\ M.buffed = L.buffed /\ M.flagged = L.flagged
      /\ M.mixed = L.mixed /\ M.lost = L.lost /\ M.near = n /\ M.intent = L.intent /\ M.events = L.events
  BY DEF Shaped, Parts
<1>4. n \in [Players -> SUBSET Objects]
  BY DEF Held
<1> HIDE DEF M, d, n
<1>6. /\ M.near \in [Players -> SUBSET Objects] /\ M.intent \in [Players -> {"idle", "cast", "walk"}]
      /\ \A y \in M.events : clock <= y.at
  BY <1>3, <1>4 DEF Held
<1>5. Held(M)
  BY <1>2, <1>3, <1>6, FieldHeld
<1> QED BY <1>1, <1>5

LEMMA SkillEffectsHeld ==
  ASSUME NEW L, Shaped(L), Held(L), NEW p \in Players, NEW t, NEW s \in Skills, NEW level \in Nat,
         here \subseteq Players, clock \in Nat
  PROVE  Held(ApplySkillEffects(L, p, t, s, level))
BY ApplyBuffHeld, TeleportHeld, RestoreHeld, StrikeHeld DEF ApplySkillEffects

(* What a character carries does not depend on these. *)
LEMMA SameHeld ==
  ASSUME NEW L, Held(L), NEW M, M.body = L.body, M.log = L.log, M.buffed = L.buffed, M.flagged = L.flagged,
         M.mixed = L.mixed, M.lost = L.lost, M.near = L.near,
         M.intent \in [Players -> {"idle", "cast", "walk"}], \A e \in M.events : clock <= e.at
  PROVE  Held(M)
<1>1. \A p \in Players : Kept(M, p)
  BY DEF Held, Kept
<1> QED BY <1>1 DEF Held

LEMMA ArmedHeld ==
  ASSUME NEW L, Shaped(L), Held(L), NEW p, NEW s
  PROVE  Held(ArmReuse(L, p, s))
<1> DEFINE M == [L EXCEPT !.ready[p][s] = clock + Data[s].reuse]
<1>1. /\ M.body = L.body /\ M.log = L.log /\ M.buffed = L.buffed /\ M.flagged = L.flagged
      /\ M.mixed = L.mixed /\ M.lost = L.lost /\ M.near = L.near /\ M.intent = L.intent /\ M.events = L.events
  BY DEF Shaped, Parts
<1> HIDE DEF M
<1>2. Held(M)
  BY <1>1, SameHeld DEF Held
<1> QED BY <1>2 DEF ArmReuse, M

LEMMA ForgetHeld ==
  ASSUME NEW L, Shaped(L), Held(L), NEW p
  PROVE  Held([L EXCEPT !.pending[p] = NoPending])
<1> DEFINE M == [L EXCEPT !.pending[p] = NoPending]
<1>1. /\ M.body = L.body /\ M.log = L.log /\ M.buffed = L.buffed /\ M.flagged = L.flagged
      /\ M.mixed = L.mixed /\ M.lost = L.lost /\ M.near = L.near /\ M.intent = L.intent /\ M.events = L.events
  BY DEF Shaped, Parts
<1> HIDE DEF M
<1>2. Held(M)
  BY <1>1, SameHeld DEF Held
<1> QED BY <1>2 DEF M

LEMMA StartApproachHeld ==
  ASSUME NEW L, Shaped(L), Held(L), NEW p \in Players, NEW t, NEW s, NEW ctrl, clock \in Nat
  PROVE  Held(StartApproach(L, p, t, s, ctrl))
<1>1. CASE L.pending[p].skill = s
  BY <1>1 DEF StartApproach
<1>2. CASE L.pending[p].skill # s
  <2> DEFINE P == [L.pending EXCEPT ![p] = [skill |-> s, ctrl |-> ctrl]]
             d == [L.body[p] EXCEPT !.moving = TRUE]
             I == [L.intent EXCEPT ![p] = "cast"]
             e == [kind |-> "approach", at |-> clock + 1, who |-> p, target |-> t, skill |-> s,
                   ctrl |-> ctrl, id |-> 0]
             E == L.events \union {e}
             M == [L EXCEPT !.pending = P, !.intent = I, !.body = [L.body EXCEPT ![p] = d], !.events = E]
  <2>1. StartApproach(L, p, t, s, ctrl) = M
    BY <1>2 DEF StartApproach
  <2>2. /\ M.body = [L.body EXCEPT ![p] = d] /\ M.log = L.log /\ M.buffed = L.buffed /\ M.flagged = L.flagged
        /\ M.mixed = L.mixed /\ M.lost = L.lost /\ M.near = L.near /\ M.intent = I /\ M.events = E
    BY DEF Shaped, Parts
  <2>3. Beside(L.body[p], d)
    BY Edits DEF Held, Kept, Whole
  <2>4. I \in [Players -> {"idle", "cast", "walk"}] /\ M.near \in [Players -> SUBSET Objects]
    BY <2>2 DEF Held
  <2>5. \A x \in M.events : clock <= x.at
    BY <2>2 DEF Held
  <2> HIDE DEF M, d, I, E
  <2>6. Held(M)
    BY <2>2, <2>3, <2>4, <2>5, FieldHeld
  <2> QED BY <2>1, <2>6
<1> QED BY <1>1, <1>2

(* MP that is there is spent. *)
LEMMA PaidHeld ==
  ASSUME NEW L, Shaped(L), Held(L), NEW p \in Players, NEW n \in 0..MaxMP
  PROVE  Held([L EXCEPT !.body[p].mp = n])
<1> DEFINE d == [L.body[p] EXCEPT !.mp = n]
           M == [L EXCEPT !.body[p].mp = n]
<1>1. /\ M.body = [L.body EXCEPT ![p] = d] /\ M.log = L.log /\ M.buffed = L.buffed /\ M.flagged = L.flagged
      /\ M.mixed = L.mixed /\ M.lost = L.lost /\ M.near = L.near /\ M.intent = L.intent /\ M.events = L.events
  BY DEF Shaped, Parts
<1>2. Beside(L.body[p], d)
  BY Edits DEF Held, Kept, Whole
<1> HIDE DEF M, d
<1>3. /\ M.near \in [Players -> SUBSET Objects] /\ M.intent \in [Players -> {"idle", "cast", "walk"}]
      /\ \A y \in M.events : clock <= y.at
  BY <1>1 DEF Held
<1>4. Held(M)
  BY <1>1, <1>2, <1>3, FieldHeld
<1> QED BY <1>4 DEF M

(* Who passes the gate with harm that nothing has provoked wears a flag for it. *)
LEMMA GateHeld ==
  ASSUME NEW L, Shaped(L), Held(L), NEW p \in Players, NEW t, NEW s \in Skills, NEW ctrl \in BOOLEAN, clock \in Nat
  PROVE  LET g == Gate(L, p, t, s, ctrl)
         IN  /\ Held(g.L)
             /\ g.ok /\ IsOffensive(s) /\ t # p /\ ~(t \notin here \/ Provoked(p, t)) =>
                  g.L.body[p].flag = clock + FlagTime
<1> DEFINE against == IsOffensive(s) /\ t # p /\ t \in here
           F == IF against /\ ~Provoked(p, t) /\ ctrl THEN SetFlag(L, p) ELSE L
           n == F.body[p].mp - Data[s].mp1
           N == [F EXCEPT !.body[p].mp = n]
           g == Gate(L, p, t, s, ctrl)
<1>1. Alike(L, F)
  BY SetFlagAlike, AlikeRefl
<1>2. g = IF against /\ ~MayAttack(p, t, ctrl) THEN [ok |-> FALSE, L |-> L]
          ELSE IF L.body[p].mp < MpDue(s) THEN [ok |-> FALSE, L |-> F]
          ELSE [ok |-> TRUE, L |-> N]
  BY DEF Gate
<1>3. Held(F) /\ (against /\ ~Provoked(p, t) /\ ctrl => F.body[p].flag = clock + FlagTime)
  BY SetFlagHeld
<1>4. against /\ ~Provoked(p, t) /\ MayAttack(p, t, ctrl) => ctrl
  BY DEF MayAttack
<1> HIDE DEF F, g
<1>5. Shaped(F) /\ DOMAIN F.body = Players /\ DOMAIN F = Parts
  BY <1>1, AlikeIsShaped DEF Alike
<1>6. /\ F.body[p].mp \in 0..MaxMP /\ L.body[p].mp \in 0..MaxMP /\ F.body[p].mp >= L.body[p].mp
  BY <1>1, <1>3 DEF Held, Kept, Whole, Body, Alike, Spared
<1>7. CASE L.body[p].mp >= MpDue(s)
  <2>1. n \in 0..MaxMP
    <3>1. Data[s].mp1 \in Nat /\ Data[s].mp2 \in Nat /\ MaxMP \in Nat
      BY DataTyped, EffectsAssumption
    <3> QED BY <1>6, <1>7, <3>1 DEF MpDue
  <2> HIDE DEF n
  <2>2. Held(N)
    BY <1>3, <1>5, <2>1, PaidHeld
  <2>3. N.body[p].flag = F.body[p].flag
    <3>1. DOMAIN F.body[p] = Fields
      BY <1>5 DEF Shaped, IsBody
    <3> QED BY <1>5, <3>1 DEF Parts, Fields
  <2> HIDE DEF N
  <2> QED BY <1>2, <1>3, <1>4, <2>2, <2>3 DEF g
<1>8. CASE ~(L.body[p].mp >= MpDue(s))
  <2>1. L.body[p].mp < MpDue(s)
    <3>1. Data[s].mp1 \in Nat /\ Data[s].mp2 \in Nat /\ MaxMP \in Nat
      BY DataTyped, EffectsAssumption
    <3> QED BY <1>6, <1>8, <3>1 DEF MpDue
  <2> QED BY <1>2, <1>3, <2>1 DEF g
<1> QED BY <1>7, <1>8

LEMMA BeginHeld ==
  ASSUME NEW L, Fine(L), Held(L), NEW p \in Players, NEW t \in Objects, NEW s \in Skills, NEW ctrl,
         here \subseteq Players, clock \in Nat,
         IsOffensive(s) /\ t # p /\ ~(t \notin here \/ Provoked(p, t)) => L.body[p].flag = clock + FlagTime
  PROVE  Held(Begin(L, p, t, s, ctrl))
<1>1. CASE Data[s].kind = "toggle"
  <2> DEFINE A == ApplySkillEffects(L, p, t, s, Known[p][s])
  <2>1. Known[p][s] \in Nat
    BY EffectsAssumption
  <2>2. Held(A) /\ Shaped(A)
    BY <2>1, SkillEffectsHeld, SkillEffectsAlike, AlikeIsShaped DEF Fine
  <2> HIDE DEF A
  <2>3. Held(ArmReuse(A, p, s))
    BY <2>2, ArmedHeld
  <2> QED BY <1>1, <2>3 DEF Begin, A
<1>2. CASE Data[s].kind # "toggle"
  <2> DEFINE fair == t \notin here \/ Provoked(p, t)
             c == [who |-> p, skill |-> s, target |-> t, start |-> clock, hits |-> 0, landed |-> 0,
                   aborted |-> FALSE, cleared |-> FALSE, fair |-> fair, answer |-> 0]
             id == Len(L.log) + 1
             e == [kind |-> "hit", at |-> clock + Data[s].cast, who |-> p, target |-> t, skill |-> s,
                   ctrl |-> FALSE, id |-> id]
             k == [id |-> id, skill |-> s, target |-> t]
             b == L.body[p]
             d == [b EXCEPT !.casting = k]
             N == Append(L.log, c)
             M == [L EXCEPT !.body = [L.body EXCEPT ![p] = d], !.events = L.events \union {e}, !.log = N]
  <2>1. Begin(L, p, t, s, ctrl) = M
    BY <1>2 DEF Begin
  <2>2. Shaped(L) /\ Data[s].cast \in Nat /\ Kept(L, p) /\ b \in Body
    BY DataTyped DEF Fine, Held, Kept, Whole
  <2>3. /\ Len(L.log) \in Nat /\ DOMAIN L.log = 1..Len(L.log)
        /\ \A i \in DOMAIN L.log : L.log[i] \in Cast
    BY <2>2, LogTyped
  <2>4. c \in Cast
    BY DEF Cast, Provoked, Flagged
  <2>5. DOMAIN N = 1..id /\ N[id] = c /\ \A i \in DOMAIN L.log : N[i] = L.log[i]
    BY <2>2, <2>3, <2>4, AppendProperties DEF Shaped
  <2>6. c.start = clock /\ c.hits = 0 /\ (Owes(c) => b.flag = clock + FlagTime)
    BY DEF Owes
  <2>7. /\ d \in Body /\ d.effects = b.effects /\ d.flag = b.flag /\ d.shown = b.shown
        /\ d.gear = b.gear /\ d.mods = b.mods /\ d.casting = k
    <3>1. k \in Casting
      BY <2>3 DEF Casting
    <3> HIDE DEF k, b
    <3> QED BY <2>2, <3>1 DEF Body
  <2>8. k.id = id /\ clock <= e.at
    BY <2>2
  <2>9. /\ M.body = [L.body EXCEPT ![p] = d] /\ M.log = N /\ M.buffed = L.buffed /\ M.flagged = L.flagged
        /\ M.mixed = L.mixed /\ M.lost = L.lost /\ M.near = L.near /\ M.intent = L.intent
        /\ M.events = L.events \union {e}
    BY <2>2 DEF Shaped, Parts
  <2> HIDE DEF c, e, k, N, M, d, fair
  <2>10. M.body[p] = d /\ \A q \in Players : q # p => M.body[q] = L.body[q]
    BY <2>2, <2>9 DEF Shaped
  <2>11. Kept(M, p)
    <3>1. Whole(d)
      BY <2>2, <2>7 DEF Kept, Whole
    <3>2. FlagTime \in Nat
      BY EffectsAssumption
    <3>3. Vouched(d, N)
      BY <2>5, <2>6, <2>7, <2>8, <3>2 DEF Vouched
    <3>4. p \in here => Coloured(d, p \in M.flagged, <<"flag", p>> \in M.lost)
      BY <2>2, <2>7, <2>9 DEF Kept, Coloured
    <3>5. p \in here => Lasting(d, p \in M.buffed, <<"buff", p>> \in M.lost)
      BY <2>2, <2>7, <2>9 DEF Kept, Lasting
    <3>6. p \in here => Added(d, dressing[p], p \in M.mixed)
      BY <2>2, <2>7, <2>9 DEF Kept, Added, ModsOf
    <3> QED BY <2>9, <2>10, <3>1, <3>3, <3>4, <3>5, <3>6 DEF Kept
  <2>12. ASSUME NEW q \in Players, q # p PROVE Kept(M, q)
    <3>1. M.body[q] = L.body[q] /\ Kept(L, q)
      BY <2>10, <2>12 DEF Held
    <3>2. Vouched(M.body[q], M.log)
      <4>1. CASE M.body[q].casting = NoCast
        BY <4>1 DEF Vouched
      <4>2. CASE M.body[q].casting # NoCast
        <5>1. M.body[q].casting.id \in DOMAIN L.log
          BY <3>1, <4>2 DEF Fine, Linked
        <5> QED BY <2>5, <2>9, <3>1, <5>1 DEF Kept, Vouched
      <4> QED BY <4>1, <4>2
    <3> QED BY <2>9, <3>1, <3>2 DEF Kept
  <2>13. Told(N)
    <3> SUFFICES ASSUME NEW i \in DOMAIN N
                 PROVE  /\ N[i].start \in 0..clock
                        /\ N[i].hits > 0 /\ Owes(N[i]) => N[i].answer > N[i].landed
      BY DEF Told
    <3>1. CASE i = id
      BY <2>5, <2>6, <3>1
    <3>2. CASE i # id
      <4>1. i \in DOMAIN L.log
        BY <2>3, <2>5, <3>2
      <4> QED BY <2>5, <4>1 DEF Held, Told
    <3> QED BY <3>1, <3>2
  <2>14. M.body \in [Players -> Body] /\ \A x \in M.events : clock <= x.at
    BY <2>7, <2>8, <2>9 DEF Held
  <2>15. Held(M)
    BY <2>9, <2>11, <2>12, <2>13, <2>14 DEF Held
  <2> QED BY <2>1, <2>15
<1> QED BY <1>1, <1>2

LEMMA TryCastHeld ==
  ASSUME NEW L, Fine(L), Held(L), Fine(L0), NEW p \in Players, NEW s \in Skills, NEW ctrl \in BOOLEAN,
         here \subseteq Players, clock \in Nat
  PROVE  Held(TryCast(L, p, s, ctrl))
<1> DEFINE t == CastTarget(p, s)
           R == [L EXCEPT !.pending[p] = NoPending]
           g == Gate(R, p, t, s, ctrl)
<1>1. TryCast(L, p, s, ctrl) =
        IF ~Castable(L, p, s) THEN L
        ELSE IF Data[s].kind = "toggle" /\ HasSkill(L.body[p].effects, s) THEN ToggleOff(L, p, s)
        ELSE IF clock < L.ready[p][s] \/ t = Nobody THEN L
        ELSE IF ~InRange(p, t, s) THEN StartApproach(L, p, t, s, ctrl)
        ELSE IF ~g.ok THEN g.L
        ELSE Begin(g.L, p, t, s, ctrl)
  BY DEF TryCast
<1>2. t \in Objects \union {Nobody} /\ Shaped(L)
  BY TargetTyped DEF Fine
<1>3. Fine(R) /\ Held(R) /\ R.body = L.body
  <2>1. DOMAIN L = Parts
    BY <1>2 DEF Shaped
  <2> QED BY <1>2, <2>1, ForgetIsFine, ForgetHeld DEF Parts
<1> HIDE DEF t, R
<1>4. Held(ToggleOff(L, p, s)) /\ Held(StartApproach(L, p, t, s, ctrl))
  BY <1>2, ToggleOffHeld, StartApproachHeld
<1>5. /\ Held(g.L)
      /\ g.ok /\ IsOffensive(s) /\ t # p /\ ~(t \notin here \/ Provoked(p, t)) =>
           g.L.body[p].flag = clock + FlagTime
  <2>1. Shaped(R)
    BY <1>3 DEF Fine
  <2> QED BY <1>3, <2>1, GateHeld
<1>6. ASSUME Castable(L, p, s) PROVE Fine(g.L)
  <2>1. R.body[p].casting = NoCast
    BY <1>3, <1>6 DEF Castable
  <2> QED BY <1>3, <2>1, GateIsFine
<1> HIDE DEF g
<1>7. ASSUME Castable(L, p, s), t # Nobody, g.ok
      PROVE  Held(Begin(g.L, p, t, s, ctrl))
  <2>1. t \in Objects
    BY <1>2, <1>7
  <2> QED BY <1>5, <1>6, <1>7, <2>1, BeginHeld
<1> QED BY <1>1, <1>4, <1>5, <1>7

(* The log of casts is written to, and the casts in it stay what they were. *)
SameCast(c, d) == /\ d.who = c.who /\ d.skill = c.skill /\ d.target = c.target
                  /\ d.start = c.start /\ d.fair = c.fair

LEMMA RelogHeld ==
  ASSUME NEW L, Fine(L), Held(L), NEW M, \A p \in Players : Beside(L.body[p], M.body[p]),
         \A i \in DOMAIN L.log : SameCast(L.log[i], M.log[i]), Told(M.log),
         M.buffed = L.buffed, M.flagged = L.flagged, M.mixed = L.mixed, M.lost = L.lost,
         M.body \in [Players -> Body], M.near \in [Players -> SUBSET Objects],
         M.intent \in [Players -> {"idle", "cast", "walk"}], \A e \in M.events : clock <= e.at
  PROVE  Held(M)
<1>1. ASSUME NEW p \in Players PROVE Kept(M, p)
  <2>1. Kept(L, p) /\ Beside(L.body[p], M.body[p])
    BY DEF Held
  <2>2. Whole(M.body[p])
    BY <2>1 DEF Kept, Whole, Beside
  <2>3. Vouched(M.body[p], M.log)
    <3>1. CASE M.body[p].casting = NoCast
      BY <3>1 DEF Vouched
    <3>2. CASE M.body[p].casting # NoCast
      <4>1. M.body[p].casting = L.body[p].casting /\ L.body[p].casting.id \in DOMAIN L.log
        BY <2>1, <3>2 DEF Beside, Fine, Linked
      <4> DEFINE c == L.log[L.body[p].casting.id]
                 d == M.log[L.body[p].casting.id]
      <4>2. SameCast(c, d) /\ M.body[p].flag = L.body[p].flag
        BY <2>1, <4>1 DEF Beside
      <4>3. c.start \in 0..clock /\ (Owes(c) => L.body[p].flag >= c.start + FlagTime \/ clock >= c.start + FlagTime)
        BY <2>1, <3>2, <4>1 DEF Kept, Vouched
      <4> HIDE DEF c, d
      <4>4. d.start \in 0..clock /\ (Owes(d) => M.body[p].flag >= d.start + FlagTime \/ clock >= d.start + FlagTime)
        BY <4>2, <4>3 DEF SameCast, Owes
      <4> QED BY <4>1, <4>4 DEF Vouched, d
    <3> QED BY <3>1, <3>2
  <2>4. p \in here => Coloured(M.body[p], p \in M.flagged, <<"flag", p>> \in M.lost)
    BY <2>1 DEF Kept, Coloured, Beside
  <2>5. p \in here => Lasting(M.body[p], p \in M.buffed, <<"buff", p>> \in M.lost)
    BY <2>1 DEF Kept, Lasting, Beside
  <2>6. p \in here => Added(M.body[p], dressing[p], p \in M.mixed)
    BY <2>1 DEF Kept, Added, Beside, ModsOf
  <2> QED BY <2>2, <2>3, <2>4, <2>5, <2>6 DEF Kept
<1> QED BY <1>1 DEF Held

LEMMA AbortHeld ==
  ASSUME NEW L, Fine(L), Held(L), NEW p \in Players
  PROVE  Held(AbortCast(L, p))
<1> DEFINE id == L.body[p].casting.id
<1>1. CASE p \notin here \/ id = 0
  BY <1>1 DEF AbortCast
<1>2. CASE p \in here /\ id # 0
  <2> DEFINE b == [L.body[p] EXCEPT !.casting = NoCast]
             d == [L.log[id] EXCEPT !.aborted = TRUE]
             N == [L.log EXCEPT ![id] = d]
             M == [L EXCEPT !.body = [L.body EXCEPT ![p] = b], !.log = N]
  <2>1. AbortCast(L, p) = M
    BY <1>2 DEF AbortCast
  <2>2. id \in DOMAIN L.log
    BY <1>2 DEF Fine, Linked, NoCast
  <2>3. Shaped(L) /\ \A i \in DOMAIN L.log : L.log[i] \in Cast
    BY LogTyped DEF Fine
  <2>4. d \in Cast /\ SameCast(L.log[id], d) /\ d.hits = L.log[id].hits /\ d.answer = L.log[id].answer
        /\ d.landed = L.log[id].landed
    BY <2>2, <2>3 DEF Cast, SameCast
  <2> HIDE DEF d
  <2>5. DOMAIN N = DOMAIN L.log /\ N[id] = d /\ \A i \in DOMAIN L.log : i # id => N[i] = L.log[i]
    BY <2>2, <2>3, <2>4, LogUpdate
  <2>6. Beside(L.body[p], b)
    BY Edits DEF Held, Kept, Whole
  <2> HIDE DEF b, N
  <2>7. /\ M.body[p] = b /\ \A q \in Players : q # p => M.body[q] = L.body[q]
        /\ M.body = [L.body EXCEPT ![p] = b] /\ M.log = N /\ M.buffed = L.buffed /\ M.flagged = L.flagged /\ M.mixed = L.mixed
        /\ M.lost = L.lost /\ M.near = L.near /\ M.intent = L.intent /\ M.events = L.events
    BY <2>3 DEF Shaped, Parts
  <2> HIDE DEF M, id
  <2>8. \A q \in Players : Beside(L.body[q], M.body[q])
    BY <2>6, <2>7, Edits DEF Held, Kept, Whole
  <2>9. \A i \in DOMAIN L.log : SameCast(L.log[i], N[i])
    BY <2>4, <2>5 DEF SameCast
  <2>10. Told(N)
    BY <2>4, <2>5 DEF Held, Told, Owes, SameCast
  <2>11. M.body \in [Players -> Body]
    BY <2>6, <2>7 DEF Held, Beside
  <2>12. Held(M)
    BY <2>7, <2>8, <2>9, <2>10, <2>11, RelogHeld DEF Held
  <2> QED BY <2>1, <2>12
<1> QED BY <1>1, <1>2

(* The hit comes while the flag for it still runs. *)
LEMMA LandingHeld ==
  ASSUME NEW L, Fine(L), Held(L), NEW p \in Players, NEW c, c.id \in DOMAIN L.log, L.log[c.id].skill = c.skill,
         here \subseteq Players, clock \in Nat, L.body[p].casting = NoCast,
         Owes(L.log[c.id]) => L.body[p].flag >= L.log[c.id].start + FlagTime \/ clock >= L.log[c.id].start + FlagTime,
         clock <= L.log[c.id].start + Data[c.skill].cast
  PROVE  Held(Landing(L, p, c))
<1> DEFINE id == c.id
           s == c.skill
           A == PayHit(L, p, s)
           B == ApplySkillEffects(A, p, c.target, s, Known[p][s])
           C == ArmReuse(B, p, s)
           a == L.body[p].flag
           d == [C.log[id] EXCEPT !.hits = @ + 1, !.landed = clock, !.answer = a]
           N == [C.log EXCEPT ![id] = d]
           M == [C EXCEPT !.log = N]
<1>1. L.log[id] \in Cast /\ s \in Skills /\ L.body[p].mp \in 0..MaxMP /\ a \in Nat
  <2>1. L.log[id] \in Cast
    BY LogTyped DEF Fine
  <2>2. L.body[p] \in Body
    BY DEF Held, Kept, Whole
  <2> QED BY <2>1, <2>2 DEF Cast, Body
<1>2. Landing(L, p, c) = [C EXCEPT !.log[id].hits = @ + 1, !.log[id].landed = clock, !.log[id].answer = a]
  BY DEF Landing
<1> HIDE DEF s, A, B, C, a, id
<1>3. Fine(A) /\ Held(A) /\ A.log = L.log
  <2>1. CASE L.body[p].mp < Data[s].mp2
    BY <2>1 DEF PayHit, A
  <2>2. CASE ~(L.body[p].mp < Data[s].mp2)
    <3> DEFINE n == L.body[p].mp - Data[s].mp2
    <3>1. n \in 0..MaxMP
      <4>1. Data[s].mp2 \in Nat /\ MaxMP \in Nat
        BY <1>1, DataTyped, EffectsAssumption
      <4> QED BY <1>1, <2>2, <4>1
    <3>2. A = [L EXCEPT !.body[p].mp = n]
      BY <2>2 DEF PayHit, A
    <3> HIDE DEF n
    <3> QED BY <3>1, <3>2, PaidIsFine, PaidHeld DEF Fine
  <2> QED BY <2>1, <2>2
<1>4. Fine(B) /\ Held(B) /\ B.log = L.log
  <2>1. Known[p][s] \in Nat /\ Shaped(A)
    BY <1>1, <1>3, EffectsAssumption DEF Fine
  <2>2. Alike(A, B)
    BY <2>1, SkillEffectsAlike DEF B
  <2>3. Held(B)
    BY <1>1, <1>3, <2>1, SkillEffectsHeld DEF B
  <2> QED BY <1>3, <2>2, <2>3, AlikeIsFine DEF Alike
<1>5. Fine(C) /\ Held(C) /\ C.log = L.log
  BY <1>1, <1>4, ArmedIsFine, ArmedHeld DEF C, Fine
<1>6. Shaped(C) /\ id \in DOMAIN C.log
  BY <1>5 DEF Fine, id
<1>7. [C EXCEPT !.log[id].hits = @ + 1, !.log[id].landed = clock, !.log[id].answer = a] = M
  <2> DEFINE x1 == [C.log[id] EXCEPT !.hits = @ + 1]
             x2 == [x1 EXCEPT !.landed = clock]
             x3 == [x2 EXCEPT !.answer = a]
  <2>1. d = x3
    BY <1>1, <1>5 DEF Cast
  <2>2. [C.log EXCEPT ![id].hits = @ + 1, ![id].landed = clock, ![id].answer = a] = [C.log EXCEPT ![id] = x3]
    BY <1>6
  <2> QED BY <2>1, <2>2, <1>6 DEF Shaped, Parts
<1>8. /\ d \in Cast /\ SameCast(L.log[id], d) /\ d.landed = clock /\ d.answer = a /\ d.skill = L.log[id].skill
      /\ d.start = L.log[id].start
  <2> DEFINE k == L.log[id]
             n == k.hits + 1
  <2>1. k \in Cast /\ d = [k EXCEPT !.hits = n, !.landed = clock, !.answer = a]
    BY <1>1, <1>5
  <2>2. n \in Nat
    BY <1>1 DEF Cast
  <2> HIDE DEF k, n, d
  <2>3. d \in Cast /\ SameCast(k, d) /\ d.landed = clock /\ d.answer = a
    BY <1>1, <2>1, <2>2 DEF Cast, SameCast
  <2> QED BY <2>3 DEF SameCast, k
<1> HIDE DEF d
<1>9. DOMAIN N = DOMAIN L.log /\ N[id] = d /\ \A i \in DOMAIN L.log : i # id => N[i] = L.log[i]
  BY <1>5, <1>6, <1>8, LogUpdate
<1> HIDE DEF N
<1>10. /\ M.body = C.body /\ M.log = N /\ M.buffed = C.buffed /\ M.flagged = C.flagged /\ M.mixed = C.mixed
       /\ M.lost = C.lost /\ M.near = C.near /\ M.intent = C.intent /\ M.events = C.events
  BY <1>6 DEF Shaped, Parts
<1> HIDE DEF M
<1>11. Owes(d) => d.answer > d.landed
  <2> SUFFICES ASSUME Owes(d) PROVE a > clock
    BY <1>8
  <2>1. Owes(L.log[id]) /\ IsOffensive(s)
    BY <1>8 DEF Owes, SameCast, id, s
  <2>2. Data[s].cast < FlagTime /\ Data[s].cast \in Nat /\ FlagTime \in Nat
    BY <1>1, <2>1, CastsAreShort, DataTyped, EffectsAssumption
  <2>3. L.log[id].start \in Nat
    BY <1>1 DEF Cast
  <2>4. /\ a >= L.log[id].start + FlagTime \/ clock >= L.log[id].start + FlagTime
        /\ clock <= L.log[id].start + Data[s].cast
    BY <2>1 DEF id, s, a
  <2> QED BY <1>1, <2>2, <2>3, <2>4
<1>12. Told(N)
  <2>1. Told(L.log)
    BY DEF Held
  <2>2. ASSUME NEW i \in DOMAIN N
        PROVE  N[i].start \in 0..clock /\ (N[i].hits > 0 /\ Owes(N[i]) => N[i].answer > N[i].landed)
    <3>1. CASE i = id
      BY <1>8, <1>9, <1>11, <2>1, <2>2, <3>1 DEF Told
    <3>2. CASE i # id
      BY <1>9, <2>1, <2>2, <3>2 DEF Told
    <3> QED BY <3>1, <3>2
  <2> QED BY <2>2 DEF Told
<1>13. \A i \in DOMAIN C.log : SameCast(C.log[i], N[i])
  BY <1>5, <1>8, <1>9 DEF SameCast
<1>14. \A q \in Players : Beside(C.body[q], M.body[q])
  BY <1>5, <1>10, Edits DEF Held, Kept, Whole
<1>15. /\ M.body \in [Players -> Body] /\ M.near \in [Players -> SUBSET Objects] /\ M.intent \in [Players -> {"idle", "cast", "walk"}]
       /\ \A y \in M.events : clock <= y.at
  BY <1>5, <1>10 DEF Held
<1>16. Held(M)
  BY <1>5, <1>10, <1>12, <1>13, <1>14, <1>15, RelogHeld
<1> QED BY <1>2, <1>7, <1>16

-----------------------------------------------------------------------------
(* The invariant, and what keeps it. *)

Hands == {<<>>} \union {<<m>> : m \in Mods}

Settled ==
  /\ leaving \subseteq here /\ notices \subseteq Players
  /\ dressing \in [Players -> Hands] /\ \A p \in Players : p \notin here => dressing[p] = <<>>
  /\ S = [x \in LoopParts |-> S[x]] /\ S.computing \in Players \union {Nobody}
  /\ swept \in 0..clock /\ clock \in 0..MaxClock

CarriesInv == EffectsInv /\ Settled /\ Held(L0)

LEMMA MoreParts0 ==
  /\ L0.buffed = S.buffed /\ L0.flagged = S.flagged /\ L0.mixed = h.mixed /\ L0.lost = h.lost
  /\ L0.near = near /\ L0.intent = S.intent
BY DEF L0

(* A character that L leaves as it is is the same in the next state. *)
LEMMA StepKept ==
  ASSUME NEW L, NEW p \in Players, Kept(L, p), Beside(L.body[p], body'[p]), h'.log = L.log,
         clock' = clock, swept' = swept, p \in here' => p \in here, dressing'[p] = dressing[p],
         p \in S'.buffed <=> p \in L.buffed, p \in S'.flagged <=> p \in L.flagged,
         p \in h'.mixed <=> p \in L.mixed, <<"flag", p>> \in h'.lost <=> <<"flag", p>> \in L.lost,
         <<"buff", p>> \in h'.lost <=> <<"buff", p>> \in L.lost
  PROVE  Kept(L0, p)'
<1> DEFINE b == L.body[p]
           d == body'[p]
<1>1. /\ L0'.body[p] = d /\ L0'.log = L.log /\ L0'.buffed = S'.buffed /\ L0'.flagged = S'.flagged
      /\ L0'.mixed = h'.mixed /\ L0'.lost = h'.lost
  BY DEF L0
<1>2. d \in Body /\ d.effects = b.effects /\ d.flag = b.flag /\ d.shown = b.shown
      /\ d.gear = b.gear /\ d.mods = b.mods /\ (d.casting = b.casting \/ d.casting = NoCast)
  BY DEF Beside
<1> HIDE DEF b, d
<1>3. Whole(L0.body[p])'
  BY <1>1, <1>2 DEF Kept, Whole, Exclusive, SameType, b
<1>4. Vouched(L0.body[p], L0.log)'
  BY <1>1, <1>2 DEF Kept, Vouched, Owes, IsOffensive, b
<1>5. p \in here' => Coloured(L0.body[p], p \in L0.flagged, <<"flag", p>> \in L0.lost)'
  BY <1>1, <1>2 DEF Kept, Coloured, b
<1>6. p \in here' => Lasting(L0.body[p], p \in L0.buffed, <<"buff", p>> \in L0.lost)'
  BY <1>1, <1>2 DEF Kept, Lasting, Outlived, b
<1>7. p \in here' => Added(L0.body[p], dressing[p], p \in L0.mixed)'
  BY <1>1, <1>2 DEF Kept, Added, ModsOf, b
<1> QED BY <1>3, <1>4, <1>5, <1>6, <1>7 DEF Kept

LEMMA StepTold == ASSUME NEW log, Told(log), h'.log = log, clock' = clock PROVE Told(L0.log)'
<1>1. L0'.log = log
  BY DEF L0
<1> QED BY <1>1 DEF Told, Owes, IsOffensive

LEMMA StepHeld ==
  ASSUME \A p \in Players : Kept(L0, p)', Told(L0.log)', S'.buffed \subseteq Players, S'.flagged \subseteq Players,
         body' \in [Players -> Body], near' \in [Players -> SUBSET Objects],
         S'.intent \in [Players -> {"idle", "cast", "walk"}], \A e \in S'.events : clock' <= e.at
  PROVE  Held(L0)'
<1>1. /\ L0'.buffed = S'.buffed /\ L0'.flagged = S'.flagged /\ L0'.near = near' /\ L0'.intent = S'.intent
      /\ L0'.events = S'.events /\ L0'.body = body'
  BY DEF L0
<1> QED BY <1>1 DEF Held

(* A handler of the loop leaves the state it computes. *)
LEMMA BecomeHeld ==
  ASSUME CarriesInv, NEW M, Held(M), Become(M), UNCHANGED <<here, leaving, dressing, clock, swept>>,
         notices' \subseteq notices
  PROVE  Held(L0)' /\ Settled'
<1>1. /\ S'.buffed = M.buffed /\ S'.flagged = M.flagged /\ S'.intent = M.intent /\ S'.events = M.events
      /\ h'.mixed = M.mixed /\ h'.lost = M.lost /\ h'.log = M.log /\ body' = M.body /\ near' = M.near
      /\ S'.computing = S.computing /\ S' = [x \in LoopParts |-> S'[x]]
  BY DEF Become, CarriesInv, EffectsInv, LoopParts, Memory
<1>2. \A p \in Players : Kept(L0, p)'
  <2> TAKE p \in Players
  <2>1. Kept(M, p) /\ Beside(M.body[p], body'[p])
    BY <1>1, Edits DEF Held, Kept, Whole
  <2> QED BY <1>1, <2>1, StepKept
<1>3. Told(L0.log)'
  BY <1>1, StepTold DEF Held
<1>4. Held(L0)'
  BY <1>1, <1>2, <1>3, StepHeld DEF Held
<1>5. Settled'
  BY <1>1 DEF CarriesInv, Settled
<1> QED BY <1>4, <1>5

LEMMA MovedHeld ==
  ASSUME NEW L, Shaped(L), Held(L), NEW p \in Players, NEW x \in BOOLEAN
  PROVE  Held([L EXCEPT !.body[p].moving = x])
<1> DEFINE d == [L.body[p] EXCEPT !.moving = x]
           M == [L EXCEPT !.body[p].moving = x]
<1>1. /\ M.body = [L.body EXCEPT ![p] = d] /\ M.log = L.log /\ M.buffed = L.buffed /\ M.flagged = L.flagged
      /\ M.mixed = L.mixed /\ M.lost = L.lost /\ M.near = L.near /\ M.intent = L.intent /\ M.events = L.events
  BY DEF Shaped, Parts
<1>2. Beside(L.body[p], d)
  BY Edits DEF Held, Kept, Whole
<1> HIDE DEF M, d
<1>3. /\ M.near \in [Players -> SUBSET Objects] /\ M.intent \in [Players -> {"idle", "cast", "walk"}]
      /\ \A y \in M.events : clock <= y.at
  BY <1>1 DEF Held
<1>4. Held(M)
  BY <1>1, <1>2, <1>3, FieldHeld
<1> QED BY <1>4 DEF M

LEMMA IntentHeld ==
  ASSUME NEW L, Shaped(L), Held(L), NEW I \in [Players -> {"idle", "cast", "walk"}]
  PROVE  Held([L EXCEPT !.intent = I])
<1> DEFINE M == [L EXCEPT !.intent = I]
<1>1. /\ M.body = L.body /\ M.log = L.log /\ M.buffed = L.buffed /\ M.flagged = L.flagged
      /\ M.mixed = L.mixed /\ M.lost = L.lost /\ M.near = L.near /\ M.intent = I /\ M.events = L.events
  BY DEF Shaped, Parts
<1> HIDE DEF M
<1>2. Held(M)
  BY <1>1, SameHeld DEF Held
<1> QED BY <1>2 DEF M

LEMMA HitCarries ==
  ASSUME CarriesInv, NEW e \in S.events, e.at <= clock, CastHit(e),
         UNCHANGED <<here, leaving, notices, dressing, clock, swept>>
  PROVE  Held(L0)' /\ Settled'
<1> DEFINE p == e.who
           E == S.events \ {e}
           done == [L0 EXCEPT !.events = E]
           free == [done EXCEPT !.body[p].casting = NoCast]
           c == body[p].casting
           M == IF Superseded(e) THEN done ELSE IF body[p].hp = 0 THEN free ELSE Landing(free, p, c)
<1>1. e.kind = "hit" /\ Become(M)
  BY LoopParts0 DEF CastHit
<1>2. /\ p \in Players /\ Fine(L0) /\ Held(L0) /\ Shaped(L0) /\ here \subseteq Players /\ clock \in Nat
      /\ e.at \in Nat /\ DOMAIN body = Players
  BY LoopParts0, BodyRefl DEF CarriesInv, EffectsInv, Fine, Shaped, Event
<1>3. e.at = clock
  <2>1. clock <= e.at
    BY <1>2, LoopParts0 DEF Held
  <2> QED BY <1>2, <2>1
<1>4. /\ DOMAIN done = Parts /\ done.body = body /\ done.ready = L0.ready /\ done.log = L0.log
      /\ done.events = L0.events \ {e} /\ done.pending = L0.pending /\ done.buffed = L0.buffed
      /\ done.flagged = L0.flagged /\ done.mixed = L0.mixed /\ done.lost = L0.lost
      /\ done.near = L0.near /\ done.intent = L0.intent
  BY LoopParts0 DEF Parts
<1> HIDE DEF done
<1>5. Fine(done) /\ Shaped(done) /\ Held(done)
  <2>1. Fine(done)
    BY <1>1, <1>2, <1>4, LoopParts0, HandledIsFine
  <2>2. Held(done)
    BY <1>2, <1>4, LoopParts0, SameHeld DEF Held
  <2> QED BY <2>1, <2>2 DEF Fine
<1>6. Fine(free) /\ free.body[p].casting = NoCast /\ free.log = h.log /\ free.body[p].flag = body[p].flag
  BY <1>2, <1>4, <1>5, LoopParts0, FreedIsFine
<1>7. Held(free)
  <2> DEFINE d == [body[p] EXCEPT !.casting = NoCast]
  <2>1. /\ free.body = [done.body EXCEPT ![p] = d] /\ free.log = done.log /\ free.buffed = done.buffed
        /\ free.flagged = done.flagged /\ free.mixed = done.mixed /\ free.lost = done.lost
        /\ free.near = done.near /\ free.intent = done.intent /\ free.events = done.events
    BY <1>4 DEF Parts
  <2>2. Beside(done.body[p], d)
    BY <1>2, <1>4, <1>5, Edits DEF Held, Kept, Whole
  <2> HIDE DEF free, d
  <2>3. /\ free.near \in [Players -> SUBSET Objects] /\ free.intent \in [Players -> {"idle", "cast", "walk"}]
        /\ \A y \in free.events : clock <= y.at
    BY <1>5, <2>1 DEF Held
  <2> QED BY <1>2, <1>5, <2>1, <2>2, <2>3, FieldHeld
<1> HIDE DEF free, p
<1>8. ASSUME ~Superseded(e) PROVE Held(Landing(free, p, c))
  <2>1. c.id = e.id /\ e.id \in DOMAIN h.log /\ e.at = h.log[e.id].start + Data[h.log[e.id].skill].cast
    BY <1>1, <1>2, <1>8, LoopParts0 DEF Superseded, Fine, Queued, p
  <2>2. c # NoCast
    BY <2>1, <1>2, LogTyped, LoopParts0 DEF NoCast, Fine
  <2>3. h.log[c.id].skill = c.skill
    BY <1>2, <2>2, LoopParts0 DEF Fine, Linked
  <2>4. Vouched(body[p], h.log)
    BY <1>2, LoopParts0 DEF Held, Kept
  <2>5. Owes(h.log[c.id]) => \/ free.body[p].flag >= h.log[c.id].start + FlagTime
                             \/ clock >= h.log[c.id].start + FlagTime
    BY <1>6, <2>2, <2>4 DEF Vouched
  <2>6. clock <= h.log[c.id].start + Data[c.skill].cast
    BY <1>2, <1>3, <2>1, <2>3
  <2> HIDE DEF c
  <2> QED BY <1>2, <1>6, <1>7, <2>1, <2>3, <2>5, <2>6, LandingHeld
<1>9. Held(M)
  BY <1>5, <1>7, <1>8
<1> HIDE DEF M
<1> QED BY <1>1, <1>9, BecomeHeld

LEMMA ApproachCarries ==
  ASSUME CarriesInv, NEW e \in S.events, CastApproach(e),
         UNCHANGED <<here, leaving, notices, dressing, clock, swept>>
  PROVE  Held(L0)' /\ Settled'
<1> DEFINE p == e.who
           E == S.events \ {e}
           done == [L0 EXCEPT !.events = E]
           clear == ClearPending(done, p, e.skill)
           x == [e EXCEPT !.at = clock + 1]
           F == done.events \union {x}
           more == [done EXCEPT !.events = F]
           again == [more EXCEPT !.body[p].moving = TRUE]
           stop == [clear EXCEPT !.body[p].moving = FALSE]
           I == [stop.intent EXCEPT ![p] = "idle"]
           arrived == [stop EXCEPT !.intent = I]
           M == IF S.pending[p].skill # e.skill THEN done
                ELSE IF Abandons(e) THEN clear
                ELSE IF ~InRange(p, e.target, e.skill) THEN again
                ELSE TryCast(arrived, p, e.skill, e.ctrl)
<1>1. e.kind = "approach" /\ Become(M)
  <2>1. [clear EXCEPT !.body[p].moving = FALSE, !.intent[p] = "idle"] = arrived
    OBVIOUS
  <2> QED BY <2>1, LoopParts0 DEF CastApproach
<1>2. /\ p \in Players /\ Fine(L0) /\ Held(L0) /\ here \subseteq Players /\ clock \in Nat /\ DOMAIN body = Players
      /\ e \in Event /\ e.skill \in Skills /\ e.ctrl \in BOOLEAN /\ Shaped(L0)
  BY LoopParts0, BodyRefl DEF CarriesInv, EffectsInv, Fine, Shaped, Event
<1>3. /\ DOMAIN done = Parts /\ done.body = body /\ done.ready = L0.ready /\ done.log = L0.log
      /\ done.events = L0.events \ {e} /\ done.pending = S.pending /\ done.buffed = L0.buffed
      /\ done.flagged = L0.flagged /\ done.mixed = L0.mixed /\ done.lost = L0.lost
      /\ done.near = L0.near /\ done.intent = L0.intent
  BY LoopParts0 DEF Parts
<1> HIDE DEF done
<1>4. Shaped(done) /\ Held(done)
  <2>1. Shaped(done)
    BY <1>2, <1>3, LoopParts0 DEF Shaped
  <2>2. Held(done)
    BY <1>2, <1>3, LoopParts0, SameHeld DEF Held
  <2> QED BY <2>1, <2>2
<1>5. S.pending[p].skill = e.skill => Fine(clear)
  BY <1>2, <1>3, ClearedIsFine
<1>6. Held(clear)
  BY <1>4, ForgetHeld DEF ClearPending
<1>7. Held(again)
  <2>1. x \in Event /\ clock <= x.at
    BY <1>2 DEF Event
  <2> HIDE DEF x
  <2>2. F \subseteq Event /\ \A y \in F : clock <= y.at
    BY <1>4, <2>1 DEF Shaped, Held
  <2> HIDE DEF F
  <2>3. /\ DOMAIN more = Parts /\ more.body = done.body /\ more.log = done.log /\ more.buffed = done.buffed
        /\ more.flagged = done.flagged /\ more.mixed = done.mixed /\ more.lost = done.lost
        /\ more.near = done.near /\ more.intent = done.intent /\ more.events = F
        /\ more.pending = done.pending /\ more.ready = done.ready
    BY <1>3 DEF Parts
  <2> HIDE DEF more
  <2>4. Shaped(more) /\ Held(more)
    <3>1. Shaped(more)
      BY <1>4, <2>2, <2>3 DEF Shaped
    <3>2. Held(more)
      BY <1>4, <2>2, <2>3, SameHeld DEF Held
    <3> QED BY <3>1, <3>2
  <2> QED BY <1>2, <2>4, MovedHeld
<1>8. M = again => [done EXCEPT !.events = @ \union {x}, !.body[p].moving = TRUE] = again
  OBVIOUS
<1> HIDE DEF clear, again, p
<1>9. S.pending[p].skill = e.skill => Held(TryCast(arrived, p, e.skill, e.ctrl))
  <2> SUFFICES ASSUME S.pending[p].skill = e.skill PROVE Held(TryCast(arrived, p, e.skill, e.ctrl))
    OBVIOUS
  <2>1. Fine(stop) /\ Held(stop)
    BY <1>2, <1>5, <1>6, FieldAlike, AlikeIsFine, MovedHeld DEF Fine
  <2>2. I \in [Players -> {"idle", "cast", "walk"}]
    BY <2>1 DEF Held
  <2> HIDE DEF stop, I
  <2>3. Fine(arrived) /\ Held(arrived)
    BY <2>1, <2>2, SidesAlike, AlikeIsFine, IntentHeld DEF Fine
  <2> HIDE DEF arrived
  <2> QED BY <1>2, <2>3, TryCastHeld
<1>10. Held(M)
  BY <1>4, <1>6, <1>7, <1>9
<1> HIDE DEF M
<1> QED BY <1>1, <1>10, BecomeHeld

(* What every handler of the loop starts from. *)
LEMMA Starts ==
  ASSUME CarriesInv
  PROVE  /\ Fine(L0) /\ Shaped(L0) /\ Held(L0) /\ here \subseteq Players /\ clock \in Nat
         /\ body \in [Players -> Body] /\ \A p \in Players : body[p] \in Body /\ Kept(L0, p)
BY LoopParts0 DEF CarriesInv, EffectsInv, Fine, Held, Kept, Whole

LEMMA RequestCarries ==
  ASSUME CarriesInv, NEW p \in Players, NEW s \in Skills
  PROVE  /\ \A ctrl \in BOOLEAN : CastRequest(p, s, ctrl) => Held(L0)' /\ Settled'
         /\ ItemSkillCast(p, s) => Held(L0)' /\ Settled'
         /\ Dispel(p, s) => Held(L0)' /\ Settled'
<1>1. ASSUME NEW ctrl \in BOOLEAN, CastRequest(p, s, ctrl) PROVE Held(L0)' /\ Settled'
  <2>1. Held(TryCast(L0, p, s, ctrl))
    BY Starts, TryCastHeld
  <2> QED BY <1>1, <2>1, BecomeHeld DEF CastRequest, SameWorld
<1>2. ASSUME ItemSkillCast(p, s) PROVE Held(L0)' /\ Settled'
  <2>1. Held(ApplySkillEffects(L0, p, p, s, 1))
    BY Starts, SkillEffectsHeld
  <2> QED BY <1>2, <2>1, BecomeHeld DEF ItemSkillCast, SameWorld
<1>3. ASSUME Dispel(p, s) PROVE Held(L0)' /\ Settled'
  <2>1. Held(ToggleOff(L0, p, s))
    BY Starts, ToggleOffHeld
  <2> QED BY <1>3, <2>1, BecomeHeld DEF Dispel, SameWorld
<1> QED BY <1>1, <1>2, <1>3

LEMMA MoveCarries ==
  ASSUME CarriesInv, NEW p \in Players, MoveToLocation(p)
  PROVE  Held(L0)' /\ Settled'
<1> DEFINE A == AbortCast(L0, p)
           P == [A EXCEPT !.pending[p] = NoPending]
           I == [P.intent EXCEPT ![p] = "walk"]
           N == [P EXCEPT !.intent = I]
           M == [N EXCEPT !.body[p].moving = TRUE]
<1>1. Fine(A) /\ Held(A)
  BY Starts, AbortIsFine, AbortHeld
<1>2. DOMAIN A = Parts
  BY <1>1 DEF Fine, Shaped
<1>3. Become(M) /\ UNCHANGED <<here, leaving, notices, dressing, clock, swept>>
  <2>1. [A EXCEPT !.pending[p] = NoPending, !.intent[p] = "walk", !.body[p].moving = TRUE] = M
    BY <1>2 DEF Parts
  <2> QED BY <2>1 DEF MoveToLocation, SameWorld
<1> HIDE DEF A
<1>4. Fine(P) /\ Held(P)
  BY <1>1, ForgetIsFine, ForgetHeld DEF Fine
<1> HIDE DEF P
<1>5. I \in [Players -> {"idle", "cast", "walk"}]
  BY <1>4 DEF Held
<1> HIDE DEF I
<1>6. Fine(N) /\ Held(N)
  BY <1>4, <1>5, SidesAlike, AlikeIsFine, IntentHeld DEF Fine
<1> HIDE DEF N
<1>7. Held(M)
  BY <1>6, MovedHeld DEF Fine
<1> HIDE DEF M
<1> QED BY <1>3, <1>7, BecomeHeld

LEMMA ArriveCarries ==
  ASSUME CarriesInv, NEW p \in Players, Arrive(p)
  PROVE  Held(L0)' /\ Settled'
<1>1. PICK o \in Objects : Become([L0 EXCEPT !.body[p].moving = FALSE, !.near[p] = @ \union {o}])
  BY DEF Arrive
<1> DEFINE N == [L0 EXCEPT !.body[p].moving = FALSE]
           n == [L0.near EXCEPT ![p] = @ \union {o}]
           M == [N EXCEPT !.near = n]
<1>2. [L0 EXCEPT !.body[p].moving = FALSE, !.near[p] = @ \union {o}] = M
  <2>1. N.near = L0.near
    BY LoopParts0 DEF Parts
  <2> QED BY <2>1
<1>3. Held(N) /\ Shaped(N)
  BY Starts, MovedHeld, FieldAlike, AlikeIsShaped
<1>4. n \in [Players -> SUBSET Objects]
  <2>1. L0.near \in [Players -> SUBSET Objects]
    BY Starts DEF Held
  <2> QED BY <2>1
<1> HIDE DEF N, n
<1>5. /\ M.body = N.body /\ M.log = N.log /\ M.buffed = N.buffed /\ M.flagged = N.flagged
      /\ M.mixed = N.mixed /\ M.lost = N.lost /\ M.near = n /\ M.intent = N.intent /\ M.events = N.events
  BY <1>3 DEF Shaped, Parts
<1> HIDE DEF M
<1>6. M.body \in [Players -> Body] /\ \A q \in Players : Beside(N.body[q], M.body[q])
  BY <1>3, <1>5, Edits DEF Held, Kept, Whole
<1>7. Held(M)
  BY <1>3, <1>4, <1>5, <1>6, BesideHeld DEF Held
<1>8. UNCHANGED <<here, leaving, notices, dressing, clock, swept>>
  BY DEF Arrive, SameWorld
<1> QED BY <1>1, <1>2, <1>7, <1>8, BecomeHeld

(* The loop sets the HP of a character. *)
LEMMA HpHeld ==
  ASSUME NEW L, Shaped(L), Held(L), NEW p \in Players, NEW x \in 0..MaxHP
  PROVE  Held([L EXCEPT !.body[p].hp = x])
<1> DEFINE d == [L.body[p] EXCEPT !.hp = x]
           M == [L EXCEPT !.body[p].hp = x]
<1>1. /\ M.body = [L.body EXCEPT ![p] = d] /\ M.log = L.log /\ M.buffed = L.buffed /\ M.flagged = L.flagged
      /\ M.mixed = L.mixed /\ M.lost = L.lost /\ M.near = L.near /\ M.intent = L.intent /\ M.events = L.events
  BY DEF Shaped, Parts
<1>2. Beside(L.body[p], d)
  BY Edits DEF Held, Kept, Whole
<1> HIDE DEF M, d
<1>3. /\ M.near \in [Players -> SUBSET Objects] /\ M.intent \in [Players -> {"idle", "cast", "walk"}]
      /\ \A y \in M.events : clock <= y.at
  BY <1>1 DEF Held
<1>4. Held(M)
  BY <1>1, <1>2, <1>3, FieldHeld
<1> QED BY <1>4 DEF M

LEMMA WoundCarries ==
  ASSUME CarriesInv, NEW p \in Players, Wound(p)
  PROVE  Held(L0)' /\ Settled'
<1> DEFINE x == L0.body[p].hp - 1
           M == [L0 EXCEPT !.body[p].hp = x]
<1>1. Become(M) /\ UNCHANGED <<here, leaving, notices, dressing, clock, swept>>
  BY DEF Wound, SameWorld
<1>2. body[p].hp \in 0..MaxHP /\ body[p].hp > 0 /\ MaxHP \in Nat
  BY Starts, EffectsAssumption DEF Wound, Living, Body
<1>3. x \in 0..MaxHP
  BY <1>2, LoopParts0
<1> HIDE DEF x
<1>4. Held(M)
  BY <1>3, Starts, HpHeld
<1> HIDE DEF M
<1> QED BY <1>1, <1>4, BecomeHeld

LEMMA RegenCarries == CarriesInv /\ Regen => Held(L0)' /\ Settled'
<1> SUFFICES ASSUME CarriesInv, Regen PROVE Held(L0)' /\ Settled'
  OBVIOUS
<1> DEFINE B == [p \in Players |-> IF Living(p) THEN Regenerated(L0.body[p]) ELSE L0.body[p]]
           M == [L0 EXCEPT !.body = B]
<1>1. Become(M) /\ UNCHANGED <<here, leaving, notices, dressing, clock, swept>>
  BY DEF Regen, SameWorld
<1>2. \A p \in Players : Beside(body[p], B[p])
  <2> TAKE p \in Players
  <2> DEFINE b == body[p]
             hp == IF b.hp < MaxHP THEN b.hp + 1 ELSE b.hp
             mp == IF b.mp < MaxMP THEN b.mp + 1 ELSE b.mp
             c == [b EXCEPT !.hp = hp]
             d == [c EXCEPT !.mp = mp]
  <2>1. b \in Body
    BY Starts
  <2>2. Regenerated(b) = d
    <3>1. c.mp = b.mp
      BY <2>1 DEF Body
    <3> QED BY <3>1 DEF Regenerated
  <2>3. hp \in 0..MaxHP /\ mp \in 0..MaxMP
    <3>1. b.hp \in 0..MaxHP /\ b.mp \in 0..MaxMP /\ MaxHP \in Nat /\ MaxMP \in Nat
      BY <2>1, EffectsAssumption DEF Body
    <3> QED BY <3>1
  <2> HIDE DEF hp, mp, b
  <2>4. Beside(b, c) /\ Beside(b, b)
    BY <2>1, <2>3, Edits
  <2>5. c \in Body
    BY <2>4 DEF Beside
  <2> HIDE DEF c
  <2>6. Beside(c, d)
    BY <2>3, <2>5, Edits
  <2>7. Beside(b, d)
    BY <2>4, <2>6, BesideTrans
  <2> HIDE DEF d
  <2> QED BY <2>2, <2>4, <2>7, LoopParts0 DEF b
<1>0. B \in [Players -> Body]
  BY <1>2 DEF Beside
<1> HIDE DEF B
<1>3. /\ M.body = B /\ M.log = L0.log /\ M.buffed = L0.buffed /\ M.flagged = L0.flagged
      /\ M.mixed = L0.mixed /\ M.lost = L0.lost /\ M.near = L0.near /\ M.intent = L0.intent
      /\ M.events = L0.events
  BY LoopParts0 DEF Parts
<1> HIDE DEF M
<1>4. /\ M.near \in [Players -> SUBSET Objects] /\ M.intent \in [Players -> {"idle", "cast", "walk"}]
      /\ \A y \in M.events : clock <= y.at
  BY <1>3, Starts DEF Held
<1>5. Held(M)
  BY <1>0, <1>2, <1>3, <1>4, Starts, LoopParts0, BesideHeld
<1> QED BY <1>1, <1>5, BecomeHeld

LEMMA ReviveCarries ==
  ASSUME CarriesInv, NEW p \in Players, Revive(p)
  PROVE  Held(L0)' /\ Settled'
<1> DEFINE N == [L0 EXCEPT !.body[p].hp = MaxHP]
           M == IF p \in here THEN Teleport(N, p) ELSE L0
<1>1. Become(M) /\ UNCHANGED <<here, leaving, notices, dressing, clock, swept>>
  BY DEF Revive
<1>2. Held(N) /\ Shaped(N) /\ Held(L0)
  <2>1. MaxHP \in 0..MaxHP
    BY EffectsAssumption
  <2> QED BY <2>1, Starts, HpHeld, FieldAlike, AlikeIsShaped
<1> HIDE DEF N
<1>3. Held(M)
  BY <1>2, TeleportHeld
<1> HIDE DEF M
<1> QED BY <1>1, <1>3, BecomeHeld

(* Steps after which the loop's lists and the log are what they were. *)
LEMMA QuietCarries ==
  ASSUME CarriesInv, \A p \in Players : Beside(body[p], body'[p]) /\ (p \in here' => p \in here)
                                        /\ dressing'[p] = dressing[p],
         body' \in [Players -> Body], near' \in [Players -> SUBSET Objects], UNCHANGED <<h, clock, swept>>,
         S'.buffed = S.buffed, S'.flagged = S.flagged, S'.intent = S.intent, S'.events = S.events
  PROVE  Held(L0)'
<1>1. \A p \in Players : Kept(L0, p)'
  <2> TAKE p \in Players
  <2>1. Kept(L0, p) /\ Beside(L0.body[p], body'[p])
    BY Starts, LoopParts0
  <2>2. /\ h'.log = L0.log /\ S'.buffed = L0.buffed /\ S'.flagged = L0.flagged
        /\ h'.mixed = L0.mixed /\ h'.lost = L0.lost
    BY LoopParts0, MoreParts0
  <2> QED BY <2>1, <2>2, StepKept
<1>2. Told(L0.log)'
  BY Starts, StepTold, LoopParts0 DEF Held
<1> QED BY <1>1, <1>2, Starts, StepHeld, LoopParts0, MoreParts0 DEF Held

LEMMA ComputeCarries ==
  ASSUME CarriesInv
  PROVE  /\ \A p \in Players : ComputeRead(p) => Held(L0)' /\ Settled'
         /\ ComputeStore => Held(L0)' /\ Settled'
<1>1. ASSUME NEW p \in Players, ComputeRead(p) PROVE Held(L0)' /\ Settled'
  <2> DEFINE x == body[p].mods
             d == [body[p] EXCEPT !.cached = x]
  <2>1. \A q \in Players : body[q] \in Body
    BY Starts
  <2>2. Beside(body[p], d) /\ \A q \in Players : Beside(body[q], body[q])
    <3>1. x \in Mods
      BY <2>1 DEF Body
    <3> HIDE DEF x
    <3>2. Beside(body[p], d)
      BY <2>1, <3>1 DEF Beside, Body
    <3> QED BY <2>1, <3>2, Edits
  <2>3. body' = [body EXCEPT ![p] = d] /\ DOMAIN body = Players
    BY <1>1, BodyRefl DEF ComputeRead, CarriesInv
  <2> HIDE DEF d
  <2>4. \A q \in Players : Beside(body[q], body'[q])
    BY <2>2, <2>3
  <2>5. S' = [S EXCEPT !.computing = p] /\ UNCHANGED <<here, near, leaving, notices, dressing, clock, swept, h>>
    BY <1>1 DEF ComputeRead
  <2>6. /\ S'.buffed = S.buffed /\ S'.flagged = S.flagged /\ S'.intent = S.intent /\ S'.events = S.events
        /\ S'.computing = p /\ S' = [y \in LoopParts |-> S'[y]]
    BY <2>5 DEF CarriesInv, EffectsInv, LoopParts
  <2>7. near' \in [Players -> SUBSET Objects] /\ body' \in [Players -> Body]
    BY <2>2, <2>3, <2>5, Starts, LoopParts0 DEF Held, Beside
  <2>8. Settled'
    BY <2>5, <2>6 DEF CarriesInv, Settled
  <2> QED BY <2>4, <2>5, <2>6, <2>7, <2>8, QuietCarries
<1>2. ASSUME ComputeStore PROVE Held(L0)' /\ Settled'
  <2> DEFINE p == S.computing
             d == [body[p] EXCEPT !.valid = TRUE]
  <2>1. p \in Players
    BY <1>2 DEF CarriesInv, Settled, ComputeStore
  <2>2. body' = [body EXCEPT ![p] = d] /\ DOMAIN body = Players
    BY <1>2, BodyRefl DEF ComputeStore, CarriesInv
  <2> HIDE DEF p
  <2>3. \A q \in Players : body[q] \in Body
    BY Starts
  <2>4. Beside(body[p], d) /\ \A q \in Players : Beside(body[q], body[q])
    <3>1. Beside(body[p], d)
      BY <2>1, <2>3 DEF Beside, Body
    <3> QED BY <2>3, <3>1, Edits
  <2> HIDE DEF d
  <2>5. \A q \in Players : Beside(body[q], body'[q])
    BY <2>1, <2>2, <2>4
  <2>6. S' = [S EXCEPT !.computing = Nobody] /\ UNCHANGED <<here, near, leaving, notices, dressing, clock, swept, h>>
    BY <1>2 DEF ComputeStore
  <2>7. /\ S'.buffed = S.buffed /\ S'.flagged = S.flagged /\ S'.intent = S.intent /\ S'.events = S.events
        /\ S'.computing = Nobody /\ S' = [y \in LoopParts |-> S'[y]]
    BY <2>6 DEF CarriesInv, EffectsInv, LoopParts
  <2>8. near' \in [Players -> SUBSET Objects] /\ body' \in [Players -> Body]
    BY <2>2, <2>4, <2>6, Starts, LoopParts0 DEF Held, Beside
  <2>9. Settled'
    BY <2>6, <2>7 DEF CarriesInv, Settled
  <2> QED BY <2>5, <2>6, <2>7, <2>8, <2>9, QuietCarries
<1> QED BY <1>1, <1>2

LEMMA SetTargetCarries ==
  ASSUME CarriesInv, NEW p \in Players, NEW o \in Objects \union {Nobody}, SetTarget(p, o)
  PROVE  Held(L0)' /\ Settled'
<1> DEFINE d == [body[p] EXCEPT !.target = o]
<1>1. \A q \in Players : body[q] \in Body
  BY Starts
<1>2. Beside(body[p], d) /\ \A q \in Players : Beside(body[q], body[q])
  BY <1>1, Edits
<1>3. /\ body' = [body EXCEPT ![p] = d] /\ DOMAIN body = Players
      /\ UNCHANGED <<here, near, leaving, notices, dressing, S, clock, swept, h>>
  BY BodyRefl DEF SetTarget, CarriesInv
<1> HIDE DEF d
<1>4. \A q \in Players : Beside(body[q], body'[q])
  BY <1>2, <1>3
<1>5. near' \in [Players -> SUBSET Objects] /\ body' \in [Players -> Body]
  BY <1>2, <1>3, Starts, LoopParts0 DEF Held, Beside
<1>6. Settled'
  BY <1>3 DEF CarriesInv, Settled
<1> QED BY <1>3, <1>4, <1>5, <1>6, QuietCarries

(* The connections come and go, and characters walk. *)
LEMMA ComingCarries ==
  ASSUME CarriesInv, NEW p \in Players,
         \/ RequestRestartPoint(p) \/ BeginRestart(p) \/ RestartRefused(p) \/ RemovePlayer(p)
         \/ \E objects \in SUBSET (Objects \ {p}) : Wander(p, objects)
  PROVE  Held(L0)' /\ Settled'
<1>1. \A q \in Players : Beside(body[q], body[q])
  BY Starts, Edits
<1>2. near \in [Players -> SUBSET Objects]
  BY Starts, LoopParts0 DEF Held
<1>3. near' \in [Players -> SUBSET Objects]
  BY <1>2 DEF RequestRestartPoint, BeginRestart, RestartRefused, RemovePlayer, Wander
<1>4. UNCHANGED <<body, dressing, S, clock, swept, h>> /\ here' \subseteq here
  BY DEF RequestRestartPoint, BeginRestart, RestartRefused, RemovePlayer, Wander
<1>5. Held(L0)'
  BY <1>1, <1>3, <1>4, Starts, QuietCarries
<1>6. Settled
  BY DEF CarriesInv
<1>7. Settled'
  <2>1. CASE RequestRestartPoint(p)
    BY <2>1, <1>6 DEF Settled, RequestRestartPoint
  <2>2. CASE BeginRestart(p)
    BY <2>2, <1>6 DEF Settled, BeginRestart
  <2>3. CASE RestartRefused(p)
    BY <2>3, <1>6 DEF Settled, RestartRefused
  <2>4. CASE RemovePlayer(p)
    BY <2>4, <1>6 DEF Settled, RemovePlayer
  <2>5. CASE \E objects \in SUBSET (Objects \ {p}) : Wander(p, objects)
    BY <2>5, <1>6 DEF Settled, Wander
  <2> QED BY <2>1, <2>2, <2>3, <2>4, <2>5
<1> QED BY <1>5, <1>7

(* Nothing of what a character carries depends on the state but this. *)
LEMMA OtherKept ==
  ASSUME CarriesInv, NEW q \in Players, body'[q] = body[q], h'.log = h.log, UNCHANGED <<clock, swept>>,
         q \in here' => q \in here, dressing'[q] = dressing[q], UNCHANGED S,
         q \in h'.mixed <=> q \in h.mixed, <<"flag", q>> \in h'.lost <=> <<"flag", q>> \in h.lost,
         <<"buff", q>> \in h'.lost <=> <<"buff", q>> \in h.lost
  PROVE  Kept(L0, q)'
<1>1. Kept(L0, q) /\ Beside(L0.body[q], body'[q])
  BY Starts, LoopParts0, Edits
<1> QED BY <1>1, LoopParts0, MoreParts0, StepKept

LEMMA EquipCarries ==
  ASSUME CarriesInv, NEW p \in Players, EquipRead(p) \/ EquipStore(p)
  PROVE  Held(L0)' /\ Settled'
<1>1. body[p] \in Body /\ Kept(L0, p) /\ DOMAIN body = Players /\ dressing \in [Players -> Hands]
  BY Starts, BodyRefl DEF CarriesInv, Settled
<1>2. UNCHANGED <<here, near, leaving, notices, S, clock, swept, h>>
  BY DEF EquipRead, EquipStore
<1>3. PICK d, D : /\ body' = [body EXCEPT ![p] = d] /\ dressing' = [dressing EXCEPT ![p] = D] /\ D \in Hands
                  /\ p \in here
                  /\ d \in Body /\ d.effects = body[p].effects /\ d.casting = body[p].casting
                  /\ d.flag = body[p].flag /\ d.shown = body[p].shown
                  /\ p \in here => Added(d, D, p \in h.mixed)
  <2>1. CASE EquipRead(p)
    <3> DEFINE g == 1 - body[p].gear
               d == [body[p] EXCEPT !.gear = g]
               m == ModsOf(d, d.effects)
    <3>1. body' = [body EXCEPT ![p] = d] /\ dressing' = [dressing EXCEPT ![p] = <<m>>] /\ p \in here
      BY <2>1 DEF EquipRead
    <3>2. g \in {0, 1}
      BY <1>1 DEF Body
    <3> HIDE DEF g
    <3>3. /\ d \in Body /\ d.effects = body[p].effects /\ d.casting = body[p].casting
          /\ d.flag = body[p].flag /\ d.shown = body[p].shown
      BY <1>1, <3>2 DEF Body
    <3> HIDE DEF d
    <3>4. m \in Mods
      BY <3>3 DEF ModsOf, Mods, Body, Buff
    <3>5. <<m>> \in Hands /\ Added(d, <<m>>, p \in h.mixed)
      BY <3>4 DEF Hands, Added
    <3> HIDE DEF m
    <3> QED BY <3>1, <3>3, <3>5
  <2>2. CASE EquipStore(p)
    <3> DEFINE m == dressing[p][1]
               d == [body[p] EXCEPT !.mods = m, !.valid = FALSE]
    <3>1. /\ body' = [body EXCEPT ![p] = d] /\ dressing' = [dressing EXCEPT ![p] = <<>>]
          /\ dressing[p] # <<>>
      BY <2>2 DEF EquipStore
    <3>2. dressing[p] = <<m>> /\ m \in Mods /\ p \in here
      <4>1. dressing[p] \in Hands
        BY <1>1
      <4>2. PICK x \in Mods : dressing[p] = <<x>>
        BY <3>1, <4>1 DEF Hands
      <4>3. dressing[p][1] = x
        BY <4>2
      <4> QED BY <3>1, <4>2, <4>3 DEF CarriesInv, Settled
    <3> HIDE DEF m
    <3>3. /\ d \in Body /\ d.effects = body[p].effects /\ d.casting = body[p].casting /\ d.mods = m
          /\ d.flag = body[p].flag /\ d.shown = body[p].shown /\ d.gear = body[p].gear
      BY <1>1, <3>2 DEF Body
    <3> HIDE DEF d
    <3>4. Added(d, <<>>, p \in h.mixed)
      <4>1. p \notin h.mixed => <<m>> = <<ModsOf(body[p], body[p].effects)>>
        BY <1>1, <3>1, <3>2, LoopParts0, MoreParts0 DEF Kept, Added
      <4>2. ModsOf(d, d.effects) = ModsOf(body[p], body[p].effects)
        BY <3>3 DEF ModsOf
      <4>3. p \notin h.mixed => m = ModsOf(body[p], body[p].effects)
        <5>1. <<m>>[1] = m /\ <<ModsOf(body[p], body[p].effects)>>[1] = ModsOf(body[p], body[p].effects)
          OBVIOUS
        <5> QED BY <4>1, <5>1
      <4> QED BY <3>3, <4>2, <4>3 DEF Added
    <3>5. <<>> \in Hands
      BY DEF Hands
    <3> QED BY <3>1, <3>2, <3>3, <3>4, <3>5
  <2> QED BY <2>1, <2>2
<1>4. body'[p] = d /\ dressing'[p] = D /\ \A q \in Players : q # p => body'[q] = body[q] /\ dressing'[q] = dressing[q]
  BY <1>1, <1>3
<1>5. /\ L0'.body = body' /\ L0'.log = h.log /\ L0'.buffed = S.buffed /\ L0'.flagged = S.flagged
      /\ L0'.mixed = h.mixed /\ L0'.lost = h.lost
  BY <1>2 DEF L0
<1>6. Kept(L0, p)'
  <2>1. Whole(L0.body[p])'
    BY <1>1, <1>3, <1>4, <1>5, LoopParts0 DEF Kept, Whole, Exclusive, SameType
  <2>2. Vouched(L0.body[p], L0.log)'
    <3>1. Vouched(body[p], h.log)
      BY <1>1, LoopParts0 DEF Kept
    <3>2. L0'.body[p] = d /\ L0'.log = h.log /\ clock' = clock
      BY <1>2, <1>4, <1>5
    <3> QED BY <1>3, <3>1, <3>2 DEF Vouched, Owes, IsOffensive
  <2>3. p \in here' => Coloured(L0.body[p], p \in L0.flagged, <<"flag", p>> \in L0.lost)'
    BY <1>1, <1>2, <1>3, <1>4, <1>5, LoopParts0, MoreParts0 DEF Kept, Coloured
  <2>4. p \in here' => Lasting(L0.body[p], p \in L0.buffed, <<"buff", p>> \in L0.lost)'
    BY <1>1, <1>2, <1>3, <1>4, <1>5, LoopParts0, MoreParts0 DEF Kept, Lasting, Outlived
  <2>5. p \in here' => Added(L0.body[p], dressing[p], p \in L0.mixed)'
    BY <1>2, <1>3, <1>4, <1>5 DEF Added, ModsOf
  <2> QED BY <2>1, <2>2, <2>3, <2>4, <2>5 DEF Kept
<1>7. \A q \in Players : Kept(L0, q)'
  BY <1>2, <1>4, <1>6, OtherKept
<1>8. Told(L0.log)'
  BY <1>2, Starts, StepTold, LoopParts0 DEF Held
<1>9. Held(L0)'
  BY <1>2, <1>3, <1>7, <1>8, Starts, StepHeld, LoopParts0, MoreParts0 DEF Held
<1>10. Settled'
  BY <1>2, <1>3, <1>4 DEF CarriesInv, Settled
<1> QED BY <1>9, <1>10

LEMMA PassCarries == CarriesInv /\ Pass => Held(L0)' /\ Settled'
<1> SUFFICES ASSUME CarriesInv, Pass PROVE Held(L0)' /\ Settled'
  OBVIOUS
<1>1. /\ UNCHANGED <<here, body, near, leaving, notices, dressing, S, swept, h>>
      /\ clock' = clock + 1 /\ clock < MaxClock /\ swept = clock /\ \A e \in S.events : e.at > clock
  BY DEF Pass
<1>2. L0' = L0 /\ clock \in Nat /\ MaxClock \in Nat
  BY <1>1, Starts, EffectsAssumption DEF L0
<1>3. \A p \in Players : Kept(L0, p)'
  <2> SUFFICES ASSUME NEW p \in Players PROVE Kept(L0, p)'
    OBVIOUS
  <2> DEFINE b == body[p]
  <2>1. Kept(L0, p) /\ L0.body[p] = b /\ L0'.body[p] = b /\ b \in Body
    BY <1>2, Starts, LoopParts0
  <2> HIDE DEF b
  <2>2. Whole(L0.body[p])'
    BY <2>1 DEF Kept, Whole, Exclusive, SameType
  <2>3. Vouched(L0.body[p], L0.log)'
    <3>1. Vouched(b, h.log)
      BY <2>1, LoopParts0 DEF Kept
    <3>2. L0'.body[p] = b /\ L0'.log = h.log
      BY <1>2, <2>1, LoopParts0
    <3>3. FlagTime \in Nat /\ b.flag \in Nat
      BY <2>1, EffectsAssumption DEF Body
    <3>4. CASE b.casting = NoCast
      BY <3>2, <3>4 DEF Vouched
    <3>5. CASE b.casting # NoCast
      <4> DEFINE c == h.log[b.casting.id]
      <4>1. c.start \in 0..clock /\ (Owes(c) => b.flag >= c.start + FlagTime \/ clock >= c.start + FlagTime)
        BY <3>1, <3>5 DEF Vouched
      <4> HIDE DEF c
      <4>2. c.start \in 0..clock' /\ (Owes(c) => b.flag >= c.start + FlagTime \/ clock' >= c.start + FlagTime)
        BY <1>1, <1>2, <3>3, <4>1
      <4> QED BY <3>2, <4>2 DEF Vouched, c, Owes, IsOffensive
    <3> QED BY <3>4, <3>5
  <2>4. swept' # clock'
    BY <1>1, <1>2
  <2>5. p \in here' => Coloured(L0.body[p], p \in L0.flagged, <<"flag", p>> \in L0.lost)'
    BY <1>1, <1>2, <2>1, <2>4 DEF Kept, Coloured
  <2>6. p \in here' => Lasting(L0.body[p], p \in L0.buffed, <<"buff", p>> \in L0.lost)'
    BY <1>1, <1>2, <2>1, <2>4 DEF Kept, Lasting
  <2>7. p \in here' => Added(L0.body[p], dressing[p], p \in L0.mixed)'
    BY <1>1, <1>2, <2>1 DEF Kept, Added, ModsOf
  <2> QED BY <2>2, <2>3, <2>5, <2>6, <2>7 DEF Kept
<1>4. Told(L0.log)'
  <2>1. Told(h.log) /\ L0'.log = h.log
    BY <1>2, Starts, LoopParts0 DEF Held
  <2>2. \A n \in 0..clock : n \in 0..clock'
    BY <1>1, <1>2
  <2> QED BY <2>1, <2>2 DEF Told, Owes, IsOffensive
<1>5. \A e \in S'.events : clock' <= e.at
  <2>1. \A e \in S.events : e.at \in Nat
    BY Starts, LoopParts0 DEF Shaped, Event
  <2> QED BY <1>1, <1>2, <2>1
<1>6. Held(L0)'
  BY <1>1, <1>3, <1>4, <1>5, Starts, StepHeld, LoopParts0, MoreParts0 DEF Held
<1>7. Settled'
  BY <1>1, <1>2 DEF CarriesInv, Settled
<1> QED BY <1>6, <1>7

(* Somebody who has just entered the world carries nothing. *)
LEMMA FreshFields ==
  ASSUME NEW b, b = FreshBody
  PROVE  /\ b \in Body /\ b.effects = {} /\ b.flag = 0 /\ b.shown = FALSE
         /\ b.casting = NoCast /\ b.mods = ModsOf(b, {})
<1> DEFINE d == [hp |-> MaxHP, mp |-> MaxMP, target |-> Nobody, casting |-> NoCast,
                 moving |-> FALSE, flag |-> 0, shown |-> FALSE, effects |-> {},
                 gear |-> 0, mods |-> NoMods, cached |-> NoMods, valid |-> FALSE]
<1>1. d \in Body /\ d.effects = {} /\ d.flag = 0 /\ d.shown = FALSE /\ d.casting = NoCast
  BY EffectsAssumption DEF Body, NoCast, Casting, NoMods, Mods
<1>2. FreshBody = RebuildStatMods(d)
  BY DEF FreshBody
<1> HIDE DEF d
<1>3. [d EXCEPT !.effects = {}] = d
  BY <1>1 DEF Body
<1>4. b = RebuildStatMods([d EXCEPT !.effects = {}])
  BY <1>2, <1>3
<1> QED BY <1>1, <1>4, RebuildFields

LEMMA FreshKept ==
  ASSUME NEW b, b = FreshBody, NEW log, NEW listed, NEW lost
  PROVE  /\ Whole(b) /\ Vouched(b, log) /\ Coloured(b, listed, lost) /\ Lasting(b, listed, lost)
         /\ Added(b, <<>>, FALSE)
BY FreshFields DEF Whole, Exclusive, Vouched, Coloured, Lasting, Outlived, Added

LEMMA AddCarries ==
  ASSUME CarriesInv, NEW p \in Players, AddPlayer(p)
  PROVE  Held(L0)' /\ Settled'
<1>1. /\ p \notin here /\ here' = here \union {p} /\ body' = [body EXCEPT ![p] = FreshBody]
      /\ UNCHANGED <<near, leaving, notices, dressing, S, clock, swept>>
      /\ h'.log = h.log /\ h'.lost = {l \in h.lost : l[2] # p} /\ h'.mixed = h.mixed \ {p}
  BY DEF AddPlayer, CarriesInv, EffectsInv, Memory
<1>2. DOMAIN body = Players /\ dressing[p] = <<>>
  BY <1>1, BodyRefl DEF CarriesInv, Settled
<1>3. body'[p] = FreshBody /\ \A q \in Players : q # p => body'[q] = body[q]
  BY <1>1, <1>2
<1>4. Kept(L0, p)'
  <2> DEFINE b == body'[p]
  <2>1. Whole(b) /\ Vouched(b, h'.log) /\ Coloured(b, p \in S'.flagged, <<"flag", p>> \in h'.lost)
        /\ Lasting(b, p \in S'.buffed, <<"buff", p>> \in h'.lost) /\ Added(b, <<>>, FALSE)
    BY <1>3, FreshKept
  <2>2. /\ L0'.body[p] = b /\ L0'.log = h'.log /\ L0'.flagged = S'.flagged /\ L0'.buffed = S'.buffed
        /\ L0'.lost = h'.lost /\ L0'.mixed = h'.mixed /\ p \notin h'.mixed /\ dressing'[p] = <<>>
    BY <1>1, <1>2 DEF L0
  <2>3. b.casting = NoCast /\ b.effects = {} /\ b.flag = 0 /\ b.shown = FALSE /\ b.mods = ModsOf(b, {})
    BY <1>3, FreshFields
  <2> HIDE DEF b
  <2>4. Whole(L0.body[p])'
    BY <2>1, <2>2 DEF Whole, Exclusive, SameType
  <2>5. Vouched(L0.body[p], L0.log)'
    BY <2>2, <2>3 DEF Vouched
  <2>6. Coloured(L0.body[p], p \in L0.flagged, <<"flag", p>> \in L0.lost)'
    BY <2>2, <2>3 DEF Coloured
  <2>7. Lasting(L0.body[p], p \in L0.buffed, <<"buff", p>> \in L0.lost)'
    BY <2>2, <2>3 DEF Lasting, Outlived
  <2>8. Added(L0.body[p], dressing[p], p \in L0.mixed)'
    BY <2>2, <2>3 DEF Added, ModsOf
  <2> QED BY <2>4, <2>5, <2>6, <2>7, <2>8 DEF Kept
<1>5. ASSUME NEW q \in Players, q # p PROVE Kept(L0, q)'
  <2>1. <<"flag", q>>[2] = q /\ <<"buff", q>>[2] = q
    OBVIOUS
  <2> QED BY <1>1, <1>3, <1>5, <2>1, OtherKept
<1>6. Told(L0.log)'
  BY <1>1, Starts, StepTold, LoopParts0 DEF Held
<1>7. Held(L0)'
  <2>1. body' \in [Players -> Body]
    BY <1>1, Starts, FreshFields
  <2> QED BY <1>1, <1>4, <1>5, <1>6, <2>1, Starts, StepHeld, LoopParts0, MoreParts0 DEF Held
<1>8. Settled'
  BY <1>1 DEF CarriesInv, Settled
<1> QED BY <1>7, <1>8

(* The loop forgets a character, and what it carries is lost to the sweep. *)
LEMMA DisconnectedCarries ==
  ASSUME CarriesInv, NEW p \in Players, PlayerDisconnected(p)
  PROVE  Held(L0)' /\ Settled'
<1> DEFINE l == h.log
           N == [i \in DOMAIN l |-> IF l[i].who = p THEN [l[i] EXCEPT !.cleared = TRUE] ELSE l[i]]
           carries == (IF body[p].effects # {} THEN {<<"buff", p>>} ELSE {})
                        \union (IF body[p].flag # 0 THEN {<<"flag", p>>} ELSE {})
           lost == IF p \in here THEN h.lost \union carries ELSE h.lost
           M == [L0 EXCEPT
                   !.ready[p] = [s \in Skills |-> 0],
                   !.buffed = @ \ {p}, !.flagged = @ \ {p},
                   !.pending[p] = NoPending,
                   !.lost = IF p \in here THEN @ \union carries ELSE @,
                   !.log = [i \in DOMAIN @ |-> IF @[i].who = p
                              THEN [@[i] EXCEPT !.cleared = TRUE] ELSE @[i]]]
           D == [L0 EXCEPT !.log = N]
<1>1. Become(M) /\ UNCHANGED <<here, leaving, dressing, clock, swept>> /\ notices' \subseteq notices
  BY DEF PlayerDisconnected
<1>2. /\ M.body = body /\ M.log = N /\ M.events = S.events /\ M.buffed = S.buffed \ {p} /\ M.near = near
      /\ M.flagged = S.flagged \ {p} /\ M.lost = lost /\ M.mixed = h.mixed /\ M.intent = S.intent
  BY LoopParts0, MoreParts0 DEF Parts
<1> HIDE DEF M
<1>3. /\ D.body = body /\ D.log = N /\ D.events = S.events /\ D.buffed = S.buffed /\ D.near = near
      /\ D.flagged = S.flagged /\ D.lost = h.lost /\ D.mixed = h.mixed /\ D.intent = S.intent
  BY LoopParts0, MoreParts0 DEF Parts
<1> HIDE DEF D
<1>4. \A i \in DOMAIN l : /\ N[i].hits = l[i].hits /\ N[i].landed = l[i].landed /\ N[i].answer = l[i].answer
                          /\ SameCast(l[i], N[i])
  <2> SUFFICES ASSUME NEW i \in DOMAIN l
               PROVE  /\ N[i].hits = l[i].hits /\ N[i].landed = l[i].landed /\ N[i].answer = l[i].answer
                      /\ SameCast(l[i], N[i])
    OBVIOUS
  <2> DEFINE c == l[i]
  <2>1. c \in Cast
    BY Starts, LogTyped, LoopParts0
  <2>2. N[i] = [c EXCEPT !.cleared = TRUE] \/ N[i] = c
    OBVIOUS
  <2> HIDE DEF c, N
  <2> QED BY <2>1, <2>2 DEF Cast, SameCast, c
<1>5. Told(N)
  <2>1. Told(l) /\ DOMAIN N = DOMAIN l
    BY Starts, LoopParts0 DEF Held
  <2> HIDE DEF N
  <2> QED BY <1>4, <2>1 DEF Told, Owes, SameCast
<1> HIDE DEF N, lost
<1>6. Held(D)
  <2>1. /\ D.near \in [Players -> SUBSET Objects] /\ D.intent \in [Players -> {"idle", "cast", "walk"}]
        /\ \A x \in D.events : clock <= x.at
    BY <1>3, Starts, LoopParts0, MoreParts0 DEF Held
  <2>2. \A q \in Players : Beside(L0.body[q], D.body[q])
    BY <1>3, Starts, LoopParts0, Edits
  <2>3. D.body \in [Players -> Body]
    BY <1>3, Starts
  <2> QED BY <1>3, <1>4, <1>5, <2>1, <2>2, <2>3, Starts, LoopParts0, MoreParts0, RelogHeld
<1>7. Kept(M, p)
  <2>1. Kept(D, p)
    BY <1>6 DEF Held
  <2>2. /\ p \in here /\ body[p].effects # {} => <<"buff", p>> \in lost
        /\ p \in here /\ body[p].flag # 0 => <<"flag", p>> \in lost
    BY DEF lost
  <2>3. p \in here => Coloured(M.body[p], p \in M.flagged, <<"flag", p>> \in M.lost)
    BY <1>2, <1>3, <2>1, <2>2 DEF Kept, Coloured
  <2>4. p \in here => Lasting(M.body[p], p \in M.buffed, <<"buff", p>> \in M.lost)
    BY <1>2, <1>3, <2>1, <2>2 DEF Kept, Lasting, Outlived
  <2> QED BY <1>2, <1>3, <2>1, <2>3, <2>4 DEF Kept
<1>8. \A q \in Players : q # p => /\ <<"flag", q>> \in M.lost <=> <<"flag", q>> \in D.lost
                                  /\ <<"buff", q>> \in M.lost <=> <<"buff", q>> \in D.lost
  BY <1>2, <1>3 DEF lost
<1>9. Held(M)
  <2>1. \A q \in Players : q # p => /\ M.body[q] = D.body[q]
                                    /\ q \in M.buffed <=> q \in D.buffed
                                    /\ q \in M.flagged <=> q \in D.flagged
                                    /\ q \in M.mixed <=> q \in D.mixed
    BY <1>2, <1>3
  <2>2. /\ M.buffed \subseteq Players /\ M.flagged \subseteq Players
        /\ M.near \in [Players -> SUBSET Objects] /\ M.intent \in [Players -> {"idle", "cast", "walk"}]
        /\ M.body \in [Players -> Body] /\ \A x \in M.events : clock <= x.at
    BY <1>2, <1>3, <1>6 DEF Held
  <2> QED BY <1>2, <1>3, <1>6, <1>7, <1>8, <2>1, <2>2, HeldOne
<1> QED BY <1>1, <1>9, BecomeHeld

(* A tick of the effects sets when they tick again. *)
LEMMA Ticked ==
  ASSUME NEW b, Whole(b), clock \in Nat, NEW t, t = FireTicks(b)
  PROVE  /\ Whole(t) /\ t.casting = b.casting /\ t.flag = b.flag /\ t.shown = b.shown
         /\ t.gear = b.gear /\ t.mods = b.mods /\ (t.effects = {} <=> b.effects = {})
         /\ Outlived(t.effects) = {} <=> Outlived(b.effects) = {}
         /\ ModsOf(t, t.effects) = ModsOf(b, b.effects)
<1> DEFINE e == b.effects
           Next1(x) == IF TickDue(x) THEN [x EXCEPT !.next = clock + 1] ELSE x
           f == {Next1(x) : x \in e}
           n == IF b.hp > 1 THEN b.hp - 1 ELSE 1
           c == [b EXCEPT !.hp = n]
           d == [c EXCEPT !.effects = f]
<1>1. b \in Body /\ e \subseteq Buff /\ Exclusive(e)
  BY DEF Whole, Exclusive
<1>2. t = b \/ t = d
  <2>1. [b EXCEPT !.hp = n].effects = b.effects
    BY <1>1 DEF Body
  <2> QED BY <2>1 DEF FireTicks
<1>3. CASE t = b
  BY <1>3
<1>4. CASE t = d
  <2>1. ASSUME NEW x \in e
        PROVE  Next1(x) \in Buff /\ Next1(x).skill = x.skill /\ Next1(x).type = x.type /\ Next1(x).expires = x.expires
    <3>1. x \in Buff
      BY <1>1
    <3>2. clock + 1 \in Nat
      OBVIOUS
    <3> QED BY <3>1, <3>2 DEF Buff
  <2> HIDE DEF Next1
  <2>2. f \subseteq Buff /\ (f = {} <=> e = {}) /\ {x.skill : x \in f} = {x.skill : x \in e}
    BY <2>1
  <2>3. Exclusive(f)
    <3>1. \A x \in f : x.type = Data[x.skill].type
      BY <1>1, <2>1 DEF Exclusive
    <3>2. ASSUME NEW x \in f, NEW y \in f, x # y PROVE x.skill # y.skill /\ ~SameType(x, y)
      <4>1. PICK u \in e, v \in e : x = Next1(u) /\ y = Next1(v)
        OBVIOUS
      <4>2. u # v /\ u.skill # v.skill /\ ~SameType(u, v)
        BY <1>1, <3>2, <4>1 DEF Exclusive
      <4> QED BY <2>1, <4>1, <4>2 DEF SameType
    <3> QED BY <2>2, <3>1, <3>2 DEF Exclusive
  <2>4. Outlived(f) = {} <=> Outlived(e) = {}
    BY <2>1 DEF Outlived
  <2>5. n \in 0..MaxHP
    <3>1. b.hp \in 0..MaxHP /\ MaxHP \in Nat \ {0}
      BY <1>1, EffectsAssumption DEF Body
    <3> QED BY <3>1
  <2> HIDE DEF f, n, e
  <2>6. /\ c \in Body /\ c.casting = b.casting /\ c.flag = b.flag /\ c.shown = b.shown
        /\ c.gear = b.gear /\ c.mods = b.mods
    BY <1>1, <2>5 DEF Body
  <2> HIDE DEF c
  <2>7. /\ d \in Body /\ d.casting = b.casting /\ d.flag = b.flag /\ d.shown = b.shown
        /\ d.gear = b.gear /\ d.mods = b.mods /\ d.effects = f
    BY <2>2, <2>6 DEF Body
  <2> HIDE DEF d
  <2>8. ModsOf(t, t.effects) = ModsOf(b, e)
    BY <1>4, <2>2, <2>7 DEF ModsOf
  <2> QED BY <1>4, <2>2, <2>3, <2>4, <2>7, <2>8 DEF Whole, e
<1> QED BY <1>2, <1>3, <1>4

(* After a sweep no effect of the character has outlived its time, and those that
   have gone took their modifiers along. *)
LEMMA ServicedWhole ==
  ASSUME NEW b, Whole(b), clock \in Nat, NEW r, r = Serviced(b)
  PROVE  /\ Whole(r) /\ r.casting = b.casting /\ r.flag = b.flag /\ r.shown = b.shown
         /\ Outlived(r.effects) = {}
         /\ Outlived(b.effects) = {} => r.mods = b.mods /\ ModsOf(r, r.effects) = ModsOf(b, b.effects)
         /\ Outlived(b.effects) # {} => r.mods = ModsOf(r, r.effects)
<1> DEFINE t == FireTicks(b)
           k == RemoveExpired(t.effects)
           d == RebuildStatMods([t EXCEPT !.effects = k])
<1>1. r = IF Outlived(t.effects) = {} THEN t ELSE d
  BY DEF Serviced
<1>2. /\ Whole(t) /\ t.casting = b.casting /\ t.flag = b.flag /\ t.shown = b.shown
      /\ t.gear = b.gear /\ t.mods = b.mods
      /\ Outlived(t.effects) = {} <=> Outlived(b.effects) = {}
      /\ ModsOf(t, t.effects) = ModsOf(b, b.effects)
  BY Ticked
<1> HIDE DEF t
<1>3. k \subseteq t.effects /\ Outlived(k) = {}
  BY DEF RemoveExpired, Outlived
<1> HIDE DEF k
<1>4. t \in Body /\ k \in SUBSET Buff /\ Exclusive(k)
  BY <1>2, <1>3, FewerExclusive DEF Whole, Exclusive
<1>5. /\ d \in Body /\ d.effects = k /\ d.mods = ModsOf(d, k) /\ d.casting = t.casting
      /\ d.flag = t.flag /\ d.shown = t.shown
  BY <1>4, RebuildFields
<1> HIDE DEF d
<1>6. CASE Outlived(t.effects) = {}
  BY <1>1, <1>2, <1>6
<1>7. CASE Outlived(t.effects) # {}
  BY <1>1, <1>2, <1>3, <1>4, <1>5, <1>7 DEF Whole
<1> QED BY <1>6, <1>7

(* The flags that are over go, and their colour with them. *)
Faded(b, d) ==
  /\ d \in Body /\ d.effects = b.effects /\ d.gear = b.gear /\ d.mods = b.mods /\ d.casting = b.casting
  /\ \/ d.flag = b.flag /\ d.shown = b.shown
     \/ d.flag = 0 /\ d.shown = FALSE /\ b.flag <= clock

LEMMA Expired ==
  ASSUME NEW L, Shaped(L), Held(L), NEW M, M = ExpireFlags(L), here \subseteq Players, clock \in Nat
  PROVE  /\ M.log = L.log /\ M.buffed = L.buffed /\ M.mixed = L.mixed /\ M.lost = L.lost
         /\ M.near = L.near /\ M.intent = L.intent /\ M.events = L.events /\ DOMAIN M = Parts
         /\ M.flagged \subseteq Players
         /\ \A p \in Players :
              /\ Faded(L.body[p], M.body[p])
              /\ p \in here /\ p \in L.flagged /\ M.body[p].flag # 0 => p \in M.flagged /\ clock < M.body[p].flag
<1> DEFINE over == {p \in L.flagged : p \in here /\ L.body[p].flag <= clock}
           F == {p \in L.flagged : p \in here} \ over
           B == [p \in Players |-> IF p \in over THEN [L.body[p] EXCEPT !.flag = 0, !.shown = FALSE]
                                   ELSE L.body[p]]
<1>1. DOMAIN L = Parts /\ L.flagged \subseteq Players
  BY DEF Shaped, Held
<1>2. M = [L EXCEPT !.flagged = F, !.body = B]
  <2>1. [L EXCEPT !.flagged = F].body = L.body
    BY <1>1 DEF Parts
  <2> QED BY <2>1 DEF ExpireFlags
<1>3. ASSUME NEW p \in Players
      PROVE  /\ Faded(L.body[p], B[p])
             /\ p \in here /\ p \in L.flagged /\ B[p].flag # 0 => p \in F /\ clock < B[p].flag
  <2> DEFINE b == L.body[p]
             d == [b EXCEPT !.flag = 0, !.shown = FALSE]
  <2>1. b \in Body
    BY DEF Held, Kept, Whole
  <2>2. /\ d \in Body /\ d.effects = b.effects /\ d.gear = b.gear /\ d.mods = b.mods /\ d.casting = b.casting
        /\ d.flag = 0 /\ d.shown = FALSE
    BY <2>1 DEF Body
  <2> HIDE DEF d
  <2>3. CASE p \in over
    <3>1. B[p] = d
      BY <2>3 DEF d
    <3>2. b.flag <= clock
      BY <2>3
    <3> HIDE DEF B, F, over
    <3> QED BY <2>2, <3>1, <3>2 DEF Faded
  <2>4. CASE p \notin over
    <3>1. B[p] = b /\ (p \in here /\ p \in L.flagged => p \in F /\ ~(b.flag <= clock))
      BY <2>4
    <3>2. b.flag \in Nat
      BY <2>1 DEF Body
    <3>3. p \in here /\ p \in L.flagged => p \in F /\ clock < b.flag
      BY <3>1, <3>2
    <3> HIDE DEF B, F
    <3> QED BY <2>1, <3>1, <3>3 DEF Faded
  <2> QED BY <2>3, <2>4
<1> HIDE DEF over
<1>4. F \subseteq Players
  BY <1>1
<1> HIDE DEF F, B
<1>5. /\ M.log = L.log /\ M.buffed = L.buffed /\ M.mixed = L.mixed /\ M.lost = L.lost
      /\ M.near = L.near /\ M.intent = L.intent /\ M.events = L.events /\ DOMAIN M = Parts
      /\ M.flagged = F /\ M.body = B
  BY <1>1, <1>2 DEF Parts
<1> QED BY <1>3, <1>4, <1>5

LEMMA SweepCarries == CarriesInv /\ ServiceBuffs => Held(L0)' /\ Settled'
<1> SUFFICES ASSUME CarriesInv, ServiceBuffs PROVE Held(L0)' /\ Settled'
  OBVIOUS
<1> DEFINE L == ExpireFlags(L0)
           due == {p \in L.buffed : p \in here /\ L.body[p].effects # {}}
           after == [p \in Players |-> IF p \in due THEN Serviced(L.body[p]) ELSE L.body[p]]
           rebuilt == {p \in due : Outlived(body[p].effects) # {}}
           overlap == {p \in rebuilt : dressing[p] # <<>>}
           buffed == {p \in due : after[p].effects # {}}
           lost == L.lost \ ({"buff"} \X due)
           mixed == (L.mixed \ rebuilt) \union overlap
           M == [L EXCEPT !.body = after, !.buffed = buffed, !.lost = lost, !.mixed = mixed]
<1>1. /\ L.log = h.log /\ L.buffed = S.buffed /\ L.mixed = h.mixed /\ L.lost = h.lost
      /\ L.near = near /\ L.intent = S.intent /\ L.events = S.events /\ DOMAIN L = Parts
      /\ L.flagged \subseteq Players
      /\ \A p \in Players :
           /\ Faded(body[p], L.body[p])
           /\ p \in here /\ p \in S.flagged /\ L.body[p].flag # 0 => p \in L.flagged /\ clock < L.body[p].flag
  <2>1. L = ExpireFlags(L0)
    OBVIOUS
  <2> HIDE DEF L
  <2> QED BY <2>1, Starts, Expired, LoopParts0, MoreParts0
<1>2. /\ Become(M) /\ UNCHANGED <<here, leaving, notices, dressing, clock>> /\ swept' = clock
  <2>1. /\ [L EXCEPT !.body = after].lost = L.lost /\ [L EXCEPT !.body = after].mixed = L.mixed
    BY <1>1 DEF Parts
  <2> QED BY DEF ServiceBuffs
<1> HIDE DEF L
<1>3. /\ M.body = after /\ M.log = h.log /\ M.buffed = buffed /\ M.flagged = L.flagged /\ M.mixed = mixed
      /\ M.lost = lost /\ M.near = near /\ M.intent = S.intent /\ M.events = S.events
  BY <1>1 DEF Parts
<1> HIDE DEF M
<1>4. /\ S'.buffed = buffed /\ S'.flagged = L.flagged /\ S'.intent = S.intent /\ S'.events = S.events
      /\ h'.mixed = mixed /\ h'.lost = lost /\ h'.log = h.log /\ body' = after /\ near' = near
      /\ S'.computing = S.computing /\ S' = [y \in LoopParts |-> S'[y]]
  BY <1>2, <1>3 DEF Become, CarriesInv, EffectsInv, LoopParts, Memory
<1>5. ASSUME NEW p \in Players PROVE Kept(L0, p)'
  <2> DEFINE b == body[p]
             e == L.body[p]
             d == after[p]
             old == Outlived(b.effects)
  <2>1. Kept(L0, p) /\ L0.body[p] = b /\ b \in Body /\ Exclusive(b.effects)
    BY Starts, LoopParts0 DEF Kept, Whole
  <2>2. /\ Whole(b) /\ Vouched(b, h.log)
        /\ p \in here => /\ Coloured(b, p \in S.flagged, <<"flag", p>> \in h.lost)
                         /\ Lasting(b, p \in S.buffed, <<"buff", p>> \in h.lost)
                         /\ Added(b, dressing[p], p \in h.mixed)
    BY <2>1, LoopParts0, MoreParts0 DEF Kept
  <2>3. /\ Whole(e) /\ e.effects = b.effects /\ e.gear = b.gear /\ e.mods = b.mods /\ e.casting = b.casting
        /\ \/ e.flag = b.flag /\ e.shown = b.shown
           \/ e.flag = 0 /\ e.shown = FALSE /\ b.flag <= clock
        /\ p \in here /\ p \in S.flagged /\ e.flag # 0 => p \in L.flagged /\ clock < e.flag
    BY <1>1, <2>1 DEF Whole, Faded
  <2>4. ModsOf(e, e.effects) = ModsOf(b, b.effects)
    BY <2>3 DEF ModsOf
  <2>5. p \in due <=> p \in S.buffed /\ p \in here /\ b.effects # {}
    BY <1>1, <2>3
  <2>6. p \in due => /\ Whole(d) /\ d.casting = e.casting /\ d.flag = e.flag /\ d.shown = e.shown
                     /\ Outlived(d.effects) = {}
                     /\ old = {} => d.mods = b.mods /\ ModsOf(d, d.effects) = ModsOf(b, b.effects)
                     /\ old # {} => d.mods = ModsOf(d, d.effects)
    <3> SUFFICES ASSUME p \in due
                 PROVE  /\ Whole(d) /\ d.casting = e.casting /\ d.flag = e.flag /\ d.shown = e.shown
                        /\ Outlived(d.effects) = {}
                        /\ old = {} => d.mods = b.mods /\ ModsOf(d, d.effects) = ModsOf(b, b.effects)
                        /\ old # {} => d.mods = ModsOf(d, d.effects)
      OBVIOUS
    <3>1. d = Serviced(e) /\ clock \in Nat
      BY Starts
    <3> HIDE DEF d, e, b
    <3> QED BY <2>3, <2>4, <3>1, ServicedWhole
  <2>7. p \notin due => d = e
    OBVIOUS
  <2>8. Whole(d) /\ d.casting = b.casting /\ d.flag = e.flag /\ d.shown = e.shown
    BY <2>3, <2>6, <2>7
  <2>9. /\ p \in buffed <=> p \in due /\ d.effects # {}
        /\ <<"flag", p>> \in lost <=> <<"flag", p>> \in h.lost
        /\ <<"buff", p>> \in lost <=> <<"buff", p>> \in h.lost /\ p \notin due
        /\ p \in mixed <=> \/ p \in h.mixed /\ ~(p \in due /\ old # {})
                           \/ p \in due /\ old # {} /\ dressing[p] # <<>>
    <3>1. p \in rebuilt <=> p \in due /\ old # {}
      OBVIOUS
    <3>2. p \in overlap <=> p \in rebuilt /\ dressing[p] # <<>>
      OBVIOUS
    <3> HIDE DEF rebuilt, overlap, due, after, old
    <3>3. /\ <<"flag", p>> \notin {"buff"} \X due
          /\ <<"buff", p>> \in {"buff"} \X due <=> p \in due
      OBVIOUS
    <3> QED BY <1>1, <3>1, <3>2, <3>3
  <2>10. /\ L0'.body[p] = d /\ L0'.log = h.log /\ L0'.buffed = buffed /\ L0'.flagged = L.flagged
         /\ L0'.mixed = mixed /\ L0'.lost = lost /\ here' = here /\ dressing' = dressing /\ clock' = clock
         /\ swept' = clock
    BY <1>2, <1>4 DEF L0
  <2> HIDE DEF after, due, b, e, d, buffed, lost, mixed, rebuilt, overlap, old
  <2>11. Whole(L0.body[p])'
    BY <2>8, <2>10 DEF Whole, Exclusive, SameType
  <2>12. Vouched(L0.body[p], L0.log)'
    <3>1. CASE b.casting = NoCast
      BY <2>8, <2>10, <3>1 DEF Vouched
    <3>2. CASE b.casting # NoCast
      <4> DEFINE c == h.log[b.casting.id]
      <4>1. c.start \in 0..clock /\ (Owes(c) => b.flag >= c.start + FlagTime \/ clock >= c.start + FlagTime)
        BY <2>2, <3>2 DEF Vouched
      <4> HIDE DEF c
      <4>2. FlagTime \in Nat /\ b.flag \in Nat /\ clock \in Nat
        BY <2>1, Starts, EffectsAssumption DEF Body
      <4>3. Owes(c) => d.flag >= c.start + FlagTime \/ clock >= c.start + FlagTime
        BY <2>3, <2>8, <4>1, <4>2
      <4> QED BY <2>8, <2>10, <4>1, <4>3 DEF Vouched, c, Owes, IsOffensive
    <3> QED BY <3>1, <3>2
  <2>13. p \in here' => Coloured(L0.body[p], p \in L0.flagged, <<"flag", p>> \in L0.lost)'
    <3> SUFFICES ASSUME p \in here PROVE Coloured(L0.body[p], p \in L0.flagged, <<"flag", p>> \in L0.lost)'
      BY <2>10
    <3>1. Coloured(b, p \in S.flagged, <<"flag", p>> \in h.lost)
      BY <2>2
    <3>2. d.shown <=> d.flag # 0
      BY <2>3, <2>8, <3>1 DEF Coloured
    <3>3. <<"flag", p>> \notin h.lost => (d.flag # 0 => p \in L.flagged) /\ (d.flag = 0 \/ clock < d.flag)
      BY <2>3, <2>8, <3>1 DEF Coloured
    <3> QED BY <2>9, <2>10, <3>2, <3>3 DEF Coloured
  <2>14. p \in here' => Lasting(L0.body[p], p \in L0.buffed, <<"buff", p>> \in L0.lost)'
    <3> SUFFICES ASSUME p \in here, <<"buff", p>> \notin lost
                 PROVE  (d.effects # {} => p \in buffed) /\ Outlived(d.effects) = {}
      BY <2>10 DEF Lasting, Outlived
    <3>1. CASE p \in due
      BY <2>6, <2>9, <3>1
    <3>2. CASE p \notin due
      <4>1. b.effects = {}
        BY <2>2, <2>5, <2>9, <3>2 DEF Lasting
      <4> QED BY <2>3, <2>7, <3>2, <4>1 DEF Outlived
    <3> QED BY <3>1, <3>2
  <2>15. p \in here' => Added(L0.body[p], dressing[p], p \in L0.mixed)'
    <3> SUFFICES ASSUME p \in here, p \notin mixed PROVE Added(d, dressing[p], FALSE)
      BY <2>10 DEF Added, ModsOf
    <3>1. CASE p \in due /\ old # {}
      BY <2>6, <2>9, <3>1 DEF Added
    <3>2. CASE ~(p \in due /\ old # {})
      <4>1. Added(b, dressing[p], FALSE)
        BY <2>2, <2>9, <3>2 DEF Added
      <4>2. d.mods = b.mods /\ ModsOf(d, d.effects) = ModsOf(b, b.effects)
        BY <2>3, <2>4, <2>6, <2>7, <3>2
      <4> QED BY <4>1, <4>2 DEF Added
    <3> QED BY <3>1, <3>2
  <2> QED BY <2>11, <2>12, <2>13, <2>14, <2>15 DEF Kept
<1>6. Told(L0.log)'
  <2>1. Told(h.log) /\ L0'.log = h.log /\ clock' = clock
    BY <1>2, <1>4, Starts, LoopParts0 DEF Held, L0
  <2> QED BY <2>1 DEF Told, Owes, IsOffensive
<1>7. buffed \subseteq Players
  <2>1. S.buffed \subseteq Players
    BY Starts, MoreParts0 DEF Held
  <2> HIDE DEF after
  <2> QED BY <1>1, <2>1
<1>10. after \in [Players -> Body]
  <2>1. \A p \in Players : after[p] \in Body
    BY <1>4, <1>5 DEF L0, Kept, Whole
  <2> QED BY <2>1
<1> HIDE DEF buffed, after, lost, mixed, due
<1>8. Held(L0)'
  BY <1>1, <1>2, <1>4, <1>5, <1>6, <1>7, <1>10, Starts, StepHeld, LoopParts0, MoreParts0 DEF Held
<1>9. Settled'
  <2>1. swept' \in 0..clock'
    BY <1>2, Starts
  <2> QED BY <1>2, <1>4, <2>1 DEF CarriesInv, Settled
<1> QED BY <1>8, <1>9

LEMMA CarriesInit == Init => CarriesInv
<1> SUFFICES ASSUME Init PROVE CarriesInv
  OBVIOUS
<1>1. /\ here = Players /\ body = [p \in Players |-> FreshBody] /\ clock = 0 /\ swept = 0
      /\ leaving = {} /\ notices = {} /\ dressing = [p \in Players |-> <<>>]
      /\ S = LoopInit /\ h = [log |-> <<>>, lost |-> {}, mixed |-> {}]
      /\ near \in [Players -> SUBSET Objects]
  BY DEF Init, StartAt
<1>2. /\ L0.log = <<>> /\ L0.events = {} /\ L0.buffed = {} /\ L0.flagged = {} /\ L0.lost = {} /\ L0.mixed = {}
      /\ L0.near = near /\ L0.intent = [p \in Players |-> "idle"] /\ L0.body = body
  BY <1>1, LoopParts0, MoreParts0 DEF LoopInit
<1>3. ASSUME NEW p \in Players PROVE Kept(L0, p)
  <2> DEFINE b == body[p]
  <2>1. b = FreshBody /\ dressing[p] = <<>>
    BY <1>1
  <2> HIDE DEF b
  <2>2. /\ Whole(b) /\ Vouched(b, <<>>) /\ Coloured(b, FALSE, FALSE) /\ Lasting(b, FALSE, FALSE)
        /\ Added(b, <<>>, FALSE)
    BY <2>1, FreshKept
  <2>3. /\ L0.body[p] = b /\ p \notin L0.flagged /\ p \notin L0.buffed /\ p \notin L0.mixed
        /\ <<"flag", p>> \notin L0.lost /\ <<"buff", p>> \notin L0.lost
    BY <1>2 DEF b
  <2>4. Coloured(b, p \in L0.flagged, <<"flag", p>> \in L0.lost)
    BY <2>2, <2>3 DEF Coloured
  <2>5. Lasting(b, p \in L0.buffed, <<"buff", p>> \in L0.lost)
    BY <2>2, <2>3 DEF Lasting
  <2>6. Added(b, dressing[p], p \in L0.mixed)
    BY <2>1, <2>2, <2>3 DEF Added
  <2> QED BY <1>2, <2>2, <2>3, <2>4, <2>5, <2>6 DEF Kept
<1>4. Held(L0)
  <2>1. Told(<<>>)
    BY DEF Told
  <2>2. body \in [Players -> Body]
    BY <1>1, FreshFields
  <2> QED BY <1>1, <1>2, <1>3, <2>1, <2>2 DEF Held
<1>5. Settled
  <2>1. S = [x \in LoopParts |-> S[x]] /\ S.computing = Nobody
    BY <1>1 DEF LoopInit, LoopParts
  <2> QED BY <1>1, <2>1, EffectsAssumption DEF Settled, Hands
<1> QED BY <1>4, <1>5, EffectsInit DEF CarriesInv

LEMMA CarriesStep == CarriesInv /\ [Next]_vars => CarriesInv'
<1> SUFFICES ASSUME CarriesInv, [Next]_vars PROVE Held(L0)' /\ Settled'
  BY EffectsStep DEF CarriesInv
<1>1. ASSUME NEW p \in Players, NEW s \in Skills,
             \/ \E ctrl \in BOOLEAN : CastRequest(p, s, ctrl)
             \/ ItemSkillCast(p, s)
             \/ Dispel(p, s)
      PROVE  Held(L0)' /\ Settled'
  BY <1>1, RequestCarries
<1>2. ASSUME NEW p \in Players,
             \/ MoveToLocation(p) \/ Arrive(p) \/ Wound(p) \/ Revive(p) \/ PlayerDisconnected(p)
             \/ ComputeRead(p) \/ EquipRead(p) \/ EquipStore(p) \/ AddPlayer(p)
             \/ \E o \in Objects \cup {Nobody} : SetTarget(p, o)
      PROVE  Held(L0)' /\ Settled'
  BY <1>2, MoveCarries, ArriveCarries, WoundCarries, ReviveCarries, DisconnectedCarries, ComputeCarries,
     EquipCarries, AddCarries, SetTargetCarries
<1>3. ASSUME NEW p \in Players,
             \/ RequestRestartPoint(p) \/ BeginRestart(p) \/ RestartRefused(p) \/ RemovePlayer(p)
             \/ \E objects \in SUBSET (Objects \ {p}) : Wander(p, objects)
      PROVE  Held(L0)' /\ Settled'
  BY <1>3, ComingCarries
<1>4. ASSUME Execute PROVE Held(L0)' /\ Settled'
  <2>1. PICK e \in S.events : e.at <= clock /\ (CastHit(e) \/ CastApproach(e))
    BY <1>4 DEF Execute
  <2>2. UNCHANGED <<here, leaving, notices, dressing, clock, swept>>
    BY <1>4 DEF Execute
  <2> QED BY <2>1, <2>2, HitCarries, ApproachCarries
<1>5. CASE ComputeStore \/ Regen \/ ServiceBuffs \/ Pass
  BY <1>5, ComputeCarries, RegenCarries, SweepCarries, PassCarries
<1>6. CASE UNCHANGED vars
  <2>1. /\ \A q \in Players : Beside(body[q], body[q])
        /\ body \in [Players -> Body] /\ near \in [Players -> SUBSET Objects]
    BY Starts, Edits, LoopParts0 DEF Held
  <2>2. UNCHANGED <<here, body, near, leaving, notices, dressing, S, clock, swept, h>>
    BY <1>6 DEF vars
  <2>3. Held(L0)'
    BY <2>1, <2>2, QuietCarries
  <2> QED BY <2>2, <2>3 DEF CarriesInv, Settled
<1> QED BY <1>1, <1>2, <1>3, <1>4, <1>5, <1>6 DEF Next

(* The harm a character does to another one that wears no flag is answered: when
   the skill lands, the attacker's flag still runs. And after every sweep the name
   has the colour of the flag, although the sweep looks only at those on its list
   (pvp.go:18-90, cast.go:92-110). *)
THEOREM HarmStaysShown == Spec => []HarmShown
<1>1. CarriesInv => HarmShown
  <2> SUFFICES ASSUME CarriesInv PROVE HarmShown
    OBVIOUS
  <2>1. HarmAnswered
    BY Starts, LoopParts0 DEF Held, Told, Owes, HarmAnswered
  <2>2. RelationShown
    <3> SUFFICES ASSUME swept = clock, NEW p \in here, <<"flag", p>> \notin h.lost
                 PROVE  body[p].shown <=> Flagged(body[p])
      BY DEF RelationShown
    <3>1. Coloured(body[p], p \in S.flagged, <<"flag", p>> \in h.lost) /\ clock \in Nat
      BY Starts, LoopParts0, MoreParts0 DEF Kept
    <3> QED BY <3>1 DEF Coloured, Flagged
  <2> QED BY <2>1, <2>2 DEF HarmShown
<1> QED BY <1>1, CarriesInit, CarriesStep, PTL DEF Spec

(* The effects a character carries exclude each other, none outlives a sweep, and
   the stat layer holds the modifiers of exactly these and of the gear: whatever
   the loop and the connection do to it between two sweeps (models/buff.go:80,
   gameloop/buff.go:160-190, registry/world.go:95-110). *)
THEOREM EffectsStaySound == Spec => []EffectsSound
<1>1. CarriesInv => EffectsSound
  <2> SUFFICES ASSUME CarriesInv PROVE EffectsSound
    OBVIOUS
  <2>1. S \in LoopState
    <3> DEFINE P == [skill : Skills \cup {NoSkill}, ctrl : BOOLEAN]
    <3>1. /\ S.buffed \in SUBSET Players /\ S.flagged \in SUBSET Players
          /\ S.intent \in [Players -> {"idle", "cast", "walk"}] /\ S.computing \in Players \cup {Nobody}
          /\ S = [x \in LoopParts |-> S[x]]
      BY Starts, MoreParts0, LoopParts0 DEF Held, CarriesInv, Settled
    <3>2. /\ S.pending \in [Players -> P] /\ S.events \in SUBSET Event
          /\ S.ready \in [Players -> [Skills -> Nat]]
      BY Starts, LoopParts0 DEF Shaped
    <3> HIDE DEF P
    <3>3. S \in [buffed : SUBSET Players, flagged : SUBSET Players, pending : [Players -> P],
                 intent : [Players -> {"idle", "cast", "walk"}], events : SUBSET Event,
                 ready : [Players -> [Skills -> Nat]], computing : Players \cup {Nobody}]
      BY <3>1, <3>2 DEF LoopParts
    <3> QED BY <3>3 DEF LoopState, P
  <2>2. \A p \in Players : body[p].casting.id \in 0..Len(h.log)
    <3> TAKE p \in Players
    <3>1. Len(h.log) \in Nat /\ DOMAIN h.log = 1..Len(h.log)
      BY Starts, LogTyped, LoopParts0
    <3>2. CASE body[p].casting = NoCast
      BY <3>1, <3>2 DEF NoCast
    <3>3. CASE body[p].casting # NoCast
      <4>1. body[p].casting.id \in DOMAIN h.log
        BY <3>3, Starts, LoopParts0 DEF Fine, Linked
      <4> QED BY <3>1, <4>1
    <3> QED BY <3>2, <3>3
  <2>3. EffectsTypeOK
    BY <2>1, <2>2, Starts, LoopParts0 DEF EffectsTypeOK, CarriesInv, Settled, Held
  <2>4. BuffsServiced
    BY Starts, LoopParts0, MoreParts0 DEF Kept, Lasting, BuffsServiced
  <2>5. EffectsExclusive
    BY Starts, LoopParts0 DEF Kept, Whole, Exclusive, EffectsExclusive
  <2>6. StatsComplete
    BY Starts, LoopParts0, MoreParts0 DEF Kept, Added, StatsComplete
  <2> QED BY <2>3, <2>4, <2>5, <2>6 DEF EffectsSound
<1> QED BY <1>1, CarriesInit, CarriesStep, PTL DEF Spec
=============================================================================
