------------------------------ MODULE SumProofs -----------------------------
(* What SumFunctionOnSet of the community module Functions computes: the sum of
   a function's values over a finite set, whatever the order of the elements.
   Induction is over sets of numbers. *)
EXTENDS Functions, Integers, FiniteSetTheorems, WellFoundedInduction, TLAPS

(* The natural numbers are well founded. *)
LEMMA SmallestExists ==
  ASSUME NEW S \in SUBSET Nat, S # {}
  PROVE  \E n \in S : \A m \in S : n <= m
<1> DEFINE R == OpToRel(<, Nat)
<1>1. IsWellFoundedOn(R, Nat)
  BY NatLessThanWellFounded
<1>2. \A m, n \in Nat : <<m, n>> \in R <=> m < n
  BY DEF OpToRel
<1> HIDE DEF R
<1>3. PICK n \in S : \A m \in S : ~(<<m, n>> \in R)
  BY <1>1, WFMin
<1>4. \A m \in S : m \in Nat /\ n \in Nat /\ ~(m < n)
  BY <1>2, <1>3
<1> QED
  BY <1>3, <1>4

(* Induction for a set of numbers. *)
LEMMA AllNumbers ==
  ASSUME NEW T, 0 \in T, \A n \in Nat : n \in T => n + 1 \in T
  PROVE  Nat \subseteq T
<1> DEFINE S == Nat \ T
<1> SUFFICES ASSUME S # {} PROVE FALSE
  OBVIOUS
<1>1. PICK n \in S : \A m \in S : n <= m
  BY SmallestExists
<1>2. n # 0 /\ n - 1 \in Nat
  BY <1>1
<1>3. n - 1 \in T
  BY <1>1, <1>2
<1> QED
  BY <1>1, <1>2, <1>3

-----------------------------------------------------------------------------
(* The recursion of the fold. *)

First(s) == CHOOSE x \in s : TRUE
Sums(g, f, S) ==
  g = [s \in SUBSET S |-> IF s = {} THEN 0 ELSE f[First(s)] + g[s \ {First(s)}]]

(* Taking the first element leaves a smaller finite set. *)
LEMMA FirstIsOf ==
  ASSUME NEW s, IsFiniteSet(s), s # {}
  PROVE  /\ First(s) \in s
         /\ IsFiniteSet(s \ {First(s)})
         /\ Cardinality(s) \in Nat
         /\ Cardinality(s \ {First(s)}) = Cardinality(s) - 1
         /\ Cardinality(s) > 0
<1>1. First(s) \in s
  BY DEF First
<1> QED
  BY <1>1, FS_RemoveElement, FS_CardinalityType, FS_EmptySet

(* There is a function that adds up. *)
LEMMA SumsExist ==
  ASSUME NEW f, NEW S, IsFiniteSet(S)
  PROVE  \E g : Sums(g, f, S)
<1> DEFINE Small(n) == {s \in SUBSET S : Cardinality(s) <= n}
           Upto(g, n) == g = [s \in Small(n) |-> IF s = {} THEN 0
                                                 ELSE f[First(s)] + g[s \ {First(s)}]]
           T == {n \in Nat : \E g : Upto(g, n)}
<1>1. \A s \in SUBSET S : IsFiniteSet(s) /\ Cardinality(s) \in Nat
  BY FS_Subset, FS_CardinalityType
<1>2. 0 \in T
  <2> DEFINE g == [s \in Small(0) |-> 0]
  <2>1. \A s \in Small(0) : s = {}
    BY <1>1, FS_EmptySet
  <2>2. Upto(g, 0)
    BY <2>1
  <2> QED
    BY <2>2
<1>3. ASSUME NEW n \in Nat, n \in T
      PROVE  n + 1 \in T
  <2>1. PICK g : Upto(g, n)
    BY <1>3
  <2> DEFINE h == [s \in Small(n + 1) |->
                     IF s = {} THEN 0 ELSE f[First(s)] + g[s \ {First(s)}]]
  <2>2. ASSUME NEW s \in Small(n), s # {}
        PROVE  s \ {First(s)} \in Small(n)
    BY <1>1, <2>2, FirstIsOf
  <2>3. ASSUME NEW s \in Small(n + 1), s # {}
        PROVE  s \ {First(s)} \in Small(n)
    BY <1>1, <2>3, FirstIsOf
  <2>4. Small(n) \subseteq Small(n + 1)
    BY <1>1
  <2>5. \A s \in Small(n) : h[s] = g[s]
    BY <2>1, <2>4
  <2>6. ASSUME NEW s \in Small(n + 1), s # {}
        PROVE  h[s] = f[First(s)] + h[s \ {First(s)}]
    BY <2>3, <2>5, <2>6
  <2>7. Upto(h, n + 1)
    BY <2>6
  <2> HIDE DEF Upto, h
  <2> QED
    BY <2>7
<1>4. Nat \subseteq T
  <2> HIDE DEF T
  <2> QED
    BY <1>2, <1>3, AllNumbers
<1>5. Small(Cardinality(S)) = SUBSET S
  BY FS_Subset
<1>6. Cardinality(S) \in T
  BY <1>1, <1>4
<1>7. PICK g : Upto(g, Cardinality(S))
  BY <1>6
<1> QED
  BY <1>5, <1>7 DEF Sums

(* What it adds up to does not depend on what else there is to add. *)
LEMMA SumsAgree ==
  ASSUME NEW f, NEW g, NEW S, NEW h, NEW e, NEW R, Sums(g, f, S), Sums(h, e, R),
         NEW s, s \subseteq S, s \subseteq R, IsFiniteSet(s),
         \A x \in s : f[x] = e[x]
  PROVE  g[s] = h[s]
<1> DEFINE T == {n \in Nat : \A r \in SUBSET s : Cardinality(r) = n => g[r] = h[r]}
<1>1. \A r \in SUBSET s : IsFiniteSet(r) /\ Cardinality(r) \in Nat
  BY FS_Subset, FS_CardinalityType
<1>2. 0 \in T
  <2>1. ASSUME NEW r \in SUBSET s, Cardinality(r) = 0
        PROVE  g[r] = h[r]
    <3>1. r = {}
      BY <1>1, <2>1, FS_EmptySet
    <3> QED
      BY <3>1 DEF Sums
  <2> QED
    BY <2>1
<1>3. ASSUME NEW n \in Nat, n \in T
      PROVE  n + 1 \in T
  <2>1. ASSUME NEW r \in SUBSET s, Cardinality(r) = n + 1
        PROVE  g[r] = h[r]
    <3>1. r # {}
      BY <2>1, FS_EmptySet
    <3> DEFINE t == r \ {First(r)}
    <3>2. First(r) \in r /\ Cardinality(t) = n
      BY <1>1, <2>1, <3>1, FirstIsOf
    <3>3. g[t] = h[t]
      BY <1>3, <3>2
    <3>4. g[r] = f[First(r)] + g[t]
      BY <3>1 DEF Sums
    <3>5. h[r] = e[First(r)] + h[t]
      BY <3>1 DEF Sums
    <3> QED
      BY <3>2, <3>3, <3>4, <3>5
  <2> QED
    BY <2>1
<1>4. Nat \subseteq T
  <2> HIDE DEF T
  <2> QED
    BY <1>2, <1>3, AllNumbers
<1> QED
  BY <1>1, <1>4

-----------------------------------------------------------------------------
(* The community module's definition. *)

LEMMA SumIsFold ==
  ASSUME NEW f, NEW S
  PROVE  SumFunctionOnSet(f, S) = (CHOOSE g : Sums(g, f, S))[S]
BY DEF SumFunctionOnSet, FoldFunctionOnSet, MapThenFoldSet, Sums, First

(* So the sum is what such a function gives. *)
LEMMA SumUnfolds ==
  ASSUME NEW f, NEW S, IsFiniteSet(S)
  PROVE  \E g : Sums(g, f, S) /\ SumFunctionOnSet(f, S) = g[S]
BY SumsExist, SumIsFold

(* Functions that agree on a set have the same sum. *)
LEMMA SumSame ==
  ASSUME NEW f, NEW e, NEW S, IsFiniteSet(S), \A x \in S : f[x] = e[x]
  PROVE  SumFunctionOnSet(f, S) = SumFunctionOnSet(e, S)
<1>1. PICK g : Sums(g, f, S) /\ SumFunctionOnSet(f, S) = g[S]
  BY SumUnfolds
<1>2. PICK h : Sums(h, e, S) /\ SumFunctionOnSet(e, S) = h[S]
  BY SumUnfolds
<1> QED
  BY <1>1, <1>2, SumsAgree

LEMMA SumEmpty ==
  ASSUME NEW f
  PROVE  SumFunctionOnSet(f, {}) = 0
<1>1. PICK g : Sums(g, f, {}) /\ SumFunctionOnSet(f, {}) = g[{}]
  BY SumUnfolds, FS_EmptySet
<1> QED
  BY <1>1 DEF Sums

LEMMA SumOfFirst ==
  ASSUME NEW f, NEW S, IsFiniteSet(S), S # {}
  PROVE  SumFunctionOnSet(f, S) = f[First(S)] + SumFunctionOnSet(f, S \ {First(S)})
<1>1. PICK g : Sums(g, f, S) /\ SumFunctionOnSet(f, S) = g[S]
  BY SumUnfolds
<1> DEFINE R == S \ {First(S)}
<1>2. IsFiniteSet(R)
  BY FirstIsOf
<1>3. PICK h : Sums(h, f, R) /\ SumFunctionOnSet(f, R) = h[R]
  BY <1>2, SumUnfolds
<1>4. g[R] = h[R]
  BY <1>1, <1>2, <1>3, SumsAgree
<1>5. g[S] = f[First(S)] + g[R]
  BY <1>1 DEF Sums
<1> QED
  BY <1>1, <1>3, <1>4, <1>5

(* Numbers add up to a number. *)
LEMMA SumIsNat ==
  ASSUME NEW f, NEW S, IsFiniteSet(S), \A x \in S : f[x] \in Nat
  PROVE  SumFunctionOnSet(f, S) \in Nat
<1> DEFINE T == {n \in Nat : \A s \in SUBSET S :
                               Cardinality(s) = n => SumFunctionOnSet(f, s) \in Nat}
<1>1. \A s \in SUBSET S : IsFiniteSet(s) /\ Cardinality(s) \in Nat
  BY FS_Subset, FS_CardinalityType
<1>2. 0 \in T
  BY <1>1, FS_EmptySet, SumEmpty
<1>3. ASSUME NEW n \in Nat, n \in T
      PROVE  n + 1 \in T
  <2>1. ASSUME NEW s \in SUBSET S, Cardinality(s) = n + 1
        PROVE  SumFunctionOnSet(f, s) \in Nat
    <3>1. s # {}
      BY <2>1, FS_EmptySet
    <3> DEFINE r == s \ {First(s)}
    <3>2. First(s) \in s /\ Cardinality(r) = n
      BY <1>1, <2>1, <3>1, FirstIsOf
    <3>3. SumFunctionOnSet(f, r) \in Nat
      BY <1>3, <3>2
    <3>4. SumFunctionOnSet(f, s) = f[First(s)] + SumFunctionOnSet(f, r)
      BY <1>1, <3>1, SumOfFirst
    <3> QED
      BY <3>2, <3>3, <3>4
  <2> QED
    BY <2>1
<1>4. Nat \subseteq T
  <2> HIDE DEF T
  <2> QED
    BY <1>2, <1>3, AllNumbers
<1> QED
  BY <1>1, <1>4

(* Any element of a finite set may be taken out of the sum first. *)
LEMMA SumTakesOut ==
  ASSUME NEW f, NEW S, IsFiniteSet(S), \A x \in S : f[x] \in Nat, NEW x \in S
  PROVE  SumFunctionOnSet(f, S) = f[x] + SumFunctionOnSet(f, S \ {x})
<1> DEFINE Out(s, y) == SumFunctionOnSet(f, s) = f[y] + SumFunctionOnSet(f, s \ {y})
           T == {n \in Nat : \A s \in SUBSET S :
                               Cardinality(s) = n => \A y \in s : Out(s, y)}
<1>1. \A s \in SUBSET S : /\ IsFiniteSet(s) /\ Cardinality(s) \in Nat
                          /\ SumFunctionOnSet(f, s) \in Nat
  BY FS_Subset, FS_CardinalityType, SumIsNat
<1>2. 0 \in T
  BY <1>1, FS_EmptySet
<1>3. ASSUME NEW n \in Nat, n \in T
      PROVE  n + 1 \in T
  <2>1. ASSUME NEW s \in SUBSET S, Cardinality(s) = n + 1, NEW y \in s
        PROVE  Out(s, y)
    <3> DEFINE z == First(s)
    <3>1. z \in s /\ Cardinality(s \ {z}) = n /\ Out(s, z)
      BY <1>1, <2>1, FirstIsOf, SumOfFirst
    <3>2. CASE y = z
      BY <3>1, <3>2
    <3>3. CASE y # z
      <4> DEFINE r == s \ {y, z}
      <4>1. Cardinality(s \ {y}) = n
        BY <1>1, <2>1, FS_RemoveElement, SMTT(30)
      <4>2. y \in s \ {z} /\ (s \ {z}) \ {y} = r /\ z \in s \ {y} /\ (s \ {y}) \ {z} = r
        BY <3>1, <3>3
      <4>3. SumFunctionOnSet(f, s \ {z}) = f[y] + SumFunctionOnSet(f, r)
        BY <1>3, <3>1, <4>2
      <4>4. SumFunctionOnSet(f, s \ {y}) = f[z] + SumFunctionOnSet(f, r)
        BY <1>3, <4>1, <4>2
      <4>5. f[y] \in Nat /\ f[z] \in Nat /\ SumFunctionOnSet(f, r) \in Nat
        BY <1>1, <3>1
      <4> HIDE DEF z, r
      <4> QED
        BY <3>1, <4>3, <4>4, <4>5
    <3> QED
      BY <3>2, <3>3
  <2> QED
    BY <2>1
<1>4. Nat \subseteq T
  <2> HIDE DEF T
  <2> QED
    BY <1>2, <1>3, AllNumbers
<1> QED
  BY <1>1, <1>4

(* A function that changes in one place changes the sum by as much. *)
LEMMA SumChanges ==
  ASSUME NEW f, NEW e, NEW S, IsFiniteSet(S), NEW x \in S,
         \A y \in S : f[y] \in Nat /\ e[y] \in Nat,
         \A y \in S \ {x} : f[y] = e[y]
  PROVE  SumFunctionOnSet(e, S) = SumFunctionOnSet(f, S) - f[x] + e[x]
<1>1. SumFunctionOnSet(f, S) = f[x] + SumFunctionOnSet(f, S \ {x})
  BY SumTakesOut
<1>2. SumFunctionOnSet(e, S) = e[x] + SumFunctionOnSet(e, S \ {x})
  BY SumTakesOut
<1>3. SumFunctionOnSet(f, S \ {x}) = SumFunctionOnSet(e, S \ {x})
  BY SumSame, FS_RemoveElement
<1>4. SumFunctionOnSet(f, S \ {x}) \in Nat
  BY SumIsNat, FS_RemoveElement
<1> QED
  BY <1>1, <1>2, <1>3, <1>4

(* Fewer elements do not add up to more. *)
LEMMA SumOfSome ==
  ASSUME NEW f, NEW S, IsFiniteSet(S), \A x \in S : f[x] \in Nat, NEW R \in SUBSET S
  PROVE  SumFunctionOnSet(f, R) <= SumFunctionOnSet(f, S)
<1> DEFINE T == {n \in Nat : \A s \in SUBSET S : R \subseteq s /\ Cardinality(s) = n
                               => SumFunctionOnSet(f, R) <= SumFunctionOnSet(f, s)}
<1>1. \A s \in SUBSET S : /\ IsFiniteSet(s) /\ Cardinality(s) \in Nat
                          /\ SumFunctionOnSet(f, s) \in Nat
  BY FS_Subset, FS_CardinalityType, SumIsNat
<1>2. 0 \in T
  BY <1>1, FS_EmptySet
<1>3. ASSUME NEW n \in Nat, n \in T
      PROVE  n + 1 \in T
  <2>1. ASSUME NEW s \in SUBSET S, R \subseteq s, Cardinality(s) = n + 1
        PROVE  SumFunctionOnSet(f, R) <= SumFunctionOnSet(f, s)
    <3>1. CASE s = R
      BY <1>1, <3>1
    <3>2. CASE s # R
      <4>1. PICK x \in s : x \notin R
        BY <2>1, <3>2
      <4>2. R \subseteq s \ {x} /\ Cardinality(s \ {x}) = n
        <5>1. Cardinality(s \ {x}) = Cardinality(s) - 1
          BY <1>1, FS_RemoveElement
        <5> QED
          BY <2>1, <4>1, <5>1
      <4>3. SumFunctionOnSet(f, R) <= SumFunctionOnSet(f, s \ {x})
        BY <1>3, <4>2
      <4>4. SumFunctionOnSet(f, s) = f[x] + SumFunctionOnSet(f, s \ {x})
        BY <1>1, SumTakesOut
      <4>5. /\ f[x] \in Nat /\ SumFunctionOnSet(f, R) \in Nat
            /\ SumFunctionOnSet(f, s \ {x}) \in Nat
        BY <1>1
      <4> QED
        BY <4>3, <4>4, <4>5
    <3> QED
      BY <3>1, <3>2
  <2> QED
    BY <2>1
<1>4. Nat \subseteq T
  <2> HIDE DEF T
  <2> QED
    BY <1>2, <1>3, AllNumbers
<1> QED
  BY <1>1, <1>4
=============================================================================
