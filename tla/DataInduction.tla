--------------------------- MODULE DataInduction ----------------------------
(***************************************************************************)
(* Lemmas by induction over data, for the proofs of the other modules: the *)
(* sum of a function over a finite set (units that orders hold), and what  *)
(* a filter leaves of a sequence (rows of a table that are deleted).       *)
(*                                                                         *)
(* The library's induction theorems take an operator; here a statement     *)
(* about every number is a set of numbers, and the well-foundedness of <   *)
(* does the rest (NatSetInduction).                                        *)
(***************************************************************************)
EXTENDS Integers, FiniteSets, Functions, SequencesExt, FiniteSetTheorems, WellFoundedInduction, TLAPS

LEMMA NatSetInduction ==
    ASSUME NEW T \in SUBSET Nat, 0 \in T, \A n \in T : n + 1 \in T
    PROVE  T = Nat
<1> SUFFICES ASSUME Nat \ T # {} PROVE FALSE OBVIOUS
<1> DEFINE R == OpToRel(<, Nat)
           U == Nat \ T
<1>1. IsWellFoundedOn(R, Nat) BY NatLessThanWellFounded
<1>2. \A m, n \in Nat : m < n => <<m, n>> \in R BY DEF OpToRel
<1>3. U \subseteq Nat /\ U # {} OBVIOUS
<1> HIDE DEF R, U
<1>4. PICK n \in U : \A m \in U : ~ (<<m, n>> \in R) BY <1>1, <1>3, WFMin
<1>5. n \in Nat /\ n # 0 BY <1>4 DEF U
<1>6. n - 1 \in Nat /\ n - 1 < n BY <1>5
<1>7. n - 1 \in T BY <1>2, <1>4, <1>5, <1>6 DEF U
<1>8. (n - 1) + 1 \in T BY <1>7
<1> QED BY <1>4, <1>5, <1>8 DEF U

-----------------------------------------------------------------------------
(* The last of some numbers.                                               *)

LEMMA HasGreatest ==
    ASSUME NEW n \in Nat, NEW S \in SUBSET (0..n), S # {}
    PROVE  \E m \in S : \A k \in S : k <= m
<1> DEFINE HasLast(V) == \E m \in V : \A k \in V : k <= m
           T == {x \in Nat : \A V \in SUBSET (0..x) : V # {} => HasLast(V)}
<1>1. 0 \in T
  <2> SUFFICES ASSUME NEW V \in SUBSET (0..0), V # {} PROVE HasLast(V) OBVIOUS
  <2>1. PICK m \in V : TRUE OBVIOUS
  <2>2. \A v \in V : v <= m OBVIOUS
  <2> QED BY <2>1, <2>2
<1>2. ASSUME NEW x \in T PROVE x + 1 \in T
  <2> SUFFICES ASSUME NEW V \in SUBSET (0..(x + 1)), V # {} PROVE HasLast(V) OBVIOUS
  <2>1. CASE x + 1 \in V BY <2>1
  <2>2. CASE x + 1 \notin V
    <3>1. V \subseteq 0..x BY <2>2
    <3> QED BY <3>1
  <2> QED BY <2>1, <2>2
<1>3. T = Nat
  <2> HIDE DEF T
  <2>1. T \subseteq Nat BY DEF T
  <2> QED BY <1>1, <1>2, <2>1, NatSetInduction
<1> QED BY <1>3

-----------------------------------------------------------------------------
(* Sums.                                                                   *)

Pick(s) == CHOOSE x \in s : TRUE

\* G takes the elements of a set away one by one, as SumFunctionOnSet does.
SumRule(f, S, G) == G = [s \in SUBSET S |-> IF s = {} THEN 0 ELSE f[Pick(s)] + G[s \ {Pick(s)}]]

LEMMA PickIsSmaller ==
    ASSUME NEW s, IsFiniteSet(s), s # {}
    PROVE  /\ Pick(s) \in s /\ IsFiniteSet(s \ {Pick(s)})
           /\ Cardinality(s) \in Nat \ {0} /\ Cardinality(s \ {Pick(s)}) = Cardinality(s) - 1
<1>1. Pick(s) \in s BY DEF Pick
<1>2. IsFiniteSet(s \ {Pick(s)}) /\ Cardinality(s \ {Pick(s)}) = Cardinality(s) - 1 BY <1>1, FS_RemoveElement
<1>3. Cardinality(s) \in Nat /\ Cardinality(s \ {Pick(s)}) \in Nat BY <1>2, FS_CardinalityType
<1> QED BY <1>1, <1>2, <1>3

LEMMA SumRuleIsUnique ==
    ASSUME NEW f, NEW S, IsFiniteSet(S), NEW G, NEW H, SumRule(f, S, G), SumRule(f, S, H)
    PROVE  G = H
<1> DEFINE T == {n \in Nat : \A s \in SUBSET S : Cardinality(s) = n => G[s] = H[s]}
<1>1. \A s \in SUBSET S : IsFiniteSet(s) /\ Cardinality(s) \in Nat BY FS_Subset, FS_CardinalityType
<1>2. 0 \in T
  <2> SUFFICES ASSUME NEW s \in SUBSET S, Cardinality(s) = 0 PROVE G[s] = H[s] OBVIOUS
  <2>1. s = {} BY <1>1, FS_EmptySet
  <2> QED BY <2>1 DEF SumRule
<1>3. ASSUME NEW n \in T PROVE n + 1 \in T
  <2> SUFFICES ASSUME NEW s \in SUBSET S, Cardinality(s) = n + 1 PROVE G[s] = H[s] OBVIOUS
  <2>1. s # {} BY <1>1, FS_EmptySet
  <2> DEFINE r == s \ {Pick(s)}
  <2>2. r \in SUBSET S /\ Cardinality(r) = n BY <1>1, <2>1, PickIsSmaller
  <2>3. G[r] = H[r] BY <2>2
  <2>4. G[s] = f[Pick(s)] + G[r] /\ H[s] = f[Pick(s)] + H[r] BY <2>1 DEF SumRule
  <2> QED BY <2>3, <2>4
<1>4. T = Nat
  <2> HIDE DEF T
  <2>1. T \subseteq Nat BY DEF T
  <2> QED BY <1>2, <1>3, <2>1, NatSetInduction
<1>5. \A s \in SUBSET S : G[s] = H[s] BY <1>1, <1>4
<1>6. G = [s \in SUBSET S |-> G[s]] /\ H = [s \in SUBSET S |-> H[s]] BY DEF SumRule
<1> QED BY <1>5, <1>6

LEMMA SumRuleHasOne ==
    ASSUME NEW f, NEW S, IsFiniteSet(S)
    PROVE  \E G : SumRule(f, S, G)
<1> DEFINE Small(n) == {s \in SUBSET S : Cardinality(s) <= n}
           Step(g, s) == IF s = {} THEN 0 ELSE f[Pick(s)] + g[s \ {Pick(s)}]
           T == {n \in Nat : \E g : g = [s \in Small(n) |-> Step(g, s)]}
<1>1. \A s \in SUBSET S : IsFiniteSet(s) /\ Cardinality(s) \in Nat BY FS_Subset, FS_CardinalityType
<1>2. 0 \in T
  <2> DEFINE g == [s \in Small(0) |-> 0]
  <2>1. \A s \in Small(0) : s = {} BY <1>1, FS_EmptySet
  <2>2. g = [s \in Small(0) |-> Step(g, s)] BY <2>1
  <2> QED BY <2>2
<1>3. ASSUME NEW n \in T PROVE n + 1 \in T
  <2>1. PICK g : g = [s \in Small(n) |-> Step(g, s)] OBVIOUS
  <2> DEFINE h == [s \in Small(n + 1) |-> Step(g, s)]
  <2>2. ASSUME NEW s \in Small(n + 1) PROVE Step(g, s) = Step(h, s)
    <3>1. CASE s = {} BY <3>1
    <3>2. CASE s # {}
      <4> DEFINE r == s \ {Pick(s)}
      <4>1. r \in SUBSET S /\ Cardinality(r) = Cardinality(s) - 1 BY <1>1, <3>2, PickIsSmaller
      <4>2. Cardinality(s) \in Nat /\ Cardinality(s) <= n + 1 BY <1>1
      <4>3. r \in Small(n) /\ r \in Small(n + 1) BY <4>1, <4>2
      <4> HIDE DEF r
      <4>4. g[r] = h[r] BY <2>1, <4>3
      <4> QED BY <3>2, <4>4 DEF r
    <3> QED BY <3>1, <3>2
  <2>3. h = [s \in Small(n + 1) |-> Step(h, s)] BY <2>2
  <2> HIDE DEF h, Small, Step
  <2>4. \E k : k = [s \in Small(n + 1) |-> Step(k, s)] BY <2>3
  <2> QED BY <2>4
<1>4. T = Nat
  <2> HIDE DEF T
  <2>1. T \subseteq Nat BY DEF T
  <2> QED BY <1>2, <1>3, <2>1, NatSetInduction
<1>5. Cardinality(S) \in T BY <1>1, <1>4
<1>6. PICK g : g = [s \in Small(Cardinality(S)) |-> Step(g, s)] BY <1>5
<1>7. Small(Cardinality(S)) = SUBSET S BY FS_Subset
<1> QED BY <1>6, <1>7 DEF SumRule

LEMMA SumIsOfRule ==
    ASSUME NEW f, NEW S, IsFiniteSet(S), NEW G, SumRule(f, S, G)
    PROVE  SumFunctionOnSet(f, S) = G[S]
<1>1. SumFunctionOnSet(f, S) = (CHOOSE H : SumRule(f, S, H))[S]
  BY DEF SumFunctionOnSet, FoldFunctionOnSet, MapThenFoldSet, SumRule, Pick
<1>2. (CHOOSE H : SumRule(f, S, H)) = G
  <2>1. \A H : SumRule(f, S, H) => H = G BY SumRuleIsUnique
  <2> QED BY <2>1
<1> QED BY <1>1, <1>2

\* One sum for the finite set and all of its subsets.
LEMMA SumIsOfOneRule ==
    ASSUME NEW f, NEW S, IsFiniteSet(S), NEW G, SumRule(f, S, G), NEW s \in SUBSET S
    PROVE  SumFunctionOnSet(f, s) = G[s]
<1> DEFINE H == [r \in SUBSET s |-> G[r]]
<1>1. \A r \in SUBSET s : r \in SUBSET S /\ (r # {} => r \ {Pick(r)} \in SUBSET s) OBVIOUS
<1>2. \A r \in SUBSET S : G[r] = IF r = {} THEN 0 ELSE f[Pick(r)] + G[r \ {Pick(r)}] BY DEF SumRule
<1>3. H = [r \in SUBSET s |-> IF r = {} THEN 0 ELSE f[Pick(r)] + H[r \ {Pick(r)}]] BY <1>1, <1>2
<1>4. SumRule(f, s, H) BY <1>3 DEF SumRule
<1>5. IsFiniteSet(s) /\ s \in SUBSET s BY FS_Subset
<1> HIDE DEF H
<1>6. SumFunctionOnSet(f, s) = H[s] BY <1>4, <1>5, SumIsOfRule
<1> QED BY <1>5, <1>6 DEF H

LEMMA SumOfRule ==
    ASSUME NEW S, IsFiniteSet(S), NEW f, \A x \in S : f[x] \in Nat
    PROVE  \E G : /\ SumRule(f, S, G)
                  /\ \A s \in SUBSET S : G[s] \in Nat /\ SumFunctionOnSet(f, s) = G[s]
<1>1. PICK G : SumRule(f, S, G) BY SumRuleHasOne
<1> DEFINE T == {n \in Nat : \A s \in SUBSET S : Cardinality(s) = n => G[s] \in Nat}
<1>2. \A s \in SUBSET S : IsFiniteSet(s) /\ Cardinality(s) \in Nat BY FS_Subset, FS_CardinalityType
<1>3. 0 \in T
  <2> SUFFICES ASSUME NEW s \in SUBSET S, Cardinality(s) = 0 PROVE G[s] \in Nat OBVIOUS
  <2>1. s = {} BY <1>2, FS_EmptySet
  <2> QED BY <1>1, <2>1 DEF SumRule
<1>4. ASSUME NEW n \in T PROVE n + 1 \in T
  <2> SUFFICES ASSUME NEW s \in SUBSET S, Cardinality(s) = n + 1 PROVE G[s] \in Nat OBVIOUS
  <2>1. s # {} BY <1>2, FS_EmptySet
  <2> DEFINE r == s \ {Pick(s)}
  <2>2. r \in SUBSET S /\ Cardinality(r) = n /\ Pick(s) \in S BY <1>2, <2>1, PickIsSmaller
  <2>3. G[r] \in Nat BY <2>2
  <2>4. G[s] = f[Pick(s)] + G[r] BY <1>1, <2>1 DEF SumRule
  <2> QED BY <2>2, <2>3, <2>4
<1>5. T = Nat
  <2> HIDE DEF T
  <2>1. T \subseteq Nat BY DEF T
  <2> QED BY <1>3, <1>4, <2>1, NatSetInduction
<1>6. \A s \in SUBSET S : G[s] \in Nat BY <1>2, <1>5
<1>7. \A s \in SUBSET S : SumFunctionOnSet(f, s) = G[s] BY <1>1, SumIsOfOneRule
<1> QED BY <1>1, <1>6, <1>7

\* The sum does not depend on which element is taken away.
LEMMA SumTakesAway ==
    ASSUME NEW S, IsFiniteSet(S), NEW f, \A x \in S : f[x] \in Nat, NEW y \in S
    PROVE  /\ SumFunctionOnSet(f, S) \in Nat /\ SumFunctionOnSet(f, S \ {y}) \in Nat
           /\ SumFunctionOnSet(f, S) = SumFunctionOnSet(f, S \ {y}) + f[y]
<1>1. PICK G : SumRule(f, S, G) /\ \A s \in SUBSET S : G[s] \in Nat /\ SumFunctionOnSet(f, s) = G[s] BY SumOfRule
<1> DEFINE T == {n \in Nat : \A s \in SUBSET S : \A x \in s : Cardinality(s) = n => G[s] = f[x] + G[s \ {x}]}
<1>2. \A s \in SUBSET S : IsFiniteSet(s) /\ Cardinality(s) \in Nat BY FS_Subset, FS_CardinalityType
<1>3. 0 \in T BY <1>2, FS_EmptySet
<1>4. ASSUME NEW n \in T PROVE n + 1 \in T
  <2> SUFFICES ASSUME NEW s \in SUBSET S, NEW x \in s, Cardinality(s) = n + 1 PROVE G[s] = f[x] + G[s \ {x}]
    OBVIOUS
  <2> DEFINE z == Pick(s)
  <2>1. z \in s /\ s \ {z} \in SUBSET S /\ Cardinality(s \ {z}) = n BY <1>2, PickIsSmaller
  <2>2. G[s] = f[z] + G[s \ {z}] BY <1>1 DEF SumRule
  <2> HIDE DEF z
  <2>3. CASE z = x BY <2>2, <2>3
  <2>4. CASE z # x
    <3> DEFINE r == (s \ {z}) \ {x}
    <3>1. r = (s \ {x}) \ {z} /\ r \in SUBSET S /\ x \in s \ {z} /\ z \in s \ {x} BY <2>1, <2>4
    <3>2. s \ {x} \in SUBSET S /\ Cardinality(s \ {x}) = n
      <4>1. IsFiniteSet(s) BY <1>2
      <4>2. Cardinality(s \ {x}) = Cardinality(s) - 1 BY <4>1, FS_RemoveElement
      <4> QED BY <4>2
    <3>3. G[s \ {z}] = f[x] + G[r] BY <2>1, <3>1
    <3>4. G[s \ {x}] = f[z] + G[r] BY <3>1, <3>2
    <3>5. f[x] \in Nat /\ f[z] \in Nat /\ G[r] \in Nat BY <1>1, <2>1, <3>1
    <3> QED BY <2>2, <3>3, <3>4, <3>5
  <2> QED BY <2>3, <2>4
<1>5. T = Nat
  <2> HIDE DEF T
  <2>1. T \subseteq Nat BY DEF T
  <2> QED BY <1>3, <1>4, <2>1, NatSetInduction
<1>6. G[S] = f[y] + G[S \ {y}] BY <1>2, <1>5
<1>7. S \in SUBSET S /\ S \ {y} \in SUBSET S /\ f[y] \in Nat OBVIOUS
<1> QED BY <1>1, <1>6, <1>7

\* Two functions that agree have the same sum.
LEMMA SumAgrees ==
    ASSUME NEW S, IsFiniteSet(S), NEW f, NEW g, \A x \in S : f[x] = g[x]
    PROVE  SumFunctionOnSet(f, S) = SumFunctionOnSet(g, S)
<1>1. PICK G : SumRule(f, S, G) BY SumRuleHasOne
<1>2. \A s \in SUBSET S : s # {} => Pick(s) \in S BY DEF Pick
<1>3. SumRule(g, S, G) BY <1>1, <1>2 DEF SumRule
<1> QED BY <1>1, <1>3, SumIsOfRule

LEMMA SumOfNone == ASSUME NEW f PROVE SumFunctionOnSet(f, {}) = 0
<1>1. PICK G : SumRule(f, {}, G) BY FS_EmptySet, SumRuleHasOne
<1>2. G[{}] = 0 BY <1>1 DEF SumRule
<1> QED BY <1>1, <1>2, FS_EmptySet, SumIsOfRule
-----------------------------------------------------------------------------
(* The elements of a finite set in some order.                             *)

LEMMA InSomeOrder ==
    ASSUME NEW S, IsFiniteSet(S)
    PROVE  /\ SetToSeq(S) \in Seq(S) /\ Len(SetToSeq(S)) = Cardinality(S) /\ Cardinality(S) \in Nat
           /\ \A k, m \in DOMAIN SetToSeq(S) : SetToSeq(S)[k] = SetToSeq(S)[m] => k = m
<1>1. Cardinality(S) \in Nat /\ ExistsBijection(1..Cardinality(S), S) BY FS_CardinalityType
<1>2. \E f \in [1..Cardinality(S) -> S] : IsInjective(f)
  BY <1>1 DEF ExistsBijection, Bijection, Surjection, Injection, IsInjective
<1>3. SetToSeq(S) \in [1..Cardinality(S) -> S] /\ IsInjective(SetToSeq(S)) BY <1>2 DEF SetToSeq
<1> QED BY <1>1, <1>3 DEF IsInjective

\* Some elements of a sequence, in some order, are elements of it.
LEMMA SomeOfThem ==
    ASSUME NEW A, NEW s \in Seq(A), NEW I \in SUBSET DOMAIN s
    PROVE  LET of == SetToSeq(I)
               t  == [k \in DOMAIN of |-> s[of[k]]]
           IN  t \in Seq(A) /\ \A k \in DOMAIN t : \E i \in I : t[k] = s[i]
<1> DEFINE of == SetToSeq(I)
           t  == [k \in DOMAIN of |-> s[of[k]]]
<1>1. DOMAIN s = 1..Len(s) /\ Len(s) \in Nat OBVIOUS
<1>2. IsFiniteSet(1..Len(s)) BY <1>1, FS_Interval
<1>3. IsFiniteSet(I) BY <1>1, <1>2, FS_Subset
<1>4. of \in Seq(I) BY <1>3, InSomeOrder
<1> HIDE DEF of
<1>5. DOMAIN of = 1..Len(of) /\ Len(of) \in Nat /\ \A k \in DOMAIN of : of[k] \in I BY <1>4
<1>6. \A k \in DOMAIN of : s[of[k]] \in A BY <1>5
<1>7. t \in [1..Len(of) -> A] BY <1>5, <1>6
<1> QED BY <1>5, <1>7 DEF of
=============================================================================
