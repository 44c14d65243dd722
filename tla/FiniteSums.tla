----------------------------- MODULE FiniteSums -----------------------------
(* What MapThenSumSet of the community modules adds up: facts about sums of *)
(* numbers over a finite set, for the proofs about the models that count    *)
(* money and mishaps.                                                       *)
EXTENDS Naturals, FiniteSetsExt, FiniteSetTheorems, TLAPS

-----------------------------------------------------------------------------
(* MapThenSumSet takes the elements of a set in an order CHOOSE      *)
(* fixes, by a recursive function on the subsets.  A smallest counterexample*)
(* among the finite subsets stands in for induction: such functions exist,  *)
(* agree where both are defined, and so add up in any order.                *)

Pick(s) == CHOOSE x \in s : TRUE

SumStep(v, g, s) == IF s = {} THEN 0 ELSE v[Pick(s)] + g[s \ {Pick(s)}]

(* g sums v over each subset of S.                                         *)
Sums(v, g, S) == g = [s \in SUBSET S |-> SumStep(v, g, s)]

SumOf(v, S) == (CHOOSE g : Sums(v, g, S))[S]

(* Among some subsets of a finite set there is a smallest one.              *)
LEMMA SmallestSubset ==
  ASSUME NEW S, IsFiniteSet(S), NEW B, B \subseteq SUBSET S, B # {}
  PROVE  \E s \in B : \A t \in SUBSET s : t # s => t \notin B
<1>1. IsWellFoundedOn(StrictSubsetOrdering(S), FiniteSubsetsOf(S))
  BY FS_StrictSubsetOrderingWellFounded
<1>2. FiniteSubsetsOf(S) = SUBSET S
  BY FS_FiniteSubsetsOfFinite
<1>3. \E s \in B : \A t \in B : ~ (<<t, s>> \in StrictSubsetOrdering(S))
  <2> HIDE DEF IsWellFoundedOn
  <2> QED BY <1>1, <1>2, WFMin
<1> QED
  BY <1>3 DEF StrictSubsetOrdering

(* A finite set of numbers has a largest.                                  *)
LEMMA LargestIn ==
  ASSUME NEW S \in SUBSET Nat, IsFiniteSet(S), S # {}
  PROVE  \E i \in S : \A k \in S : i >= k
<1> DEFINE Above(i) == {x \in S : x >= i}
           B == {Above(i) : i \in S}
<1>1. PICK s \in B : \A t \in SUBSET s : t # s => t \notin B
  <2>1. B \subseteq SUBSET S /\ B # {}
    OBVIOUS
  <2> HIDE DEF B
  <2> QED
    BY <2>1, SmallestSubset
<1>2. PICK i \in S : s = Above(i)
  BY <1>1
<1>3. ASSUME NEW k \in S, k > i PROVE FALSE
  <2>1. S \subseteq Nat
    OBVIOUS
  <2>2. Above(k) \subseteq Above(i)
    <3>1. i \in Nat /\ k \in Nat
      BY <2>1
    <3>2. \A x \in Nat : x >= k => x >= i
      BY <1>3, <3>1
    <3> QED
      BY <2>1, <3>2
  <2>3. i \in Above(i) /\ i \notin Above(k)
    BY <1>3, <2>1
  <2>4. Above(k) \in B
    OBVIOUS
  <2> HIDE DEF B, Above
  <2> QED
    BY <1>1, <1>2, <2>2, <2>3, <2>4
<1> QED
  BY <1>3

(* The element that is taken next is one of the set.                       *)
LEMMA PickIn == ASSUME NEW s, s # {} PROVE Pick(s) \in s
BY DEF Pick

(* Two sums agree on the sets both know.                                    *)
LEMMA SumsAgree ==
  ASSUME NEW v, NEW S, IsFiniteSet(S), NEW T, NEW g, NEW h,
         Sums(v, g, S), Sums(v, h, T)
  PROVE  \A s \in SUBSET S : s \in SUBSET T => g[s] = h[s]
<1> DEFINE B == {s \in SUBSET S : s \in SUBSET T /\ g[s] # h[s]}
<1>1. SUFFICES ASSUME B # {} PROVE FALSE
  OBVIOUS
<1>2. PICK s \in B : \A t \in SUBSET s : t # s => t \notin B
  <2>1. B \subseteq SUBSET S
    OBVIOUS
  <2> HIDE DEF B
  <2> QED
    BY <1>1, <2>1, SmallestSubset
<1>3. g[s] = SumStep(v, g, s) /\ h[s] = SumStep(v, h, s)
  BY <1>2 DEF Sums
<1>4. s # {}
  BY <1>2, <1>3 DEF SumStep
<1>5. Pick(s) \in s
  BY <1>4, PickIn
<1>6. g[s \ {Pick(s)}] = h[s \ {Pick(s)}]
  BY <1>2, <1>5
<1> QED
  BY <1>2, <1>3, <1>4, <1>6 DEF SumStep

(* Every finite set has a sum, put together from those of its subsets.       *)
LEMMA SumsExist ==
  ASSUME NEW v, NEW S, IsFiniteSet(S)
  PROVE  \E g : Sums(v, g, S)
<1> DEFINE B == {s \in SUBSET S : ~ \E g : Sums(v, g, s)}
<1>1. SUFFICES ASSUME B # {} PROVE FALSE
  OBVIOUS
<1>2. PICK s \in B : \A t \in SUBSET s : t # s => t \notin B
  <2>1. B \subseteq SUBSET S
    OBVIOUS
  <2> HIDE DEF B
  <2> QED
    BY <1>1, <2>1, SmallestSubset
<1>3. \A t \in SUBSET s : t # s => \E g : Sums(v, g, t)
  BY <1>2
<1> DEFINE G(t) == CHOOSE g : Sums(v, g, t)
           val == [t \in SUBSET s |-> SumStep(v, G(t \ {Pick(t)}), t)]
<1>4. \A t \in SUBSET s : t # s => Sums(v, G(t), t)
  BY <1>3
<1>5. \A t \in SUBSET s : IsFiniteSet(t)
  BY FS_Subset
<1>6. ASSUME NEW t \in SUBSET s, t # s
      PROVE  val[t] = G(t)[t]
  <2>1. CASE t = {}
    <3>1. Sums(v, G(t), t)
      BY <1>4, <1>6
    <3> HIDE DEF G
    <3> QED
      BY <2>1, <3>1 DEF Sums, SumStep
  <2>2. CASE t # {}
    <3> DEFINE u == t \ {Pick(t)}
    <3>1. u \in SUBSET s /\ u # s /\ u \in SUBSET t
      BY <2>2, PickIn, <1>6
    <3>2. Sums(v, G(u), u) /\ Sums(v, G(t), t)
      BY <3>1, <1>4, <1>6
    <3> HIDE DEF G
    <3>3. G(u)[u] = G(t)[u]
      <4>1. IsFiniteSet(u)
        BY <3>1, <1>5
      <4> HIDE DEF u
      <4> QED
        BY <3>1, <3>2, <4>1, SumsAgree
    <3>4. G(t)[t] = v[Pick(t)] + G(t)[u]
      BY <3>2, <2>2 DEF Sums, SumStep
    <3> QED
      BY <3>3, <3>4, <2>2 DEF SumStep
  <2> QED
    BY <2>1, <2>2
<1> HIDE DEF G
<1>7. Sums(v, val, s)
  <2>1. SUFFICES ASSUME NEW t \in SUBSET s
                 PROVE  SumStep(v, G(t \ {Pick(t)}), t) = SumStep(v, val, t)
    BY DEF Sums
  <2>2. CASE t # {}
    BY <2>2, PickIn, <1>6 DEF SumStep
  <2> QED
    BY <2>2 DEF SumStep
<1> QED
  BY <1>2, <1>7

(* The sum is the element taken first, added to the sum of the others.      *)
LEMMA SumRecursion ==
  ASSUME NEW v, NEW S, IsFiniteSet(S)
  PROVE  SumOf(v, S) = IF S = {} THEN 0 ELSE v[Pick(S)] + SumOf(v, S \ {Pick(S)})
<1> DEFINE G(t) == CHOOSE g : Sums(v, g, t)
           u == S \ {Pick(S)}
<1>1. Sums(v, G(S), S)
  BY SumsExist
<1>2. IsFiniteSet(u) /\ u \in SUBSET S
  BY FS_Subset
<1>3. Sums(v, G(u), u)
  BY <1>2, SumsExist
<1>4. SumOf(v, S) = G(S)[S] /\ SumOf(v, u) = G(u)[u]
  BY DEF SumOf
<1> HIDE DEF G
<1>5. G(S)[u] = G(u)[u]
  BY <1>1, <1>2, <1>3, SumsAgree
<1>6. G(S)[S] = SumStep(v, G(S), S)
  BY <1>1 DEF Sums
<1> QED
  BY <1>4, <1>5, <1>6 DEF SumStep

(* The sum depends on the values in the set only.                          *)
LEMMA SumCongruent ==
  ASSUME NEW S, IsFiniteSet(S), NEW v, NEW w, \A x \in S : v[x] = w[x]
  PROVE  SumOf(v, S) = SumOf(w, S)
<1> DEFINE B == {s \in SUBSET S : SumOf(v, s) # SumOf(w, s)}
<1>1. SUFFICES ASSUME B # {} PROVE FALSE
  OBVIOUS
<1>2. PICK s \in B : \A t \in SUBSET s : t # s => t \notin B
  <2>1. B \subseteq SUBSET S
    OBVIOUS
  <2> HIDE DEF B
  <2> QED
    BY <1>1, <2>1, SmallestSubset
<1>3. IsFiniteSet(s)
  BY FS_Subset
<1>4. /\ SumOf(v, s) = IF s = {} THEN 0 ELSE v[Pick(s)] + SumOf(v, s \ {Pick(s)})
      /\ SumOf(w, s) = IF s = {} THEN 0 ELSE w[Pick(s)] + SumOf(w, s \ {Pick(s)})
  BY <1>3, SumRecursion
<1>5. s # {}
  BY <1>2, <1>4
<1>6. Pick(s) \in s
  BY <1>5, PickIn
<1>7. SumOf(v, s \ {Pick(s)}) = SumOf(w, s \ {Pick(s)})
  BY <1>2, <1>6
<1> QED
  BY <1>2, <1>4, <1>6, <1>7

(* A sum of numbers is a number.                                           *)
LEMMA SumType ==
  ASSUME NEW S, IsFiniteSet(S), NEW v, \A x \in S : v[x] \in Nat
  PROVE  SumOf(v, S) \in Nat
<1> DEFINE B == {s \in SUBSET S : SumOf(v, s) \notin Nat}
<1>1. SUFFICES ASSUME B # {} PROVE FALSE
  OBVIOUS
<1>2. PICK s \in B : \A t \in SUBSET s : t # s => t \notin B
  <2>1. B \subseteq SUBSET S
    OBVIOUS
  <2> HIDE DEF B
  <2> QED
    BY <1>1, <2>1, SmallestSubset
<1>3. SumOf(v, s) = IF s = {} THEN 0 ELSE v[Pick(s)] + SumOf(v, s \ {Pick(s)})
  <2>1. IsFiniteSet(s)
    BY FS_Subset
  <2> QED
    BY <2>1, SumRecursion
<1>4. s # {}
  BY <1>2, <1>3
<1>5. Pick(s) \in s
  BY <1>4, PickIn
<1>6. SumOf(v, s \ {Pick(s)}) \in Nat
  BY <1>2, <1>5
<1> QED
  BY <1>2, <1>3, <1>5, <1>6

(* An element adds its value, whichever is taken first.                    *)
LEMMA SumAdd ==
  ASSUME NEW S, IsFiniteSet(S), NEW v, \A x \in S : v[x] \in Nat,
         NEW T \in SUBSET S, NEW x \in S, x \notin T
  PROVE  SumOf(v, T \cup {x}) = SumOf(v, T) + v[x]
<1> DEFINE B == {s \in SUBSET S : \E y \in S \ s : SumOf(v, s \cup {y}) # SumOf(v, s) + v[y]}
<1>1. SUFFICES ASSUME B # {} PROVE FALSE
  OBVIOUS
<1>2. PICK s \in B : \A t \in SUBSET s : t # s => t \notin B
  <2>1. B \subseteq SUBSET S
    OBVIOUS
  <2> HIDE DEF B
  <2> QED
    BY <1>1, <2>1, SmallestSubset
<1>3. PICK y \in S \ s : SumOf(v, s \cup {y}) # SumOf(v, s) + v[y]
  BY <1>2
<1> DEFINE u == s \cup {y}
           z == Pick(u)
<1>4. \A t \in SUBSET S : IsFiniteSet(t) /\ SumOf(v, t) \in Nat
  <2> SUFFICES ASSUME NEW t \in SUBSET S
               PROVE  IsFiniteSet(t) /\ SumOf(v, t) \in Nat
    OBVIOUS
  <2>1. IsFiniteSet(t)
    BY FS_Subset
  <2>2. \A a \in t : v[a] \in Nat
    OBVIOUS
  <2> QED
    BY <2>1, <2>2, SumType
<1>5. u \in SUBSET S /\ u # {} /\ z \in u
  BY PickIn
<1>6. SumOf(v, u) = v[z] + SumOf(v, u \ {z})
  BY <1>4, <1>5, SumRecursion
<1>7. CASE z = y
  <2>1. u \ {z} = s
    BY <1>7
  <2> QED
    BY <1>3, <1>4, <1>6, <1>7, <2>1
<1>8. CASE z # y
  <2> DEFINE t == s \ {z}
  <2>1. /\ z \in s
        /\ t \in SUBSET s /\ t # s
        /\ u \ {z} = t \cup {y}
        /\ s = t \cup {z}
        /\ z \in S \ t /\ y \in S \ t
    BY <1>5, <1>8
  <2>2. t \notin B /\ t \in SUBSET S
    BY <1>2, <2>1
  <2> HIDE DEF t, z, u
  <2>3. SumOf(v, t \cup {y}) = SumOf(v, t) + v[y] /\ SumOf(v, t \cup {z}) = SumOf(v, t) + v[z]
    BY <2>1, <2>2
  <2>4. v[y] \in Nat /\ v[z] \in Nat /\ SumOf(v, t) \in Nat
    BY <1>4, <2>1, <2>2
  <2>5. SumOf(v, u) = v[z] + (SumOf(v, t) + v[y]) /\ SumOf(v, s) = SumOf(v, t) + v[z]
    BY <1>6, <2>1, <2>3
  <2>6. SumOf(v, u) = SumOf(v, s) + v[y]
    BY <2>4, <2>5
  <2> QED
    BY <1>3, <2>6 DEF u
<1> QED
  BY <1>7, <1>8

(* An element is no more than the sum it is part of.                       *)
LEMMA SumBounds ==
  ASSUME NEW S, IsFiniteSet(S), NEW v, \A x \in S : v[x] \in Nat, NEW x \in S
  PROVE  v[x] <= SumOf(v, S)
<1> DEFINE T == S \ {x}
<1>1. IsFiniteSet(T) /\ T \in SUBSET S /\ x \notin T /\ T \cup {x} = S
  BY FS_Subset
<1> HIDE DEF T
<1>2. SumOf(v, T \cup {x}) = SumOf(v, T) + v[x]
  BY <1>1, SumAdd
<1>3. SumOf(v, T) \in Nat
  <2>1. \A y \in T : v[y] \in Nat
    BY <1>1
  <2> QED
    BY <1>1, <2>1, SumType
<1>4. SumOf(v, S) = SumOf(v, T) + v[x] /\ v[x] \in Nat
  BY <1>1, <1>2
<1> QED
  BY <1>3, <1>4

(* MapThenSumSet of a function is such a sum.                              *)
ValueSum(v, S) == MapThenSumSet(LAMBDA x : v[x], S)

LEMMA ValuesSum ==
  ASSUME NEW S, IsFiniteSet(S), NEW v
  PROVE  ValueSum(v, S) = SumOf(v, S)
BY DEF ValueSum, MapThenSumSet, MapThenFoldSet, SumOf, Sums, SumStep, Pick
=============================================================================
