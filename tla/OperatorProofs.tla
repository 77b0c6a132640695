-------------------------- MODULE OperatorProofs ---------------------------
(***************************************************************************)
(* Lemmas about the operators the models of the controller are built from: *)
(* sums over finite sets (module Sums) and balls, reach, routes and        *)
(* breadth-first trees (module Paths).                                     *)
(*                                                                         *)
(* What these operators compute is defined by recursion, so most lemmas    *)
(* are inductions: the set of values one holds for is closed under the     *)
(* next step, so there is no least counterexample.                         *)
(***************************************************************************)
EXTENDS Paths, Sums, FiniteSetTheorems, SequenceTheorems, WellFoundedInduction, TLAPS

(* A nonempty set of natural numbers has a least element.                    *)
LEMMA LeastNat ==
  ASSUME NEW B \in SUBSET Nat, B # {}
  PROVE  \E x \in B : \A y \in B : x <= y
<1> DEFINE R == OpToRel(<, Nat)
<1> HIDE DEF R
<1>1. IsWellFoundedOn(R, Nat)
  BY NatLessThanWellFounded, Zenon DEF R
<1>2. PICK x \in B : \A y \in B : ~(<<y, x>> \in R)
  BY <1>1, WFMin
<1>3. \A y \in B : ~(y < x)
  BY <1>2 DEF R, OpToRel
<1>4. \A y \in B : y \in Nat /\ x \in Nat
  OBVIOUS
<1> QED BY <1>3, <1>4

(* Induction on the natural numbers, for a set of them.                      *)
LEMMA NatSetInduction ==
  ASSUME NEW G, 0 \in G, \A n \in Nat : n \in G => n + 1 \in G
  PROVE  Nat \subseteq G
<1> DEFINE B == Nat \ G
<1> SUFFICES ASSUME B # {} PROVE FALSE
  OBVIOUS
<1>1. PICK x \in B : \A y \in B : x <= y
  <2>1. B \in SUBSET Nat
    OBVIOUS
  <2> HIDE DEF B
  <2> QED BY <2>1, LeastNat
<1>2. x \in Nat /\ x # 0
  OBVIOUS
<1>3. x - 1 \in Nat /\ x - 1 \notin B
  BY <1>1, <1>2
<1>4. (x - 1) + 1 \in G
  BY <1>3
<1> QED BY <1>2, <1>4

(* Induction on the subsets of a finite set, for a set of them.              *)
LEMMA SubsetInduction ==
  ASSUME NEW S, IsFiniteSet(S), NEW G, {} \in G,
         \A V \in SUBSET S : \A x \in S \ V : V \in G => V \cup {x} \in G
  PROVE  SUBSET S \subseteq G
<1> DEFINE K == {n \in Nat : \A V \in SUBSET S : Cardinality(V) = n => V \in G}
<1>1. \A V \in SUBSET S : IsFiniteSet(V) /\ Cardinality(V) \in Nat
  BY FS_Subset, FS_CardinalityType
<1>2. 0 \in K
  BY <1>1, FS_EmptySet
<1>3. ASSUME NEW n \in Nat, n \in K PROVE n + 1 \in K
  <2> SUFFICES ASSUME NEW V \in SUBSET S, Cardinality(V) = n + 1 PROVE V \in G
    OBVIOUS
  <2>1. V # {}
    BY <1>1, FS_EmptySet
  <2>2. PICK x : x \in V
    BY <2>1
  <2> DEFINE W == V \ {x}
  <2>3. W \in SUBSET S /\ x \in S \ W /\ V = W \cup {x}
    BY <2>2
  <2>4. Cardinality(W) = n
    <3>1. Cardinality(W) = Cardinality(V) - 1
      BY <1>1, <2>2, FS_RemoveElement
    <3> QED BY <3>1
  <2>5. W \in G
    BY <1>3, <2>3, <2>4
  <2> QED BY <2>3, <2>5
<1> HIDE DEF K
<1>4. Nat \subseteq K
  BY <1>2, <1>3, NatSetInduction
<1> QED BY <1>1, <1>4 DEF K

Pick(V) == CHOOSE x \in V : TRUE

\* g is the function that MapThenFoldSet defines to add up f over subsets of S.
Adds(g, f, S) ==
  g = [V \in SUBSET S |-> IF V = {} THEN 0 ELSE f[Pick(V)] + g[V \ {Pick(V)}]]

(* Choosing from a set that has elements.                                    *)
LEMMA PickIn == \A V : V # {} => Pick(V) \in V
BY DEF Pick

(* That function exists: it is built for ever larger subsets.                *)
LEMMA AddsExists ==
  ASSUME NEW f, NEW S, IsFiniteSet(S)
  PROVE  \E g : Adds(g, f, S)
<1> DEFINE Sub(n) == {V \in SUBSET S : Cardinality(V) <= n}
           Part(g, n) == g = [V \in Sub(n) |-> IF V = {} THEN 0 ELSE f[Pick(V)] + g[V \ {Pick(V)}]]
           K == {n \in Nat : \E g : Part(g, n)}
<1>1. \A V \in SUBSET S : IsFiniteSet(V) /\ Cardinality(V) \in Nat /\ (Cardinality(V) = 0 <=> V = {})
  BY FS_Subset, FS_CardinalityType, FS_EmptySet
<1>2. 0 \in K
  <2> DEFINE g == [V \in Sub(0) |-> 0]
  <2>1. Part(g, 0)
    BY <1>1
  <2> QED BY <2>1
<1>3. ASSUME NEW n \in Nat, n \in K PROVE n + 1 \in K
  <2>1. PICK g : Part(g, n)
    BY <1>3
  <2> DEFINE h == [V \in Sub(n + 1) |-> IF V = {} THEN 0 ELSE f[Pick(V)] + g[V \ {Pick(V)}]]
  <2>2. \A V \in Sub(n) : V \in Sub(n + 1) /\ h[V] = g[V]
    <3> TAKE V \in Sub(n)
    <3>1. V \in Sub(n + 1)
      BY <1>1
    <3>2. g[V] = IF V = {} THEN 0 ELSE f[Pick(V)] + g[V \ {Pick(V)}]
      BY <2>1
    <3> QED BY <3>1, <3>2
  <2>3. \A V \in Sub(n + 1) : V # {} => V \ {Pick(V)} \in Sub(n)
    <3> SUFFICES ASSUME NEW V \in Sub(n + 1), V # {} PROVE V \ {Pick(V)} \in Sub(n)
      OBVIOUS
    <3>1. Pick(V) \in V
      BY PickIn
    <3>2. Cardinality(V \ {Pick(V)}) = Cardinality(V) - 1
      BY <1>1, <3>1, FS_RemoveElement
    <3> QED BY <1>1, <3>2
  <2>4. \A V \in Sub(n + 1) : V # {} => h[V \ {Pick(V)}] = g[V \ {Pick(V)}]
    BY <2>2, <2>3
  <2>5. Part(h, n + 1)
    BY <2>4
  <2> HIDE DEF h
  <2>6. \E k : Part(k, n + 1)
    BY <2>5
  <2> HIDE DEF Part
  <2> QED BY <2>6
<1> HIDE DEF K
<1>4. Nat \subseteq K
  BY <1>2, <1>3, NatSetInduction
<1>5. Sub(Cardinality(S)) = SUBSET S
  BY <1>1, FS_Subset
<1>6. Cardinality(S) \in K
  BY <1>1, <1>4
<1> QED BY <1>5, <1>6 DEF K, Adds

(* A sum is the value of that function.                                      *)
LEMMA SumIsAdds ==
  ASSUME NEW f, NEW S, IsFiniteSet(S)
  PROVE  \E g : Adds(g, f, S) /\ SumOver(f, S) = g[S]
<1> DEFINE g == CHOOSE g : Adds(g, f, S)
<1>1. Adds(g, f, S)
  BY AddsExists
<1>2. SumOver(f, S) = g[S]
  BY Zenon DEF SumOver, MapThenSumSet, MapThenFoldSet, Adds, Pick
<1> QED BY <1>1, <1>2


(* The values of two such functions agree where both are defined.            *)
LEMMA AddsAgree ==
  ASSUME NEW f, NEW S, IsFiniteSet(S), NEW T \in SUBSET S, NEW g, NEW h,
         Adds(g, f, S), Adds(h, f, T)
  PROVE  \A V \in SUBSET T : g[V] = h[V]
<1> DEFINE Up(n) == \A V \in SUBSET T : Cardinality(V) <= n => g[V] = h[V]
           K == {n \in Nat : Up(n)}
<1>1. \A V \in SUBSET T : IsFiniteSet(V) /\ Cardinality(V) \in Nat /\ (Cardinality(V) = 0 <=> V = {})
  BY FS_Subset, FS_CardinalityType, FS_EmptySet
<1>2. 0 \in K
  BY <1>1 DEF Adds
<1>3. ASSUME NEW n \in Nat, n \in K PROVE n + 1 \in K
  <2> SUFFICES ASSUME NEW V \in SUBSET T, Cardinality(V) <= n + 1 PROVE g[V] = h[V]
    OBVIOUS
  <2>1. CASE V = {}
    BY <2>1 DEF Adds
  <2>2. CASE V # {}
    <3> DEFINE W == V \ {Pick(V)}
    <3>1. Pick(V) \in V
      BY <2>2, PickIn
    <3>2. Cardinality(W) = Cardinality(V) - 1
      BY <1>1, <3>1, FS_RemoveElement
    <3>3. g[W] = h[W]
      BY <1>1, <1>3, <3>2
    <3>4. g[V] = f[Pick(V)] + g[W] /\ h[V] = f[Pick(V)] + h[W]
      BY <2>2 DEF Adds
    <3> QED BY <3>3, <3>4
  <2> QED BY <2>1, <2>2
<1> HIDE DEF K
<1>4. Nat \subseteq K
  BY <1>2, <1>3, NatSetInduction
<1> QED BY <1>1, <1>4 DEF K

(* The two equations of a sum.                                               *)
LEMMA SumEmpty ==
  ASSUME NEW f
  PROVE  SumOver(f, {}) = 0
<1>1. IsFiniteSet({})
  BY FS_EmptySet
<1>2. PICK g : Adds(g, f, {}) /\ SumOver(f, {}) = g[{}]
  BY <1>1, SumIsAdds
<1> QED BY <1>2 DEF Adds

(* The second equation takes out the element the fold chooses.              *)
LEMMA SumPick ==
  ASSUME NEW f, NEW S, IsFiniteSet(S), S # {}
  PROVE  SumOver(f, S) = f[Pick(S)] + SumOver(f, S \ {Pick(S)})
<1> DEFINE T == S \ {Pick(S)}
<1>1. PICK g : Adds(g, f, S) /\ SumOver(f, S) = g[S]
  BY SumIsAdds
<1>2. IsFiniteSet(T) /\ T \in SUBSET S
  BY FS_Subset
<1>3. PICK h : Adds(h, f, T) /\ SumOver(f, T) = h[T]
  BY <1>2, SumIsAdds
<1>4. g[T] = h[T]
  BY <1>1, <1>2, <1>3, AddsAgree
<1>5. g[S] = f[Pick(S)] + g[T]
  BY <1>1 DEF Adds
<1> QED BY <1>1, <1>3, <1>4, <1>5

(* A sum of integers is one.                                                 *)
LEMMA SumInt ==
  ASSUME NEW f, NEW S, IsFiniteSet(S), \A x \in S : f[x] \in Int
  PROVE  SumOver(f, S) \in Int
<1> DEFINE Up(n) == \A V \in SUBSET S : Cardinality(V) <= n => SumOver(f, V) \in Int
           K == {n \in Nat : Up(n)}
<1>1. \A V \in SUBSET S : IsFiniteSet(V) /\ Cardinality(V) \in Nat /\ (Cardinality(V) = 0 <=> V = {})
  BY FS_Subset, FS_CardinalityType, FS_EmptySet
<1>2. 0 \in K
  BY <1>1, SumEmpty
<1>3. ASSUME NEW n \in Nat, n \in K PROVE n + 1 \in K
  <2> SUFFICES ASSUME NEW V \in SUBSET S, Cardinality(V) <= n + 1 PROVE SumOver(f, V) \in Int
    OBVIOUS
  <2>1. CASE V = {}
    BY <2>1, SumEmpty
  <2>2. CASE V # {}
    <3> DEFINE W == V \ {Pick(V)}
    <3>1. Pick(V) \in V
      BY <2>2, PickIn
    <3>2. Cardinality(W) = Cardinality(V) - 1
      BY <1>1, <3>1, FS_RemoveElement
    <3>3. SumOver(f, W) \in Int
      BY <1>1, <1>3, <3>2
    <3>4. SumOver(f, V) = f[Pick(V)] + SumOver(f, W)
      BY <1>1, <2>2, SumPick
    <3> QED BY <3>1, <3>3, <3>4
  <2> QED BY <2>1, <2>2
<1> HIDE DEF K
<1>4. Nat \subseteq K
  BY <1>2, <1>3, NatSetInduction
<1> QED BY <1>1, <1>4 DEF K

(* Any element can be taken out of a sum first.                              *)
LEMMA SumRemove ==
  ASSUME NEW f, NEW S, IsFiniteSet(S), \A x \in S : f[x] \in Int, NEW x \in S
  PROVE  SumOver(f, S) = f[x] + SumOver(f, S \ {x})
<1> DEFINE Up(n) == \A V \in SUBSET S : Cardinality(V) <= n =>
                      \A y \in V : SumOver(f, V) = f[y] + SumOver(f, V \ {y})
           K == {n \in Nat : Up(n)}
<1>1. \A V \in SUBSET S : /\ IsFiniteSet(V) /\ Cardinality(V) \in Nat
                          /\ (Cardinality(V) = 0 <=> V = {}) /\ SumOver(f, V) \in Int
  <2> TAKE V \in SUBSET S
  <2>1. IsFiniteSet(V)
    BY FS_Subset
  <2> QED BY <2>1, FS_CardinalityType, FS_EmptySet, SumInt
<1>2. 0 \in K
  BY <1>1
<1>3. ASSUME NEW n \in Nat, n \in K PROVE n + 1 \in K
  <2> SUFFICES ASSUME NEW V \in SUBSET S, Cardinality(V) <= n + 1, NEW y \in V
               PROVE  SumOver(f, V) = f[y] + SumOver(f, V \ {y})
    OBVIOUS
  <2> DEFINE c == Pick(V)
             W == V \ {c}
             U == V \ {y}
             Z == V \ {c, y}
  <2>1. c \in V
    BY PickIn
  <2>2. SumOver(f, V) = f[c] + SumOver(f, W)
    BY <1>1, SumPick
  <2>3. CASE y = c
    BY <2>2, <2>3
  <2>4. CASE y # c
    <3>1. Cardinality(W) <= n /\ Cardinality(U) <= n
      <4>1. Cardinality(W) = Cardinality(V) - 1 /\ Cardinality(U) = Cardinality(V) - 1
        BY <1>1, <2>1, FS_RemoveElement
      <4> QED BY <1>1, <4>1
    <3>2. SumOver(f, W) = f[y] + SumOver(f, W \ {y})
      BY <1>3, <2>4, <3>1
    <3>3. SumOver(f, U) = f[c] + SumOver(f, U \ {c})
      BY <1>3, <2>1, <2>4, <3>1
    <3>4. W \ {y} = Z /\ U \ {c} = Z
      OBVIOUS
    <3>5. f[y] \in Int /\ f[c] \in Int /\ SumOver(f, Z) \in Int
      BY <1>1, <2>1
    <3> QED BY <2>2, <3>2, <3>3, <3>4, <3>5
  <2> QED BY <2>3, <2>4
<1> HIDE DEF K
<1>4. Nat \subseteq K
  BY <1>2, <1>3, NatSetInduction
<1> QED BY <1>1, <1>4 DEF K

(* Or put in last.                                                           *)
LEMMA SumAdd ==
  ASSUME NEW f, NEW V, IsFiniteSet(V), NEW x, x \notin V, \A y \in V \cup {x} : f[y] \in Int
  PROVE  SumOver(f, V \cup {x}) = f[x] + SumOver(f, V)
<1>1. IsFiniteSet(V \cup {x}) /\ (V \cup {x}) \ {x} = V
  BY FS_AddElement
<1> QED BY <1>1, SumRemove

(* A sum of natural numbers is one.                                          *)
LEMMA SumNat ==
  ASSUME NEW f, NEW S, IsFiniteSet(S), \A x \in S : f[x] \in Nat
  PROVE  SumOver(f, S) \in Nat
<1> DEFINE G == {V \in SUBSET S : SumOver(f, V) \in Nat}
<1>1. {} \in G
  BY SumEmpty
<1>2. ASSUME NEW V \in SUBSET S, NEW x \in S \ V, V \in G PROVE V \cup {x} \in G
  <2>1. IsFiniteSet(V)
    BY FS_Subset
  <2>2. SumOver(f, V \cup {x}) = f[x] + SumOver(f, V)
    BY <2>1, SumAdd
  <2> QED BY <1>2, <2>2
<1> HIDE DEF G
<1>3. SUBSET S \subseteq G
  BY <1>1, <1>2, SubsetInduction
<1> QED BY <1>3 DEF G

(* A sum over consecutive positions does not mind where they start.          *)
LEMMA SumShift ==
  ASSUME NEW f, NEW h, NEW n \in Nat, \A i \in 1..n : f[i + 1] \in Int /\ h[i] = f[i + 1]
  PROVE  SumOver(f, 2..n + 1) = SumOver(h, 1..n)
<1> DEFINE G == {m \in Nat : m <= n => SumOver(f, 2..m + 1) = SumOver(h, 1..m)}
<1>1. 0 \in G
  <2>1. 2..0 + 1 = {} /\ 1..0 = {}
    OBVIOUS
  <2> QED BY <2>1, SumEmpty
<1>2. ASSUME NEW m \in Nat, m \in G PROVE m + 1 \in G
  <2> SUFFICES ASSUME m + 1 <= n PROVE SumOver(f, 2..(m + 1) + 1) = SumOver(h, 1..m + 1)
    OBVIOUS
  <2> DEFINE V == 2..m + 1
             W == 1..m
             x == m + 2
             y == m + 1
  <2>1. 2..(m + 1) + 1 = V \cup {x} /\ 1..m + 1 = W \cup {y} /\ x \notin V /\ y \notin W
    OBVIOUS
  <2>2. IsFiniteSet(V) /\ IsFiniteSet(W)
    BY FS_Interval
  <2>3. \A z \in V \cup {x} : f[z] \in Int
    <3> TAKE z \in V \cup {x}
    <3>1. z - 1 \in 1..n /\ (z - 1) + 1 = z
      OBVIOUS
    <3> QED BY <3>1
  <2>4. \A z \in W \cup {y} : h[z] \in Int
    OBVIOUS
  <2>5. f[x] = h[y]
    <3>1. y \in 1..n /\ y + 1 = x
      OBVIOUS
    <3> QED BY <3>1
  <2>6. SumOver(f, V) = SumOver(h, W)
    BY <1>2
  <2> HIDE DEF V, W, x, y
  <2>7. SumOver(f, V \cup {x}) = f[x] + SumOver(f, V)
    BY <2>1, <2>2, <2>3, SumAdd
  <2>8. SumOver(h, W \cup {y}) = h[y] + SumOver(h, W)
    BY <2>1, <2>2, <2>4, SumAdd
  <2> QED BY <2>1, <2>5, <2>6, <2>7, <2>8
<1> HIDE DEF G
<1>3. Nat \subseteq G
  BY <1>1, <1>2, NatSetInduction
<1> QED BY <1>3 DEF G

(* A sum only looks at the values it adds.                                   *)
LEMMA SumEqual ==
  ASSUME NEW f, NEW g, NEW S, IsFiniteSet(S), \A x \in S : f[x] \in Int /\ g[x] = f[x]
  PROVE  SumOver(f, S) = SumOver(g, S)
<1> DEFINE G == {V \in SUBSET S : SumOver(f, V) = SumOver(g, V)}
<1>1. {} \in G
  BY SumEmpty
<1>2. ASSUME NEW V \in SUBSET S, NEW x \in S \ V, V \in G PROVE V \cup {x} \in G
  <2>1. IsFiniteSet(V)
    BY FS_Subset
  <2>2. SumOver(f, V \cup {x}) = f[x] + SumOver(f, V) /\ SumOver(g, V \cup {x}) = g[x] + SumOver(g, V)
    BY <2>1, SumAdd
  <2> QED BY <1>2, <2>2
<1> HIDE DEF G
<1>3. S \in G
  BY <1>1, <1>2, SubsetInduction
<1> QED BY <1>3 DEF G

(* Larger values make a larger sum.                                          *)
LEMMA SumMonotone ==
  ASSUME NEW f, NEW g, NEW S, IsFiniteSet(S),
         \A x \in S : f[x] \in Int /\ g[x] \in Int /\ f[x] <= g[x]
  PROVE  SumOver(f, S) <= SumOver(g, S)
<1> DEFINE G == {V \in SUBSET S : SumOver(f, V) <= SumOver(g, V)}
<1>1. {} \in G
  BY SumEmpty
<1>2. ASSUME NEW V \in SUBSET S, NEW x \in S \ V, V \in G PROVE V \cup {x} \in G
  <2>1. IsFiniteSet(V)
    BY FS_Subset
  <2>2. SumOver(f, V \cup {x}) = f[x] + SumOver(f, V) /\ SumOver(g, V \cup {x}) = g[x] + SumOver(g, V)
    BY <2>1, SumAdd
  <2>3. SumOver(f, V) \in Int /\ SumOver(g, V) \in Int
    BY <2>1, SumInt
  <2>4. f[x] \in Int /\ g[x] \in Int /\ f[x] <= g[x] /\ SumOver(f, V) <= SumOver(g, V)
    BY <1>2
  <2>5. SumOver(f, V \cup {x}) <= SumOver(g, V \cup {x})
    BY <2>2, <2>3, <2>4
  <2> QED BY <2>5
<1> HIDE DEF G
<1>3. S \in G
  BY <1>1, <1>2, SubsetInduction
<1> QED BY <1>3 DEF G

(* A sum of equal values.                                                    *)
LEMMA SumConstant ==
  ASSUME NEW f, NEW S, IsFiniteSet(S), NEW c \in Int, \A x \in S : f[x] = c
  PROVE  SumOver(f, S) = Cardinality(S) * c
<1> DEFINE G == {V \in SUBSET S : SumOver(f, V) = Cardinality(V) * c}
<1>1. {} \in G
  BY SumEmpty, FS_EmptySet
<1>2. ASSUME NEW V \in SUBSET S, NEW x \in S \ V, V \in G PROVE V \cup {x} \in G
  <2>1. IsFiniteSet(V)
    BY FS_Subset
  <2>2. SumOver(f, V \cup {x}) = c + SumOver(f, V)
    BY <2>1, SumAdd
  <2>3. Cardinality(V \cup {x}) = Cardinality(V) + 1 /\ Cardinality(V) \in Nat
    BY <2>1, FS_AddElement, FS_CardinalityType
  <2>4. (Cardinality(V) + 1) * c = c + Cardinality(V) * c
    BY <2>3
  <2> QED BY <1>2, <2>2, <2>3, <2>4
<1> HIDE DEF G
<1>3. S \in G
  BY <1>1, <1>2, SubsetInduction
<1> QED BY <1>3 DEF G

(* The sum of sums.                                                          *)
LEMMA SumPlus ==
  ASSUME NEW f, NEW g, NEW h, NEW S, IsFiniteSet(S),
         \A x \in S : f[x] \in Int /\ g[x] \in Int /\ h[x] = f[x] + g[x]
  PROVE  SumOver(h, S) = SumOver(f, S) + SumOver(g, S)
<1> DEFINE G == {V \in SUBSET S : SumOver(h, V) = SumOver(f, V) + SumOver(g, V)}
<1>1. {} \in G
  BY SumEmpty
<1>2. ASSUME NEW V \in SUBSET S, NEW x \in S \ V, V \in G PROVE V \cup {x} \in G
  <2>1. IsFiniteSet(V)
    BY FS_Subset
  <2>2. /\ SumOver(f, V \cup {x}) = f[x] + SumOver(f, V) /\ SumOver(g, V \cup {x}) = g[x] + SumOver(g, V)
        /\ SumOver(h, V \cup {x}) = h[x] + SumOver(h, V)
    BY <2>1, SumAdd
  <2>3. SumOver(f, V) \in Int /\ SumOver(g, V) \in Int
    BY <2>1, SumInt
  <2>4. f[x] \in Int /\ g[x] \in Int /\ h[x] = f[x] + g[x] /\ SumOver(h, V) = SumOver(f, V) + SumOver(g, V)
    BY <1>2
  <2>5. SumOver(h, V \cup {x}) = SumOver(f, V \cup {x}) + SumOver(g, V \cup {x})
    BY <2>2, <2>3, <2>4
  <2> QED BY <2>5
<1> HIDE DEF G
<1>3. S \in G
  BY <1>1, <1>2, SubsetInduction
<1> QED BY <1>3 DEF G

(* A common factor can be taken out.                                         *)
LEMMA SumTimes ==
  ASSUME NEW f, NEW h, NEW c \in Int, NEW S, IsFiniteSet(S),
         \A x \in S : f[x] \in Int /\ h[x] = c * f[x]
  PROVE  SumOver(h, S) = c * SumOver(f, S)
<1> DEFINE G == {V \in SUBSET S : SumOver(h, V) = c * SumOver(f, V)}
<1>1. {} \in G
  BY SumEmpty
<1>2. ASSUME NEW V \in SUBSET S, NEW x \in S \ V, V \in G PROVE V \cup {x} \in G
  <2>1. IsFiniteSet(V)
    BY FS_Subset
  <2>2. SumOver(f, V \cup {x}) = f[x] + SumOver(f, V) /\ SumOver(h, V \cup {x}) = h[x] + SumOver(h, V)
    BY <2>1, SumAdd
  <2>3. SumOver(f, V) \in Int
    BY <2>1, SumInt
  <2>4. f[x] \in Int /\ h[x] = c * f[x] /\ SumOver(h, V) = c * SumOver(f, V)
    BY <1>2
  <2>5. c * (f[x] + SumOver(f, V)) = c * f[x] + c * SumOver(f, V)
    BY <2>3, <2>4
  <2> QED BY <2>2, <2>4, <2>5
<1> HIDE DEF G
<1>3. S \in G
  BY <1>1, <1>2, SubsetInduction
<1> QED BY <1>3 DEF G


(* Of finitely many numbers one is the largest, and one the least.           *)
LEMMA Extremes ==
  ASSUME NEW f, NEW S, IsFiniteSet(S), S # {}, \A x \in S : f[x] \in Int
  PROVE  /\ \E x \in S : \A y \in S : f[y] <= f[x]
         /\ \E x \in S : \A y \in S : f[x] <= f[y]
<1> DEFINE G == {V \in SUBSET S : V # {} => /\ \E x \in V : \A y \in V : f[y] <= f[x]
                                            /\ \E x \in V : \A y \in V : f[x] <= f[y]}
<1>1. {} \in G
  OBVIOUS
<1>2. ASSUME NEW V \in SUBSET S, NEW x \in S \ V, V \in G PROVE V \cup {x} \in G
  <2>1. CASE V = {}
    <3>1. f[x] <= f[x]
      OBVIOUS
    <3> QED BY <2>1, <3>1
  <2>2. CASE V # {}
    <3>1. PICK a \in V : \A y \in V : f[y] <= f[a]
      BY <1>2, <2>2
    <3>2. PICK b \in V : \A y \in V : f[b] <= f[y]
      BY <1>2, <2>2
    <3>3. \A y \in V \cup {x} : f[y] \in Int
      OBVIOUS
    <3>4. \E z \in V \cup {x} : \A y \in V \cup {x} : f[y] <= f[z]
      <4>1. CASE f[x] <= f[a]
        BY <3>1, <3>3, <4>1
      <4>2. CASE f[a] <= f[x]
        BY <3>1, <3>3, <4>2
      <4> QED BY <3>3, <4>1, <4>2
    <3>5. \E z \in V \cup {x} : \A y \in V \cup {x} : f[z] <= f[y]
      <4>1. CASE f[b] <= f[x]
        BY <3>2, <3>3, <4>1
      <4>2. CASE f[x] <= f[b]
        BY <3>2, <3>3, <4>2
      <4> QED BY <3>3, <4>1, <4>2
    <3> QED BY <3>4, <3>5
  <2> QED BY <2>1, <2>2
<1> HIDE DEF G
<1>3. S \in G
  BY <1>1, <1>2, SubsetInduction
<1> QED BY <1>3 DEF G

(* What a quotient is.                                                       *)
LEMMA QuotientIn ==
  ASSUME NEW n \in Int, NEW d \in Nat \ {0}, NEW lo \in Int, NEW hi \in Int,
         lo * d <= n, n <= hi * d
  PROVE  n \div d \in lo..hi
<1> DEFINE z == n \div d
<1>1. z \in Int /\ z * d <= n /\ n < z * d + d
  OBVIOUS
<1> HIDE DEF z
<1>2. z <= hi
  <2> SUFFICES ASSUME z >= hi + 1 PROVE FALSE
    BY <1>1
  <2>1. z * d >= (hi + 1) * d
    BY <1>1
  <2> QED BY <1>1, <2>1
<1>3. z >= lo
  <2> SUFFICES ASSUME z + 1 <= lo PROVE FALSE
    BY <1>1
  <2>1. (z + 1) * d <= lo * d
    BY <1>1
  <2> QED BY <1>1, <2>1
<1> QED BY <1>1, <1>2, <1>3 DEF z

(* The values of a function on a finite set.                                 *)
LEMMA ImageFinite ==
  ASSUME NEW f, NEW S, IsFiniteSet(S)
  PROVE  IsFiniteSet({f[x] : x \in S})
<1> DEFINE T == {f[x] : x \in S}
           g == [x \in S |-> f[x]]
<1>1. g \in Surjection(S, T)
  BY DEF Surjection
<1> HIDE DEF T, g
<1>2. IsFiniteSet(T)
  BY <1>1, FS_Surjection
<1> QED BY <1>2 DEF T

(* A sum of shares is at most as many wholes.                                *)
LEMMA SumOfShares ==
  ASSUME NEW f, NEW S, IsFiniteSet(S), NEW c \in Nat, \A x \in S : f[x] \in 0..c
  PROVE  /\ SumOver(f, S) \in Nat /\ SumOver(f, S) <= Cardinality(S) * c
<1> DEFINE g == [x \in S |-> c]
<1>1. SumOver(f, S) \in Nat
  <2>1. \A x \in S : f[x] \in Nat
    OBVIOUS
  <2> QED BY <2>1, SumNat
<1>2. SumOver(g, S) = Cardinality(S) * c
  <2>1. \A x \in S : g[x] = c
    OBVIOUS
  <2> HIDE DEF g
  <2> QED BY <2>1, SumConstant
<1>3. SumOver(f, S) <= SumOver(g, S)
  <2>1. \A x \in S : f[x] \in Int /\ g[x] \in Int /\ f[x] <= g[x]
    OBVIOUS
  <2> HIDE DEF g
  <2> QED BY <2>1, SumMonotone
<1> HIDE DEF g
<1> QED BY <1>1, <1>2, <1>3

(* What is summed class by class is summed.                                  *)
LEMMA SumOfClasses ==
  ASSUME NEW f, NEW W, IsFiniteSet(W), \A e \in W : f[e] \in Int,
         NEW S, IsFiniteSet(S), NEW h, \A e \in W : h[e] \in S
  PROVE  SumOver([s \in S |-> SumOver(f, {e \in W : h[e] = s})], S) = SumOver(f, W)
<1> DEFINE C(V) == [s \in S |-> SumOver(f, {e \in V : h[e] = s})]
           G == {V \in SUBSET W : SumOver(C(V), S) = SumOver(f, V)}
<1>0. \A V \in SUBSET W : IsFiniteSet(V) /\ \A s \in S : C(V)[s] \in Int
  <2> TAKE V \in SUBSET W
  <2>1. IsFiniteSet(V)
    BY FS_Subset
  <2>2. ASSUME NEW s \in S PROVE SumOver(f, {e \in V : h[e] = s}) \in Int
    <3> DEFINE U == {e \in V : h[e] = s}
    <3>1. IsFiniteSet(U) /\ \A x \in U : f[x] \in Int
      BY FS_Subset
    <3> HIDE DEF U
    <3>2. SumOver(f, U) \in Int
      BY <3>1, SumInt
    <3> QED BY <3>2 DEF U
  <2> QED BY <2>1, <2>2
<1>1. {} \in G
  <2> DEFINE c == C({})
  <2>1. \A s \in S : c[s] = 0
    <3> TAKE s \in S
    <3>1. {e \in {} : h[e] = s} = {}
      OBVIOUS
    <3> QED BY <3>1, SumEmpty
  <2> HIDE DEF c
  <2>2. SumOver(c, S) = Cardinality(S) * 0
    BY <2>1, SumConstant
  <2>3. SumOver(c, S) = 0
    BY <2>2, FS_CardinalityType
  <2> QED BY <2>3, SumEmpty DEF c
<1>2. ASSUME NEW V \in SUBSET W, NEW x \in W \ V, V \in G PROVE V \cup {x} \in G
  <2> DEFINE c == C(V)
             d == C(V \cup {x})
             i == [s \in S |-> IF s = h[x] THEN f[x] ELSE 0]
             k == h[x]
  <2>1. V \cup {x} \in SUBSET W /\ k \in S /\ f[x] \in Int
    OBVIOUS
  <2>2. \A s \in S : c[s] \in Int /\ i[s] \in Int /\ d[s] = c[s] + i[s]
    <3> TAKE s \in S
    <3>1. c[s] \in Int
      BY <1>0
    <3>2. CASE s = h[x]
      <4> DEFINE U == {e \in V : h[e] = s}
      <4>1. {e \in V \cup {x} : h[e] = s} = U \cup {x} /\ x \notin U
        BY <3>2
      <4>2. IsFiniteSet(U) /\ \A y \in U \cup {x} : f[y] \in Int
        BY <1>0, FS_Subset
      <4>3. d[s] = SumOver(f, U \cup {x}) /\ c[s] = SumOver(f, U)
        BY <4>1
      <4> HIDE DEF U, c, d
      <4>4. d[s] = f[x] + c[s]
        BY <4>1, <4>2, <4>3, SumAdd
      <4>5. i[s] = f[x]
        BY <3>2
      <4> HIDE DEF i
      <4> QED BY <2>1, <3>1, <4>4, <4>5
    <3>3. CASE s # h[x]
      <4>1. {e \in V \cup {x} : h[e] = s} = {e \in V : h[e] = s}
        BY <3>3
      <4>2. d[s] = c[s] /\ i[s] = 0
        BY <3>3, <4>1
      <4> HIDE DEF c, d, i
      <4> QED BY <3>1, <4>2
    <3> QED BY <3>2, <3>3
  <2>3. SumOver(i, S) = f[x]
    <3>1. \A s \in S : i[s] \in Int
      BY <2>1
    <3>2. i[k] = f[x] /\ \A s \in S \ {k} : i[s] = 0
      BY <2>1
    <3>3. IsFiniteSet(S \ {k})
      BY FS_Subset
    <3> HIDE DEF i, k
    <3>4. SumOver(i, S) = i[k] + SumOver(i, S \ {k})
      BY <2>1, <3>1, SumRemove
    <3>5. SumOver(i, S \ {k}) = Cardinality(S \ {k}) * 0
      BY <3>2, <3>3, SumConstant
    <3>6. SumOver(i, S \ {k}) = 0
      BY <3>3, <3>5, FS_CardinalityType
    <3> QED BY <2>1, <3>2, <3>4, <3>6
  <2>4. SumOver(d, S) = SumOver(c, S) + SumOver(i, S)
    <3> HIDE DEF c, d, i
    <3> QED BY <2>2, SumPlus
  <2>5. SumOver(f, V \cup {x}) = f[x] + SumOver(f, V)
    <3>1. IsFiniteSet(V) /\ x \notin V /\ \A y \in V \cup {x} : f[y] \in Int
      BY <1>0
    <3> QED BY <3>1, SumAdd
  <2>6. SumOver(c, S) = SumOver(f, V)
    BY <1>2
  <2>7. SumOver(f, V) \in Int
    <3>1. IsFiniteSet(V) /\ \A y \in V : f[y] \in Int
      BY <1>0
    <3> QED BY <3>1, SumInt
  <2> HIDE DEF c, i
  <2>8. SumOver(d, S) = SumOver(f, V \cup {x})
    BY <2>1, <2>3, <2>4, <2>5, <2>6, <2>7
  <2> QED BY <2>1, <2>8
<1>3. W \in G
  <2>1. SUBSET W \subseteq G
    <3> HIDE DEF G
    <3> QED BY <1>1, <1>2, SubsetInduction
  <2> HIDE DEF G
  <2> QED BY <2>1
<1> QED BY <1>3

(* The square of a sum is at most as many times the sum of the squares.      *)
LEMMA SquareOfSum ==
  ASSUME NEW f, NEW q, NEW S, IsFiniteSet(S),
         \A x \in S : f[x] \in Int /\ q[x] = f[x] * f[x]
  PROVE  SumOver(f, S) * SumOver(f, S) <= Cardinality(S) * SumOver(q, S)
<1> DEFINE Spread(V) == \A c \in Int :
                          SumOver(q, V) - 2 * c * SumOver(f, V) + Cardinality(V) * (c * c) >= 0
           Holds(V) == SumOver(f, V) * SumOver(f, V) <= Cardinality(V) * SumOver(q, V)
           G == {V \in SUBSET S : Spread(V) /\ Holds(V)}
<1>1. {} \in G
  <2>1. SumOver(q, {}) = 0 /\ SumOver(f, {}) = 0 /\ Cardinality({}) = 0
    BY SumEmpty, FS_EmptySet
  <2> QED BY <2>1
<1>2. ASSUME NEW V \in SUBSET S, NEW x \in S \ V, V \in G PROVE V \cup {x} \in G
  <2> DEFINE Q == SumOver(q, V)
             F == SumOver(f, V)
             n == Cardinality(V)
             y == f[x]
             m == Cardinality(V \cup {x})
             A == SumOver(q, V \cup {x})
             B == SumOver(f, V \cup {x})
  <2>1. IsFiniteSet(V) /\ x \notin V
    BY FS_Subset
  <2>2. (\A z \in V \cup {x} : f[z] \in Int) /\ (\A z \in V \cup {x} : q[z] \in Int)
    OBVIOUS
  <2>3. Q \in Int /\ F \in Int /\ n \in Nat /\ y \in Int /\ q[x] = y * y
    BY <2>1, <2>2, SumInt, FS_CardinalityType
  <2>4. m = n + 1 /\ A = y * y + Q /\ B = y + F
    BY <2>1, <2>2, <2>3, SumAdd, FS_AddElement
  <2>5. Spread(V) /\ Holds(V)
    BY <1>2
  <2>6. F * F <= n * Q /\ \A c \in Int : Q - 2 * c * F + n * (c * c) >= 0
    BY <2>5
  <2> HIDE DEF Q, F, n, y, A, B, m
  <2>7. ASSUME NEW c \in Int PROVE A - 2 * c * B + m * (c * c) >= 0
    <3>1. Q - 2 * c * F + n * (c * c) >= 0
      BY <2>6
    <3>2. A - 2 * c * B + m * (c * c) = (Q - 2 * c * F + n * (c * c)) + (y - c) * (y - c)
      BY <2>3, <2>4
    <3>3. (y - c) * (y - c) >= 0
      BY <2>3
    <3>4. c * F \in Int /\ c * c \in Int /\ n * (c * c) \in Int /\ (y - c) * (y - c) \in Int
      BY <2>3
    <3> QED BY <2>3, <3>1, <3>2, <3>3, <3>4
  <2>8. B * B <= m * A
    <3>1. Q - 2 * y * F + n * (y * y) >= 0
      BY <2>3, <2>6
    <3>2. m * A - B * B = (n * Q - F * F) + (Q - 2 * y * F + n * (y * y))
      BY <2>3, <2>4
    <3>3. n * Q - F * F >= 0
      BY <2>3, <2>6
    <3>4. m * A \in Int /\ B * B \in Int /\ n * Q \in Int /\ F * F \in Int /\ n * (y * y) \in Int /\ y * F \in Int
      BY <2>3, <2>4
    <3> QED BY <2>3, <3>1, <3>2, <3>3, <3>4
  <2>9. Spread(V \cup {x}) /\ Holds(V \cup {x})
    BY <2>7, <2>8 DEF A, B, m
  <2> QED BY <2>9
<1>3. S \in G
  <2>1. SUBSET S \subseteq G
    <3> HIDE DEF G
    <3> QED BY <1>1, <1>2, SubsetInduction
  <2> HIDE DEF G
  <2> QED BY <2>1
<1> QED BY <1>3

(* A number has a root, rounded down.                                        *)
LEMMA RootExists ==
  ASSUME NEW k \in Nat, NEW x \in 0..k * k
  PROVE  \E r \in 0..k : r * r <= x /\ x < (r + 1) * (r + 1)
<1> DEFINE B == {r \in Nat : x < (r + 1) * (r + 1)}
<1>0. x \in Nat /\ x <= k * k
  OBVIOUS
<1>1. k \in B
  <2>1. (k + 1) * (k + 1) > k * k
    OBVIOUS
  <2> QED BY <1>0, <2>1
<1>2. PICK r \in B : \A s \in B : r <= s
  <2>1. B \in SUBSET Nat /\ B # {}
    BY <1>1
  <2> HIDE DEF B
  <2> QED BY <2>1, LeastNat
<1>3. r \in Nat /\ r <= k /\ x < (r + 1) * (r + 1)
  BY <1>1, <1>2
<1>4. r * r <= x
  <2>1. CASE r = 0
    BY <1>0, <2>1
  <2>2. CASE r # 0
    <3>1. r - 1 \in Nat /\ r - 1 \notin B
      BY <1>2, <1>3, <2>2
    <3> QED BY <1>0, <1>3, <3>1
  <2> QED BY <2>1, <2>2
<1> QED BY <1>3, <1>4

(* A part of a sum of numbers that are not negative.                         *)
LEMMA SumOfPart ==
  ASSUME NEW f, NEW S, IsFiniteSet(S), \A x \in S : f[x] \in Nat, NEW T \in SUBSET S
  PROVE  SumOver(f, T) <= SumOver(f, S)
<1> DEFINE g == [x \in S |-> IF x \in T THEN f[x] ELSE 0]
           G == {V \in SUBSET S : SumOver(f, V \cap T) = SumOver(g, V)}
<1>1. {} \in G
  <2>1. {} \cap T = {}
    OBVIOUS
  <2> HIDE DEF g
  <2> QED BY <2>1, SumEmpty
<1>2. ASSUME NEW V \in SUBSET S, NEW x \in S \ V, V \in G PROVE V \cup {x} \in G
  <2>1. IsFiniteSet(V) /\ IsFiniteSet(V \cap T)
    BY FS_Subset
  <2>2. \A y \in V \cup {x} : g[y] \in Int
    OBVIOUS
  <2>3. g[x] = IF x \in T THEN f[x] ELSE 0
    OBVIOUS
  <2>4. SumOver(g, V \cup {x}) = g[x] + SumOver(g, V) /\ SumOver(g, V) \in Int
    <3> HIDE DEF g
    <3>1. x \notin V /\ \A y \in V : g[y] \in Int
      BY <2>2
    <3> QED BY <2>1, <2>2, <3>1, SumAdd, SumInt
  <2>5. SumOver(f, V \cap T) = SumOver(g, V)
    BY <1>2
  <2> HIDE DEF g
  <2>6. CASE x \in T
    <3>1. (V \cup {x}) \cap T = (V \cap T) \cup {x}
      BY <2>6
    <3>2. x \notin V \cap T /\ \A y \in (V \cap T) \cup {x} : f[y] \in Int
      OBVIOUS
    <3>3. SumOver(f, (V \cap T) \cup {x}) = f[x] + SumOver(f, V \cap T)
      BY <2>1, <3>2, SumAdd
    <3> QED BY <2>3, <2>4, <2>5, <2>6, <3>1, <3>3
  <2>7. CASE x \notin T
    <3>1. (V \cup {x}) \cap T = V \cap T
      BY <2>7
    <3> QED BY <2>3, <2>4, <2>5, <2>7, <3>1
  <2> QED BY <2>6, <2>7
<1>3. SumOver(f, S \cap T) = SumOver(g, S)
  <2>1. SUBSET S \subseteq G
    <3> HIDE DEF G
    <3> QED BY <1>1, <1>2, SubsetInduction
  <2>2. S \in G
    <3> HIDE DEF G
    <3> QED BY <2>1
  <2> QED BY <2>2
<1>4. SumOver(g, S) <= SumOver(f, S)
  <2>1. \A x \in S : g[x] \in Int /\ f[x] \in Int /\ g[x] <= f[x]
    OBVIOUS
  <2> HIDE DEF g
  <2> QED BY <2>1, SumMonotone
<1>5. S \cap T = T
  OBVIOUS
<1> HIDE DEF g
<1> QED BY <1>3, <1>4, <1>5

-----------------------------------------------------------------------------
\* What the recursive definition in Ball says of the function it defines.
IsBall(B, g, via, d, n) ==
  B = [k \in 0..n |->
         IF k = 0 THEN {d} ELSE B[k - 1] \cup UNION {g[u] : u \in B[k - 1] \cap via}]

(* There is such a function: it is built one hop after the other.            *)
LEMMA BallExists ==
  ASSUME NEW g, NEW via, NEW d, NEW n \in Nat
  PROVE  \E B : IsBall(B, g, via, d, n)
<1> DEFINE G == {m \in Nat : \E B : IsBall(B, g, via, d, m)}
<1>1. 0 \in G
  <2> DEFINE B == [k \in 0..0 |-> {d}]
  <2>1. IsBall(B, g, via, d, 0)
    BY DEF IsBall
  <2> QED BY <2>1
<1>2. ASSUME NEW m \in Nat, m \in G PROVE m + 1 \in G
  <2>1. PICK B : IsBall(B, g, via, d, m)
    BY <1>2
  <2> DEFINE H == [k \in 0..m + 1 |->
                     IF k = 0 THEN {d}
                     ELSE B[k - 1] \cup UNION {g[u] : u \in B[k - 1] \cap via}]
  <2>2. \A k \in 0..m : H[k] = B[k]
    <3> TAKE k \in 0..m
    <3>1. k \in 0..m + 1
      OBVIOUS
    <3>2. H[k] = IF k = 0 THEN {d} ELSE B[k - 1] \cup UNION {g[u] : u \in B[k - 1] \cap via}
      BY <3>1
    <3>3. B[k] = IF k = 0 THEN {d} ELSE B[k - 1] \cup UNION {g[u] : u \in B[k - 1] \cap via}
      BY <2>1 DEF IsBall
    <3> QED BY <3>2, <3>3
  <2>3. \A k \in 0..m + 1 : k # 0 => H[k - 1] = B[k - 1]
    <3> TAKE k \in 0..m + 1
    <3> HAVE k # 0
    <3>1. k - 1 \in 0..m
      OBVIOUS
    <3> HIDE DEF H
    <3> QED BY <2>2, <3>1
  <2>4. IsBall(H, g, via, d, m + 1)
    <3>1. H = [k \in 0..m + 1 |->
                 IF k = 0 THEN {d} ELSE H[k - 1] \cup UNION {g[u] : u \in H[k - 1] \cap via}]
      BY <2>3
    <3> QED BY <3>1 DEF IsBall
  <2> HIDE DEF H
  <2> QED BY <2>4
<1> HIDE DEF G
<1>3. Nat \subseteq G
  BY <1>1, <1>2, NatSetInduction
<1> QED BY <1>3 DEF G

(* So the chosen function is one.                                            *)
LEMMA BallIs ==
  ASSUME NEW g, NEW via, NEW d, Cardinality(DOMAIN g) \in Nat
  PROVE  IsBall(Ball(g, via, d), g, via, d, Cardinality(DOMAIN g))
<1> DEFINE N == Cardinality(DOMAIN g)
           B == CHOOSE B : IsBall(B, g, via, d, N)
<1>1. IsBall(B, g, via, d, N)
  BY BallExists
<1>2. Ball(g, via, d) = B
  BY Zenon DEF Ball, IsBall
<1> QED BY <1>1, <1>2

(* One hop more, and never a switch less.                                    *)
LEMMA BallGrows ==
  ASSUME NEW g, NEW via, NEW d, Cardinality(DOMAIN g) \in Nat
  PROVE  /\ Ball(g, via, d)[0] = {d}
         /\ \A k \in 0..Cardinality(DOMAIN g) : k # 0 =>
              Ball(g, via, d)[k] =
                Ball(g, via, d)[k - 1] \cup UNION {g[u] : u \in Ball(g, via, d)[k - 1] \cap via}
         /\ \A j, k \in 0..Cardinality(DOMAIN g) :
              j <= k => Ball(g, via, d)[j] \subseteq Ball(g, via, d)[k]
<1> DEFINE N == Cardinality(DOMAIN g)
           B == Ball(g, via, d)
<1> HIDE DEF N, B
<1>0. N \in Nat
  BY DEF N
<1>1. IsBall(B, g, via, d, N)
  BY BallIs DEF B, N
<1>2. B[0] = {d}
  BY <1>0, <1>1 DEF IsBall
<1>3. \A k \in 0..N : k # 0 => B[k] = B[k - 1] \cup UNION {g[u] : u \in B[k - 1] \cap via}
  BY <1>0, <1>1 DEF IsBall
<1>4. \A j, k \in 0..N : j <= k => B[j] \subseteq B[k]
  <2> DEFINE G == {k \in Nat : k <= N => \A j \in 0..k : B[j] \subseteq B[k]}
  <2>1. 0 \in G
    OBVIOUS
  <2>2. ASSUME NEW k \in Nat, k \in G PROVE k + 1 \in G
    <3> SUFFICES ASSUME k + 1 <= N, NEW j \in 0..k + 1 PROVE B[j] \subseteq B[k + 1]
      OBVIOUS
    <3>1. B[k] \subseteq B[k + 1]
      BY <1>0, <1>3
    <3> QED BY <1>0, <2>2, <3>1
  <2> HIDE DEF G
  <2>3. Nat \subseteq G
    BY <2>1, <2>2, NatSetInduction
  <2> QED BY <1>0, <2>3 DEF G
<1> QED BY <1>2, <1>3, <1>4 DEF B, N

(* A switch is within reach of itself.                                       *)
LEMMA ReachesItself ==
  ASSUME NEW g, NEW via, NEW d, IsFiniteSet(DOMAIN g)
  PROVE  d \in Reach(g, via, d)
<1> DEFINE N == Cardinality(DOMAIN g)
           B == Ball(g, via, d)
           z == 0
<1>1. N \in Nat
  BY FS_CardinalityType
<1>2. B[z] = {d} /\ (\A j, k \in 0..N : j <= k => B[j] \subseteq B[k])
  BY <1>1, BallGrows
<1>3. z \in 0..N /\ N \in 0..N /\ z <= N
  BY <1>1
<1> HIDE DEF B, z, N
<1>4. d \in B[N]
  BY <1>2, <1>3
<1> QED BY <1>4 DEF Reach, B, N

-----------------------------------------------------------------------------
(* The length of a function on 1..n.                                         *)
LEMMA LenIs ==
  ASSUME NEW S, NEW n \in Nat, NEW r \in [1..n -> S]
  PROVE  r \in Seq(S) /\ Len(r) = n
<1>1. r \in Seq(S)
  OBVIOUS
<1>2. Len(r) \in Nat /\ DOMAIN r = 1..Len(r) /\ DOMAIN r = 1..n
  BY <1>1, LenProperties
<1> QED BY <1>1, <1>2

(* What a route is, with its number of switches made explicit.               *)
LEMMA RouteIs ==
  ASSUME NEW g, NEW bl, NEW s, NEW d, NEW r, Cardinality(DOMAIN g) \in Nat
  PROVE  r \in Routes(g, bl, s, d) <=>
           \E n \in 1..Cardinality(DOMAIN g) :
             /\ r \in [1..n -> DOMAIN g] /\ r \in Seq(DOMAIN g) /\ Len(r) = n
             /\ r[1] = s /\ r[n] = d
             /\ \A i, j \in 1..n : r[i] = r[j] => i = j
             /\ \A i \in 1..n - 1 : r[i + 1] \in g[r[i]]
             /\ \A i \in 2..n - 1 : r[i] \notin bl
<1> DEFINE S == DOMAIN g
           N == Cardinality(S)
<1> HIDE DEF S, N
<1>0. N \in Nat
  BY DEF N, S
<1>1. \A n \in 1..N : r \in [1..n -> S] => r \in Seq(S) /\ Len(r) = n
  BY <1>0, LenIs
<1> QED BY <1>0, <1>1 DEF Routes, S, N

Symmetric(g) ==
  /\ g \in [DOMAIN g -> SUBSET DOMAIN g]
  /\ \A u, v \in DOMAIN g : u \in g[v] => v \in g[u]

(* A route comes within reach of its end one hop at a time, from the end.    *)
LEMMA RouteReaches ==
  ASSUME NEW g, NEW bl, NEW s, NEW d, IsFiniteSet(DOMAIN g), Symmetric(g),
         NEW r \in Routes(g, bl, s, d)
  PROVE  s \in Reach(g, (DOMAIN g \ bl) \cup {d}, d)
<1> DEFINE S == DOMAIN g
           N == Cardinality(S)
           via == (S \ bl) \cup {d}
           B == Ball(g, via, d)
<1>0. N \in Nat
  BY FS_CardinalityType
<1>1. PICK n \in 1..N :
         /\ r \in [1..n -> S]
         /\ r[1] = s /\ r[n] = d
         /\ \A i \in 1..n - 1 : r[i + 1] \in g[r[i]]
         /\ \A i \in 2..n - 1 : r[i] \notin bl
  BY <1>0, RouteIs
<1>2. /\ B[0] = {d}
      /\ \A k \in 0..N : k # 0 => B[k] = B[k - 1] \cup UNION {g[u] : u \in B[k - 1] \cap via}
      /\ \A j, k \in 0..N : j <= k => B[j] \subseteq B[k]
  BY <1>0, BallGrows
<1>3. \A u, v \in S : u \in g[v] => v \in g[u]
  BY DEF Symmetric
<1> HIDE DEF B, N
<1> DEFINE G == {k \in Nat : k <= n - 1 => r[n - k] \in B[k]}
<1>4. 0 \in G
  BY <1>1, <1>2
<1>5. ASSUME NEW k \in Nat, k \in G PROVE k + 1 \in G
  <2> SUFFICES ASSUME k + 1 <= n - 1 PROVE r[n - (k + 1)] \in B[k + 1]
    OBVIOUS
  <2> DEFINE i == n - (k + 1)
  <2>1. i \in 1..n - 1 /\ i + 1 = n - k /\ i + 1 \in 1..n /\ i \in 1..n /\ n \in Nat
    BY <1>0
  <2>2. r[i + 1] \in B[k]
    BY <1>5, <2>1
  <2>3. r[i + 1] \in via
    <3>1. CASE i + 1 = n
      BY <1>1, <3>1
    <3>2. CASE i + 1 # n
      <4>1. i + 1 \in 2..n - 1
        BY <2>1, <3>2
      <4> QED BY <1>1, <2>1, <4>1
    <3> QED BY <3>1, <3>2
  <2>4. r[i] \in g[r[i + 1]]
    BY <1>1, <1>3, <2>1
  <2>5. k + 1 \in 0..N /\ (k + 1) - 1 = k
    BY <1>0
  <2> HIDE DEF i, via
  <2>6. r[i] \in B[k + 1]
    BY <1>2, <2>2, <2>3, <2>4, <2>5
  <2> QED BY <2>6 DEF i
<1> HIDE DEF G
<1>6. Nat \subseteq G
  BY <1>4, <1>5, NatSetInduction
<1>7. r[1] \in B[n - 1]
  <2>1. n - 1 \in G /\ n - (n - 1) = 1
    BY <1>0, <1>6
  <2> QED BY <2>1 DEF G
<1>8. s \in B[N]
  BY <1>0, <1>1, <1>2, <1>7
<1> QED BY <1>8 DEF Reach, B, N

(* A switch within reach has a route: one hop, then the route from there.    *)
LEMMA ReachHasRoute ==
  ASSUME NEW g, NEW bl, NEW d \in DOMAIN g, IsFiniteSet(DOMAIN g), Symmetric(g),
         NEW s \in Reach(g, (DOMAIN g \ bl) \cup {d}, d)
  PROVE  s \in DOMAIN g /\ Routes(g, bl, s, d) # {}
<1> DEFINE S == DOMAIN g
           N == Cardinality(S)
           via == (S \ bl) \cup {d}
           B == Ball(g, via, d)
           Good(r, u, X) == \E n \in 1..N :
             /\ r \in [1..n -> S]
             /\ r[1] = u /\ r[n] = d
             /\ \A i, j \in 1..n : r[i] = r[j] => i = j
             /\ \A i \in 1..n - 1 : r[i + 1] \in g[r[i]]
             /\ \A i \in 2..n - 1 : r[i] \notin bl
             /\ \A i \in 1..n : r[i] \in X
           Has(k) == \A u \in B[k] : u \in S /\ \E r : Good(r, u, B[k])
           G == {k \in Nat : k <= N => Has(k)}
<1>0. N \in Nat /\ N >= 1
  <2>1. N # 0
    BY FS_EmptySet
  <2> QED BY <2>1, FS_CardinalityType
<1>2. /\ B[0] = {d}
      /\ \A k \in 0..N : k # 0 => B[k] = B[k - 1] \cup UNION {g[u] : u \in B[k - 1] \cap via}
      /\ \A j, k \in 0..N : j <= k => B[j] \subseteq B[k]
  BY <1>0, BallGrows
<1>3. g \in [S -> SUBSET S] /\ \A u, v \in S : u \in g[v] => v \in g[u]
  BY DEF Symmetric
<1>4. 0 \in G
  <2> DEFINE r == [i \in 1..1 |-> d]
  <2>1. Good(r, d, {d})
    BY <1>0
  <2> HIDE DEF r, B, Good
  <2> QED BY <1>2, <2>1
<1>5. ASSUME NEW k \in Nat, k \in G PROVE k + 1 \in G
  <2> HIDE DEF Has
  <2> SUFFICES ASSUME k + 1 <= N PROVE Has(k + 1)
    OBVIOUS
  <2>0. Has(k)
    BY <1>0, <1>5
  <2> USE DEF Has
  <2> SUFFICES ASSUME NEW u \in B[k + 1]
               PROVE  u \in S /\ \E r : Good(r, u, B[k + 1])
    OBVIOUS
  <2> HIDE DEF B
  <2>1. B[k] \subseteq B[k + 1] /\ B[k + 1] = B[k] \cup UNION {g[v] : v \in B[k] \cap via}
    BY <1>0, <1>2
  <2>2. CASE u \in B[k]
    <3>1. u \in S /\ \E r : Good(r, u, B[k])
      BY <2>0, <2>2
    <3> QED BY <2>1, <3>1
  <2>3. CASE u \notin B[k]
    <3>1. PICK v \in B[k] \cap via : u \in g[v]
      BY <2>1, <2>3
    <3>2. v \in S /\ \E r : Good(r, v, B[k])
      BY <2>0
    <3>3. PICK r : Good(r, v, B[k])
      BY <3>2
    <3>4. PICK n \in 1..N :
             /\ r \in [1..n -> S]
             /\ r[1] = v /\ r[n] = d
             /\ \A i, j \in 1..n : r[i] = r[j] => i = j
             /\ \A i \in 1..n - 1 : r[i + 1] \in g[r[i]]
             /\ \A i \in 2..n - 1 : r[i] \notin bl
             /\ \A i \in 1..n : r[i] \in B[k]
      BY <3>3
    <3>5. u \in S /\ v \in g[u]
      BY <1>3, <3>1, <3>2
    <3> DEFINE t == [i \in 1..n + 1 |-> IF i = 1 THEN u ELSE r[i - 1]]
    <3>6. t \in [1..n + 1 -> S] /\ t[1] = u /\ t[n + 1] = d
      BY <1>0, <3>4, <3>5
    <3>7. \A i \in 2..n + 1 : i - 1 \in 1..n /\ t[i] = r[i - 1]
      BY <1>0
    <3>8. \A i, j \in 1..n + 1 : t[i] = t[j] => i = j
      <4> TAKE i, j \in 1..n + 1
      <4> HAVE t[i] = t[j]
      <4>1. CASE i = 1 /\ j = 1
        BY <4>1
      <4>2. CASE i # 1 /\ j # 1
        <5>1. i \in 2..n + 1 /\ j \in 2..n + 1
          BY <4>2
        <5> HIDE DEF t
        <5>2. r[i - 1] = r[j - 1] /\ i - 1 \in 1..n /\ j - 1 \in 1..n
          BY <3>7, <5>1
        <5>3. i - 1 = j - 1
          BY <3>4, <5>2
        <5> QED BY <5>3
      <4>3. CASE i = 1 /\ j # 1
        <5>1. j \in 2..n + 1 /\ t[i] = u
          BY <3>6, <4>3
        <5> HIDE DEF t
        <5>2. t[j] \in B[k]
          BY <3>4, <3>7, <5>1
        <5> QED BY <2>3, <5>1, <5>2
      <4>4. CASE i # 1 /\ j = 1
        <5>1. i \in 2..n + 1 /\ t[j] = u
          BY <3>6, <4>4
        <5> HIDE DEF t
        <5>2. t[i] \in B[k]
          BY <3>4, <3>7, <5>1
        <5> QED BY <2>3, <5>1, <5>2
      <4> QED BY <4>1, <4>2, <4>3, <4>4
    <3>9. n + 1 \in 1..N
      <4>1. t \in Injection(1..n + 1, S)
        BY <3>6, <3>8 DEF Injection, IsInjective
      <4>2. Cardinality(1..n + 1) = n + 1
        <5>1. 1 <= n + 1 /\ n + 1 \in Int /\ (n + 1) - 1 + 1 = n + 1
          BY <1>0
        <5> QED BY <5>1, FS_Interval
      <4>3. Cardinality(1..n + 1) <= N
        BY <4>1, FS_Injection
      <4> QED BY <1>0, <4>2, <4>3
    <3>10. \A i \in 1..(n + 1) - 1 : t[i + 1] \in g[t[i]]
      <4> TAKE i \in 1..(n + 1) - 1
      <4>1. CASE i = 1
        BY <1>0, <3>4, <3>5, <4>1
      <4>2. CASE i # 1
        <5>1. i \in 2..n + 1 /\ i + 1 \in 2..n + 1 /\ i - 1 \in 1..n - 1 /\ (i + 1) - 1 = (i - 1) + 1
          BY <1>0, <4>2
        <5> HIDE DEF t
        <5> QED BY <3>4, <3>7, <5>1
      <4> QED BY <4>1, <4>2
    <3>11. \A i \in 2..(n + 1) - 1 : t[i] \notin bl
      <4> TAKE i \in 2..(n + 1) - 1
      <4>1. i \in 2..n + 1 /\ i - 1 \in 1..n - 1
        BY <1>0
      <4> HIDE DEF t
      <4>2. CASE i = 2
        <5>1. t[i] = v
          BY <3>4, <3>7, <4>1, <4>2
        <5>2. v # d
          <6>1. n # 1 /\ 1 \in 1..n /\ n \in 1..n
            BY <1>0, <4>1, <4>2
          <6> QED BY <3>4, <6>1
        <5> QED BY <3>1, <5>1, <5>2
      <4>3. CASE i # 2
        <5>1. i - 1 \in 2..n - 1
          BY <4>1, <4>3
        <5> QED BY <3>4, <3>7, <4>1, <5>1
      <4> QED BY <4>2, <4>3
    <3>12. \A i \in 1..n + 1 : t[i] \in B[k + 1]
      <4> TAKE i \in 1..n + 1
      <4>1. CASE i = 1
        BY <3>6, <4>1
      <4>2. CASE i # 1
        <5>1. i \in 2..n + 1
          BY <4>2
        <5> HIDE DEF t
        <5> QED BY <2>1, <3>4, <3>7, <5>1
      <4> QED BY <4>1, <4>2
    <3>13. Good(t, u, B[k + 1])
      <4> HIDE DEF t, N, S
      <4> QED BY <3>6, <3>8, <3>9, <3>10, <3>11, <3>12
    <3> HIDE DEF t, Good
    <3> QED BY <3>5, <3>13
  <2> QED BY <2>2, <2>3
<1> HIDE DEF G, Has
<1>6. Nat \subseteq G
  BY <1>4, <1>5, NatSetInduction
<1>7. s \in B[N]
  BY DEF Reach
<1>8. s \in S /\ \E r : Good(r, s, B[N])
  <2> HIDE DEF Good, B, S
  <2>1. Has(N)
    BY <1>0, <1>6 DEF G
  <2> QED BY <1>7, <2>1 DEF Has
<1>9. PICK r : Good(r, s, B[N])
  BY <1>8
<1>10. \A n \in 1..N : r \in [1..n -> S] => r \in Seq(S) /\ Len(r) = n
  BY <1>0, LenIs
<1>11. r \in Routes(g, bl, s, d)
  BY <1>0, <1>9, <1>10, RouteIs
<1> QED BY <1>8, <1>11

(* What is left of a route after its first hop is a route.                   *)
LEMMA RestOfRoute ==
  ASSUME NEW g, NEW bl, NEW s, NEW d, s # d, IsFiniteSet(DOMAIN g),
         NEW r \in Routes(g, bl, s, d)
  PROVE  /\ Len(r) \in Nat /\ Len(r) >= 2
         /\ r[2] \in DOMAIN g /\ r[2] \in g[s] /\ (r[2] \in bl => r[2] = d)
         /\ [i \in 1..Len(r) - 1 |-> r[i + 1]] \in Routes(g, bl, r[2], d)
<1> DEFINE S == DOMAIN g
           N == Cardinality(S)
<1>0. N \in Nat
  BY FS_CardinalityType
<1>1. PICK n \in 1..N :
         /\ r \in [1..n -> S] /\ Len(r) = n
         /\ r[1] = s /\ r[n] = d
         /\ \A i, j \in 1..n : r[i] = r[j] => i = j
         /\ \A i \in 1..n - 1 : r[i + 1] \in g[r[i]]
         /\ \A i \in 2..n - 1 : r[i] \notin bl
  BY <1>0, RouteIs
<1> HIDE DEF N, S
<1>2. n \in Nat /\ n >= 2 /\ n <= N
  BY <1>0, <1>1
<1>3. 2 \in 1..n /\ 1 \in 1..n - 1
  BY <1>2
<1>4. r[2] \in S /\ r[2] \in g[s] /\ (r[2] \in bl => r[2] = d)
  <2>1. 1 + 1 = 2
    OBVIOUS
  <2>2. r[2] \in g[s]
    BY <1>1, <1>3, <2>1
  <2>3. CASE n = 2
    BY <1>1, <1>3, <2>2, <2>3
  <2>4. CASE n # 2
    <3>1. 2 \in 2..n - 1
      BY <1>2, <2>4
    <3> QED BY <1>1, <1>3, <2>2, <3>1
  <2> QED BY <2>3, <2>4
<1> DEFINE m == n - 1
           t == [i \in 1..m |-> r[i + 1]]
<1>5. m \in 1..N /\ 1 \in 1..m /\ m \in 1..m
  BY <1>0, <1>2
<1>6. \A i \in 1..m : i + 1 \in 1..n /\ t[i] = r[i + 1]
  BY <1>2
<1>7. t \in [1..m -> S] /\ t[1] = r[2] /\ t[m] = d
  <2>1. t[1] = r[1 + 1] /\ t[m] = r[m + 1] /\ m + 1 = n /\ 1 + 1 = 2
    BY <1>2, <1>5
  <2> QED BY <1>1, <1>6, <2>1
<1> HIDE DEF t
<1>8. \A i, j \in 1..m : t[i] = t[j] => i = j
  <2> TAKE i, j \in 1..m
  <2> HAVE t[i] = t[j]
  <2>1. i + 1 = j + 1
    BY <1>1, <1>6
  <2> QED BY <2>1
<1>9. \A i \in 1..m - 1 : t[i + 1] \in g[t[i]]
  <2> TAKE i \in 1..m - 1
  <2>1. i \in 1..m /\ i + 1 \in 1..m /\ i + 1 \in 1..n - 1
    BY <1>2
  <2> QED BY <1>1, <1>6, <2>1
<1>10. \A i \in 2..m - 1 : t[i] \notin bl
  <2> TAKE i \in 2..m - 1
  <2>1. i \in 1..m /\ i + 1 \in 2..n - 1
    BY <1>2
  <2> QED BY <1>1, <1>6, <2>1
<1>11. t \in Seq(S) /\ Len(t) = m
  <2>1. m \in Nat
    BY <1>2
  <2> HIDE DEF m
  <2> QED BY <1>7, <2>1, LenIs
<1>12. t \in Routes(g, bl, r[2], d)
  <2> HIDE DEF m
  <2> QED BY <1>0, <1>5, <1>7, <1>8, <1>9, <1>10, <1>11, RouteIs DEF N, S
<1> QED BY <1>1, <1>2, <1>4, <1>12 DEF S, t

-----------------------------------------------------------------------------
(* What holds at d and is handed on by every hop holds within reach.         *)
LEMMA ReachWithin ==
  ASSUME NEW g, NEW via, NEW d, IsFiniteSet(DOMAIN g), NEW X, d \in X,
         \A u \in X \cap via : g[u] \subseteq X
  PROVE  Reach(g, via, d) \subseteq X
<1> DEFINE N == Cardinality(DOMAIN g)
           B == Ball(g, via, d)
           G == {k \in Nat : k <= N => B[k] \subseteq X}
<1>0. N \in Nat
  BY FS_CardinalityType
<1>1. /\ B[0] = {d}
      /\ \A k \in 0..N : k # 0 => B[k] = B[k - 1] \cup UNION {g[u] : u \in B[k - 1] \cap via}
  BY <1>0, BallGrows
<1> HIDE DEF B, N
<1>2. 0 \in G
  BY <1>1
<1>3. ASSUME NEW k \in Nat, k \in G PROVE k + 1 \in G
  <2> SUFFICES ASSUME k + 1 <= N PROVE B[k + 1] \subseteq X
    OBVIOUS
  <2>1. B[k] \subseteq X
    BY <1>0, <1>3
  <2>2. k + 1 \in 0..N /\ k + 1 # 0 /\ (k + 1) - 1 = k
    BY <1>0
  <2>3. B[k + 1] = B[k] \cup UNION {g[u] : u \in B[k] \cap via}
    BY <1>1, <2>2
  <2> QED
    BY <2>1, <2>3
<1> HIDE DEF G
<1>4. Nat \subseteq G
  BY <1>2, <1>3, NatSetInduction
<1> QED
  BY <1>0, <1>4 DEF G, Reach, B, N

(* Nothing new is found after as many hops as there are switches: a ball     *)
(* that still grows has more switches than hops.                             *)
LEMMA ReachClosed ==
  ASSUME NEW g, NEW via, NEW d \in DOMAIN g, IsFiniteSet(DOMAIN g),
         \A u \in DOMAIN g : g[u] \subseteq DOMAIN g
  PROVE  \A u \in Reach(g, via, d) \cap via : g[u] \subseteq Reach(g, via, d)
<1> DEFINE S == DOMAIN g
           N == Cardinality(S)
           B == Ball(g, via, d)
           Closed(k) == \A u \in B[k] \cap via : g[u] \subseteq B[k]
           G == {k \in Nat : k <= N => Closed(k) \/ Cardinality(B[k]) >= k + 1}
<1>0. N \in Nat
  BY FS_CardinalityType
<1>1. /\ B[0] = {d}
      /\ \A k \in 0..N : k # 0 => B[k] = B[k - 1] \cup UNION {g[u] : u \in B[k - 1] \cap via}
      /\ \A j, k \in 0..N : j <= k => B[j] \subseteq B[k]
  BY <1>0, BallGrows
<1>2. B[N] \subseteq S
  BY ReachWithin DEF Reach
<1> HIDE DEF B, N, S
<1>3. \A k \in 0..N : /\ B[k] \subseteq S /\ IsFiniteSet(B[k]) /\ Cardinality(B[k]) \in Nat
                       /\ Cardinality(B[k]) <= N
  <2> TAKE k \in 0..N
  <2>1. B[k] \subseteq S
    BY <1>0, <1>1, <1>2
  <2> QED
    BY <2>1, FS_Subset, FS_CardinalityType DEF S, N
<1>4. 0 \in G
  <2>1. Cardinality({d}) = 1
    BY FS_Singleton
  <2> HIDE DEF Closed
  <2> QED
    BY <1>1, <2>1
<1>5. ASSUME NEW k \in Nat, k \in G PROVE k + 1 \in G
  <2> SUFFICES ASSUME k + 1 <= N PROVE Closed(k + 1) \/ Cardinality(B[k + 1]) >= (k + 1) + 1
    OBVIOUS
  <2>1. k \in 0..N /\ k + 1 \in 0..N /\ k + 1 # 0 /\ (k + 1) - 1 = k
    BY <1>0
  <2>2. B[k + 1] = B[k] \cup UNION {g[u] : u \in B[k] \cap via} /\ B[k] \subseteq B[k + 1]
    BY <1>1, <2>1
  <2>3. Closed(k) \/ Cardinality(B[k]) >= k + 1
    <3> HIDE DEF Closed
    <3> QED BY <1>0, <1>5, <2>1
  <2>4. CASE B[k + 1] = B[k]
    <3>1. \A u \in B[k + 1] \cap via : g[u] \subseteq B[k + 1]
      BY <2>2, <2>4
    <3> QED
      BY <3>1
  <2>5. CASE B[k + 1] # B[k] /\ Closed(k)
    BY <2>2, <2>5
  <2>6. CASE B[k + 1] # B[k] /\ Cardinality(B[k]) >= k + 1
    <3>1. PICK x \in B[k + 1] : x \notin B[k]
      BY <2>2, <2>6
    <3>2. Cardinality(B[k] \cup {x}) = Cardinality(B[k]) + 1
      BY <1>3, <2>1, <3>1, FS_AddElement
    <3>3. B[k] \cup {x} \subseteq B[k + 1]
      BY <2>2, <3>1
    <3>4. Cardinality(B[k] \cup {x}) <= Cardinality(B[k + 1])
      BY <1>3, <2>1, <3>3, FS_Subset
    <3>5. Cardinality(B[k + 1]) >= (k + 1) + 1
      BY <1>3, <2>1, <2>6, <3>2, <3>4
    <3> QED
      BY <3>5
  <2> HIDE DEF Closed
  <2> QED
    BY <2>3, <2>4, <2>5, <2>6
<1> HIDE DEF G, Closed
<1>6. Nat \subseteq G
  BY <1>4, <1>5, NatSetInduction
<1>7. Closed(N)
  <2>1. Closed(N) \/ Cardinality(B[N]) >= N + 1
    BY <1>0, <1>6 DEF G
  <2>2. N \in 0..N
    BY <1>0
  <2> QED
    BY <1>0, <1>3, <2>1, <2>2
<1> QED
  BY <1>7 DEF Closed, Reach, B, N, S

-----------------------------------------------------------------------------
(* A breadth-first tree hangs every switch it finds below one that is nearer *)
(* to the root.                                                              *)
LEMMA TreeDepth ==
  ASSUME NEW g, NEW bl, IsFiniteSet(DOMAIN g), NEW par \in BreadthFirstTrees(g, bl)
  PROVE  \E depth \in [DOMAIN g -> Nat] :
           \A v \in DOMAIN par : /\ par[v] \in DOMAIN g \ bl /\ v \in g[par[v]] \ bl
                                 /\ v \in DOMAIN g => depth[par[v]] < depth[v]
<1> DEFINE S == DOMAIN g
           N == Cardinality(S)
           Roots == {s \in S : s \notin bl /\ g[s] # {}}
           live == [s \in S |-> g[s] \ bl]
           B == Ball(live, S, Min(Roots))
           Found == B[N]
           Level(v) == {k \in 0..N : v \in B[k]}
           depth == [v \in S |-> IF Level(v) = {} THEN 0
                                 ELSE CHOOSE k \in Level(v) : \A j \in Level(v) : k <= j]
<1>0. N \in Nat /\ DOMAIN live = S
  BY FS_CardinalityType
<1>1. CASE Roots = {}
  <2>1. par = <<>>
    BY <1>1 DEF BreadthFirstTrees
  <2>2. DOMAIN par = {}
    BY <2>1
  <2>3. [v \in S |-> 0] \in [S -> Nat]
    OBVIOUS
  <2> QED
    BY <2>2, <2>3
<1>2. CASE Roots # {}
  <2>1. DOMAIN B = 0..N
    BY <1>0, BallIs DEF IsBall
  <2>2. /\ DOMAIN par = Found \ {Min(Roots)}
        /\ \A v \in DOMAIN par :
             /\ par[v] \in S \ bl /\ v \in g[par[v]] \ bl
             /\ \E k \in 0..N : par[v] \in B[k] /\ v \notin B[k]
    <3>1. par \in {f \in [Found \ {Min(Roots)} -> Found] :
              \A v \in DOMAIN f :
                /\ f[v] \in DOMAIN g \ bl /\ v \in g[f[v]] \ bl
                /\ \E k \in DOMAIN B : f[v] \in B[k] /\ v \notin B[k]}
      BY <1>2 DEF BreadthFirstTrees
    <3> HIDE DEF Found, B, Roots
    <3> QED
      BY <2>1, <3>1
  <2>3. \A j, k \in 0..N : j <= k => B[j] \subseteq B[k]
    BY <1>0, BallGrows
  <2> HIDE DEF B, Roots, live, N
  <2>4. ASSUME NEW v \in S, Level(v) # {}
        PROVE  depth[v] \in Level(v) /\ \A j \in Level(v) : depth[v] <= j
    <3>1. Level(v) \in SUBSET Nat
      BY <1>0
    <3> HIDE DEF Level
    <3>2. \E k \in Level(v) : \A j \in Level(v) : k <= j
      BY <2>4, <3>1, LeastNat
    <3> QED
      BY <2>4, <3>2
  <2>5. depth \in [S -> Nat]
    <3>1. \A v \in S : Level(v) \subseteq Nat
      BY <1>0
    <3>2. \A v \in S : depth[v] \in Nat
      <4> HIDE DEF Level
      <4> QED BY <2>4, <3>1
    <3> QED
      BY <3>2
  <2>6. ASSUME NEW v \in DOMAIN par, v \in S PROVE depth[par[v]] < depth[v]
    <3>1. PICK k \in 0..N : par[v] \in B[k] /\ v \notin B[k]
      BY <2>2
    <3>2. par[v] \in S /\ k \in Level(par[v])
      BY <2>2, <3>1
    <3>3. N \in Level(v)
      BY <1>0, <2>2
    <3>4. depth[par[v]] <= k
      <4> HIDE DEF Level, depth
      <4> QED BY <2>4, <3>2
    <3>5. depth[v] \in Level(v)
      <4> HIDE DEF Level, depth
      <4> QED BY <2>4, <2>6, <3>3
    <3>6. depth[v] \in 0..N /\ v \in B[depth[v]]
      BY <3>5
    <3>7. ~(depth[v] <= k)
      BY <2>3, <3>1, <3>6
    <3>8. depth[v] \in Nat /\ depth[par[v]] \in Nat /\ k \in Nat
      BY <1>0, <2>5, <2>6, <3>2
    <3> HIDE DEF depth
    <3> QED
      BY <3>4, <3>7, <3>8
  <2> HIDE DEF depth
  <2> QED
    BY <2>2, <2>5, <2>6
<1> QED
  BY <1>1, <1>2

(* The switches a breadth-first tree finds are those within reach of its     *)
(* root through unblocked switches.                                          *)
LEMMA TreeFinds ==
  ASSUME NEW g, NEW bl, IsFiniteSet(DOMAIN g), NEW r \in DOMAIN g \ bl,
         \A u \in DOMAIN g : g[u] \subseteq DOMAIN g
  PROVE  Ball([s \in DOMAIN g |-> g[s] \ bl], DOMAIN g, r)[Cardinality(DOMAIN g)]
           = Reach(g, DOMAIN g \ bl, r) \ bl
<1> DEFINE S == DOMAIN g
           N == Cardinality(S)
           live == [s \in S |-> g[s] \ bl]
           A == Ball(live, S, r)
           L == Ball(g, S \ bl, r)
           G == {k \in Nat : k <= N => L[k] \subseteq S /\ A[k] = L[k] \ bl}
<1>0. N \in Nat /\ DOMAIN live = S /\ \A s \in S : live[s] = g[s] \ bl
  BY FS_CardinalityType
<1>1. /\ A[0] = {r}
      /\ \A k \in 0..N : k # 0 => A[k] = A[k - 1] \cup UNION {live[u] : u \in A[k - 1] \cap S}
  <2> HIDE DEF live
  <2> QED BY <1>0, BallGrows
<1>2. /\ L[0] = {r}
      /\ \A k \in 0..N : k # 0 => L[k] = L[k - 1] \cup UNION {g[u] : u \in L[k - 1] \cap (S \ bl)}
  BY <1>0, BallGrows
<1> HIDE DEF A, L, N, live
<1>3. 0 \in G
  BY <1>1, <1>2
<1>4. ASSUME NEW k \in Nat, k \in G PROVE k + 1 \in G
  <2> SUFFICES ASSUME k + 1 <= N PROVE L[k + 1] \subseteq S /\ A[k + 1] = L[k + 1] \ bl
    OBVIOUS
  <2>1. L[k] \subseteq S /\ A[k] = L[k] \ bl
    BY <1>0, <1>4
  <2>2. k + 1 \in 0..N /\ k + 1 # 0 /\ (k + 1) - 1 = k
    BY <1>0
  <2>3. L[k + 1] = L[k] \cup UNION {g[u] : u \in L[k] \cap (S \ bl)}
    BY <1>2, <2>2
  <2>4. A[k + 1] = A[k] \cup UNION {live[u] : u \in A[k] \cap S}
    BY <1>1, <2>2
  <2>5. L[k] \cap (S \ bl) = A[k] /\ A[k] \cap S = A[k] /\ A[k] \subseteq S
    BY <2>1
  <2>6. UNION {live[u] : u \in A[k]} = (UNION {g[u] : u \in A[k]}) \ bl
    BY <1>0, <2>5
  <2> QED
    BY <2>1, <2>3, <2>4, <2>5, <2>6
<1> HIDE DEF G
<1>5. Nat \subseteq G
  BY <1>3, <1>4, NatSetInduction
<1>6. A[N] = L[N] \ bl
  BY <1>0, <1>5 DEF G
<1> QED
  BY <1>6 DEF Reach, A, L, N, live
=============================================================================
