------------------------------ MODULE NatFacts ------------------------------
(* Facts that the proofs of several components share: inductions over the   *)
(* naturals and over the subsets of a finite set, stated for the set of     *)
(* values that have the property, and sums of functions.                    *)
EXTENDS Integers, Functions, FiniteSetTheorems, WellFoundedInduction, TLAPS

(* A non-empty set of naturals has a least element.                         *)
LEMMA LeastNat ==
  ASSUME NEW F, F \subseteq Nat, F # {}
  PROVE  \E k \in F : \A l \in F : k <= l
<1> DEFINE R == OpToRel(<, Nat)
<1>1. IsWellFoundedOn(R, Nat)
  BY NatLessThanWellFounded
<1>2. \A x, y \in Nat : x < y => <<x, y>> \in R
  BY DEF OpToRel
<1> HIDE DEF R
<1>3. PICK k \in F : \A l \in F : ~ (<<l, k>> \in R)
  BY <1>1, WFMin
<1>4. ASSUME NEW l \in F PROVE k <= l
  <2>1. k \in Nat /\ l \in Nat
    OBVIOUS
  <2>2. ~ (l < k)
    BY <1>2, <1>3, <2>1
  <2> QED
    BY <2>1, <2>2
<1> QED
  BY <1>4

(* A property that holds of 0 and of n with n - 1 holds of all numbers.     *)
LEMMA NatInductionOnSet ==
  ASSUME NEW W \in Nat, NEW P, 0 \in P, \A n \in 1..W : n - 1 \in P => n \in P
  PROVE  0..W \subseteq P
<1> DEFINE F == {n \in 0..W : n \notin P}
<1>1. CASE F = {}
  BY <1>1
<1>2. CASE F # {}
  <2>1. F \subseteq Nat
    OBVIOUS
  <2>2. PICK k \in F : \A l \in F : k <= l
    <3> HIDE DEF F
    <3> QED
      BY <1>2, <2>1, LeastNat
  <2>3. k \in 1..W /\ k - 1 \in 0..W /\ ~ (k <= k - 1)
    BY <2>2
  <2>4. k - 1 \in P
    BY <2>2, <2>3
  <2> QED
    BY <2>2, <2>3, <2>4
<1> QED
  BY <1>1, <1>2

(* A set without one of its elements.                                       *)
LEMMA OneLess ==
  ASSUME NEW D, IsFiniteSet(D), NEW s \in SUBSET D
  PROVE  /\ IsFiniteSet(s) /\ Cardinality(s) \in 0..Cardinality(D)
         /\ \A x \in s : /\ s \ {x} \in SUBSET D
                         /\ Cardinality(s) # 0
                         /\ Cardinality(s \ {x}) = Cardinality(s) - 1
<1>1. IsFiniteSet(s) /\ Cardinality(s) <= Cardinality(D)
  BY FS_Subset
<1>2. Cardinality(s) \in Nat /\ Cardinality(D) \in Nat
  BY <1>1, FS_CardinalityType
<1>3. \A x \in s : Cardinality(s \ {x}) = Cardinality(s) - 1
  BY <1>1, FS_RemoveElement
<1>4. \A x \in s : Cardinality(s) # 0
  BY <1>1, FS_EmptySet
<1> QED
  BY <1>1, <1>2, <1>3, <1>4

(* A property that a set has when it has lost any one element, and that has *)
(* the property then, holds of all subsets of a finite set.                 *)
LEMMA SubsetInduction ==
  ASSUME NEW D, IsFiniteSet(D), NEW P,
         \A s \in SUBSET D : (\A x \in s : s \ {x} \in P) => s \in P
  PROVE  SUBSET D \subseteq P
<1> DEFINE W == Cardinality(D)
           Q == {n \in 0..W : \A s \in SUBSET D : Cardinality(s) = n => s \in P}
<1>1. W \in Nat
  BY FS_CardinalityType
<1>2. 0 \in Q
  <2>1. ASSUME NEW s \in SUBSET D, Cardinality(s) = 0 PROVE s \in P
    BY <2>1, OneLess
  <2> QED
    BY <1>1, <2>1
<1>3. ASSUME NEW n \in 1..W, n - 1 \in Q PROVE n \in Q
  <2>1. ASSUME NEW s \in SUBSET D, Cardinality(s) = n PROVE s \in P
    <3>1. ASSUME NEW x \in s PROVE s \ {x} \in P
      <4>1. s \ {x} \in SUBSET D /\ Cardinality(s \ {x}) = n - 1
        BY <2>1, OneLess
      <4> QED
        BY <1>3, <4>1
    <3> QED
      BY <3>1
  <2> QED
    BY <2>1
<1> HIDE DEF Q
<1>4. 0..W \subseteq Q
  BY <1>1, <1>2, <1>3, NatInductionOnSet
<1>5. ASSUME NEW s \in SUBSET D PROVE s \in P
  <2>1. Cardinality(s) \in Q
    BY <1>4, OneLess
  <2> QED
    BY <2>1 DEF Q
<1> QED
  BY <1>5

-----------------------------------------------------------------------------
(* Sums of functions, as module Functions of the community modules computes *)
(* them: element by element, each time a chosen one.                        *)
Pick(s)       == CHOOSE x \in s : TRUE
SumStep(f, g, s) == IF s = {} THEN 0 ELSE f[Pick(s)] + g[s \ {Pick(s)}]
NatOn(f, D)   == IsFiniteSet(D) /\ \A x \in D : f[x] \in Nat

(* The element taken is one of the set.                                     *)
LEMMA PickIn == ASSUME NEW s, s # {} PROVE Pick(s) \in s
BY DEF Pick

(* The partial sums exist.                                                  *)
LEMMA SetSumsExist ==
  ASSUME NEW f, NEW D, NatOn(f, D)
  PROVE  \E g \in [SUBSET D -> Nat] : \A s \in SUBSET D : g[s] = SumStep(f, g, s)
<1> DEFINE W == Cardinality(D)
           Upto(n) == {s \in SUBSET D : Cardinality(s) <= n}
           Sums(n, g) == \A s \in Upto(n) : g[s] = SumStep(f, g, s)
           P == {n \in 0..W : \E g \in [Upto(n) -> Nat] : Sums(n, g)}
<1>0. IsFiniteSet(D) /\ W \in Nat
  BY FS_CardinalityType DEF NatOn
<1>1. \A s \in SUBSET D : Cardinality(s) \in 0..W
  BY <1>0, OneLess
<1>2. 0 \in P
  <2>1. ASSUME NEW s \in Upto(0) PROVE s = {}
    <3>1. IsFiniteSet(s) /\ Cardinality(s) = 0
      BY <1>0, <1>1, OneLess
    <3> QED
      BY <3>1, FS_EmptySet
  <2>2. [s \in Upto(0) |-> 0] \in [Upto(0) -> Nat] /\ Sums(0, [s \in Upto(0) |-> 0])
    BY <2>1 DEF SumStep
  <2>3. 0 \in 0..W
    BY <1>0
  <2> HIDE DEF Sums, Upto
  <2> QED
    BY <2>2, <2>3
<1>3. ASSUME NEW n \in 1..W, n - 1 \in P PROVE n \in P
  <2>1. PICK g \in [Upto(n - 1) -> Nat] : Sums(n - 1, g)
    BY <1>3
  <2> DEFINE h == [s \in Upto(n) |-> SumStep(f, g, s)]
  <2>2. ASSUME NEW s \in Upto(n), s # {}
        PROVE  Pick(s) \in D /\ s \ {Pick(s)} \in Upto(n - 1)
    <3>1. Pick(s) \in s /\ Cardinality(s) \in 0..W /\ Cardinality(s) <= n
      BY <1>1, <2>2, PickIn
    <3>2. s \ {Pick(s)} \in SUBSET D /\ Cardinality(s \ {Pick(s)}) = Cardinality(s) - 1
      BY <1>0, <3>1, OneLess
    <3>3. Cardinality(s \ {Pick(s)}) <= n - 1
      BY <3>1, <3>2
    <3> QED
      BY <3>1, <3>2, <3>3
  <2>3. ASSUME NEW s \in Upto(n) PROVE SumStep(f, g, s) \in Nat
    <3>1. CASE s = {}
      BY <3>1 DEF SumStep
    <3>2. CASE s # {}
      <4>1. f[Pick(s)] \in Nat /\ g[s \ {Pick(s)}] \in Nat
        <5> HIDE DEF Upto
        <5> QED
          BY <2>1, <2>2, <3>2 DEF NatOn
      <4> QED
        BY <3>2, <4>1 DEF SumStep
    <3> QED
      BY <3>1, <3>2
  <2>4. h \in [Upto(n) -> Nat]
    BY <2>3
  <2>5. \A s \in Upto(n - 1) : s \in Upto(n) /\ h[s] = g[s]
    <3>1. \A s \in Upto(n - 1) : s \in Upto(n)
      BY <1>1
    <3> HIDE DEF Upto
    <3> QED
      BY <2>1, <3>1
  <2>6. Sums(n, h)
    <3>1. ASSUME NEW s \in Upto(n) PROVE h[s] = SumStep(f, h, s)
      <4>1. h[s] = SumStep(f, g, s)
        OBVIOUS
      <4> HIDE DEF h, Upto
      <4>2. CASE s = {}
        BY <4>1, <4>2 DEF SumStep
      <4>3. CASE s # {}
        BY <4>1, <4>3, <2>2, <2>5 DEF SumStep
      <4> QED
        BY <4>2, <4>3
    <3> HIDE DEF h
    <3> QED
      BY <3>1
  <2>7. n \in 0..W
    BY <1>0
  <2> HIDE DEF h, Sums, Upto
  <2> QED
    BY <2>4, <2>6, <2>7
<1> HIDE DEF P
<1>4. 0..W \subseteq P
  <2> HIDE DEF W
  <2> QED
    BY <1>0, <1>2, <1>3, NatInductionOnSet
<1>5. W \in P
  BY <1>0, <1>4
<1>6. Upto(W) = SUBSET D
  BY <1>0, <1>1
<1>7. PICK g \in [Upto(W) -> Nat] : Sums(W, g)
  <2> HIDE DEF Sums, Upto
  <2> QED
    BY <1>5 DEF P
<1> HIDE DEF Upto
<1> QED
  BY <1>6, <1>7

(* The sum over a set is the step from that over the set with one less.     *)
LEMMA SumIsStep ==
  ASSUME NEW f, NEW D, NatOn(f, D)
  PROVE  \E g \in [SUBSET D -> Nat] :
           /\ \A s \in SUBSET D : g[s] = SumStep(f, g, s)
           /\ \A s \in SUBSET D : SumFunctionOnSet(f, s) = g[s]
<1>1. PICK g \in [SUBSET D -> Nat] : \A s \in SUBSET D : g[s] = SumStep(f, g, s)
  BY SetSumsExist
<1>2. ASSUME NEW s \in SUBSET D PROVE SumFunctionOnSet(f, s) = g[s]
  <2> DEFINE k == [t \in SUBSET s |-> g[t]]
             Rec(h) == h = [t \in SUBSET s |-> IF t = {} THEN 0 ELSE f[Pick(t)] + h[t \ {Pick(t)}]]
  <2>1. Rec(k)
    <3>1. ASSUME NEW t \in SUBSET s
          PROVE  k[t] = IF t = {} THEN 0 ELSE f[Pick(t)] + k[t \ {Pick(t)}]
      <4>1. t \in SUBSET D /\ t \ {Pick(t)} \in SUBSET s
        OBVIOUS
      <4> QED
        BY <1>1, <4>1 DEF SumStep
    <3> QED
      BY <3>1
  <2>2. PICK h : Rec(h) /\ SumFunctionOnSet(f, s) = h[s]
    <3> DEFINE c == CHOOSE h : Rec(h)
    <3>1. Rec(c)
      <4> HIDE DEF Rec, k
      <4> QED
        BY <2>1
    <3>2. SumFunctionOnSet(f, s) = c[s]
      BY DEF SumFunctionOnSet, FoldFunctionOnSet, MapThenFoldSet, Pick
    <3> HIDE DEF c, Rec
    <3> QED
      BY <3>1, <3>2
  <2> DEFINE P == {t \in SUBSET s : h[t] = g[t]}
  <2>3. ASSUME NEW t \in SUBSET s, \A x \in t : t \ {x} \in P PROVE t \in P
    <3>1. h[t] = IF t = {} THEN 0 ELSE f[Pick(t)] + h[t \ {Pick(t)}]
      BY <2>2
    <3>2. g[t] = IF t = {} THEN 0 ELSE f[Pick(t)] + g[t \ {Pick(t)}]
      BY <1>1 DEF SumStep
    <3>3. CASE t # {}
      <4>1. h[t \ {Pick(t)}] = g[t \ {Pick(t)}]
        BY <2>3, <3>3, PickIn
      <4> QED
        BY <3>1, <3>2, <3>3, <4>1
    <3> QED
      BY <3>1, <3>2, <3>3
  <2>4. IsFiniteSet(s)
    BY FS_Subset DEF NatOn
  <2> HIDE DEF P
  <2>5. SUBSET s \subseteq P
    BY <2>3, <2>4, SubsetInduction
  <2>6. s \in P
    BY <2>5
  <2> QED
    BY <2>2, <2>6 DEF P
<1> QED
  BY <1>1, <1>2

(* The sum of the empty set, and the sum of a set and of the set without    *)
(* any one of its elements.                                                 *)
LEMMA SumRemove ==
  ASSUME NEW f, NEW D, NatOn(f, D)
  PROVE  /\ SumFunctionOnSet(f, {}) = 0
         /\ \A s \in SUBSET D : SumFunctionOnSet(f, s) \in Nat
         /\ \A s \in SUBSET D : \A x \in s :
              SumFunctionOnSet(f, s) = f[x] + SumFunctionOnSet(f, s \ {x})
<1>1. PICK g :
        /\ \A s \in SUBSET D : g[s] \in Nat /\ g[s] = SumStep(f, g, s)
        /\ \A s \in SUBSET D : SumFunctionOnSet(f, s) = g[s]
  <2>1. PICK g \in [SUBSET D -> Nat] :
          /\ \A s \in SUBSET D : g[s] = SumStep(f, g, s)
          /\ \A s \in SUBSET D : SumFunctionOnSet(f, s) = g[s]
    BY SumIsStep
  <2>2. \A s \in SUBSET D : g[s] \in Nat
    OBVIOUS
  <2> QED
    BY <2>1, <2>2
<1>2. g[{}] = 0
  <2>1. {} \in SUBSET D
    OBVIOUS
  <2> QED
    BY <1>1, <2>1 DEF SumStep
<1> DEFINE P == {s \in SUBSET D : \A x \in s : g[s] = f[x] + g[s \ {x}]}
<1>3. ASSUME NEW s \in SUBSET D, \A x \in s : s \ {x} \in P PROVE s \in P
  <2>1. ASSUME NEW x \in s PROVE g[s] = f[x] + g[s \ {x}]
    <3> DEFINE y == Pick(s)
    <3>1. y \in s /\ g[s] = f[y] + g[s \ {y}]
      BY <1>1, PickIn DEF SumStep
    <3>2. CASE x = y
      BY <3>1, <3>2
    <3>3. CASE x # y
      <4> HIDE DEF y
      <4>1. g[s \ {y}] = f[x] + g[(s \ {y}) \ {x}]
        BY <1>3, <3>1, <3>3
      <4>2. g[s \ {x}] = f[y] + g[(s \ {x}) \ {y}]
        BY <1>3, <3>1, <3>3
      <4>3. (s \ {y}) \ {x} = (s \ {x}) \ {y}
        OBVIOUS
      <4>4. (s \ {x}) \ {y} \in SUBSET D
        OBVIOUS
      <4>5. g[(s \ {x}) \ {y}] \in Nat
        BY <1>1, <4>4
      <4>6. f[x] \in Nat /\ f[y] \in Nat
        BY <3>1 DEF NatOn
      <4> DEFINE r == g[(s \ {x}) \ {y}]
      <4>7. g[s] = f[y] + (f[x] + r) /\ g[s \ {x}] = f[y] + r
        BY <3>1, <4>1, <4>2, <4>3
      <4>8. r \in Nat
        BY <4>5
      <4> HIDE DEF r
      <4> QED
        BY <4>6, <4>7, <4>8
    <3> QED
      BY <3>2, <3>3
  <2> QED
    BY <2>1
<1> HIDE DEF P
<1>4. SUBSET D \subseteq P
  <2>1. IsFiniteSet(D)
    BY DEF NatOn
  <2>2. \A s \in SUBSET D : (\A x \in s : s \ {x} \in P) => s \in P
    BY <1>3
  <2> QED
    BY <2>1, <2>2, SubsetInduction
<1>5. \A s \in SUBSET D : \A x \in s : s \ {x} \in SUBSET D /\ g[s] = f[x] + g[s \ {x}]
  BY <1>4 DEF P
<1>6. {} \in SUBSET D /\ SumFunctionOnSet(f, {}) = g[{}]
  BY <1>1
<1>7. ASSUME NEW s \in SUBSET D, NEW x \in s
      PROVE  SumFunctionOnSet(f, s) = f[x] + SumFunctionOnSet(f, s \ {x})
  <2>1. SumFunctionOnSet(f, s) = g[s] /\ SumFunctionOnSet(f, s \ {x}) = g[s \ {x}]
    BY <1>1, <1>5
  <2> QED
    BY <1>5, <2>1
<1>8. \A s \in SUBSET D : SumFunctionOnSet(f, s) \in Nat
  BY <1>1
<1> QED
  BY <1>2, <1>6, <1>7, <1>8

(* A sum of smaller terms is no larger; equal terms have equal sums.        *)
LEMMA SumMonotone ==
  ASSUME NEW f, NEW g, NEW D, NatOn(f, D), NatOn(g, D), \A x \in D : f[x] <= g[x]
  PROVE  SumFunctionOnSet(f, D) <= SumFunctionOnSet(g, D)
<1> DEFINE Sf(s) == SumFunctionOnSet(f, s)
           Sg(s) == SumFunctionOnSet(g, s)
           P == {s \in SUBSET D : Sf(s) <= Sg(s)}
<1>1. Sf({}) = 0 /\ \A s \in SUBSET D : Sf(s) \in Nat /\ \A x \in s : Sf(s) = f[x] + Sf(s \ {x})
  BY SumRemove
<1>2. Sg({}) = 0 /\ \A s \in SUBSET D : Sg(s) \in Nat /\ \A x \in s : Sg(s) = g[x] + Sg(s \ {x})
  BY SumRemove
<1> HIDE DEF Sf, Sg
<1>3. ASSUME NEW s \in SUBSET D, \A x \in s : s \ {x} \in P PROVE s \in P
  <2>1. CASE s = {}
    BY <1>1, <1>2, <2>1
  <2>2. CASE s # {}
    <3>1. PICK x \in s : TRUE
      BY <2>2
    <3>2. s \ {x} \in SUBSET D /\ Sf(s \ {x}) <= Sg(s \ {x})
      BY <1>3
    <3>3. f[x] \in Nat /\ g[x] \in Nat /\ f[x] <= g[x]
      BY DEF NatOn
    <3>4. Sf(s \ {x}) \in Nat /\ Sg(s \ {x}) \in Nat
      BY <1>1, <1>2, <3>2
    <3>5. Sf(s) = f[x] + Sf(s \ {x}) /\ Sg(s) = g[x] + Sg(s \ {x})
      BY <1>1, <1>2
    <3> QED
      BY <3>2, <3>3, <3>4, <3>5
  <2> QED
    BY <2>1, <2>2
<1> HIDE DEF P
<1>4. SUBSET D \subseteq P
  BY <1>3, SubsetInduction DEF NatOn
<1>5. D \in P
  BY <1>4
<1> QED
  BY <1>5 DEF P, Sf, Sg

(* Equal terms have equal sums.                                             *)
LEMMA SumSame ==
  ASSUME NEW f, NEW g, NEW D, NatOn(f, D), \A x \in D : f[x] = g[x]
  PROVE  SumFunctionOnSet(f, D) = SumFunctionOnSet(g, D)
<1>1. NatOn(g, D)
  BY DEF NatOn
<1>2. \A x \in D : f[x] <= g[x] /\ g[x] <= f[x]
  BY DEF NatOn
<1>3. SumFunctionOnSet(f, D) <= SumFunctionOnSet(g, D)
  BY <1>1, <1>2, SumMonotone
<1>4. SumFunctionOnSet(g, D) <= SumFunctionOnSet(f, D)
  BY <1>1, <1>2, SumMonotone
<1>5. SumFunctionOnSet(f, D) \in Nat /\ SumFunctionOnSet(g, D) \in Nat
  BY <1>1, SumRemove
<1> QED
  BY <1>3, <1>4, <1>5

(* One term grows by c: so does the sum.                                    *)
LEMMA SumGrows ==
  ASSUME NEW f, NEW g, NEW D, NatOn(f, D), NEW y \in D, NEW c \in Nat,
         g[y] = f[y] + c, \A x \in D \ {y} : g[x] = f[x]
  PROVE  SumFunctionOnSet(g, D) = SumFunctionOnSet(f, D) + c
<1>1. NatOn(g, D) /\ NatOn(f, D \ {y})
  <2>1. IsFiniteSet(D \ {y})
    BY FS_Subset DEF NatOn
  <2>2. \A x \in D : g[x] \in Nat
    BY DEF NatOn
  <2> QED
    BY <2>1, <2>2 DEF NatOn
<1>2. SumFunctionOnSet(f, D) = f[y] + SumFunctionOnSet(f, D \ {y})
  BY SumRemove
<1>3. SumFunctionOnSet(g, D) = g[y] + SumFunctionOnSet(g, D \ {y})
  BY <1>1, SumRemove
<1>4. SumFunctionOnSet(f, D \ {y}) = SumFunctionOnSet(g, D \ {y})
  BY <1>1, SumSame
<1>5. SumFunctionOnSet(f, D \ {y}) \in Nat /\ f[y] \in Nat
  BY <1>1, SumRemove DEF NatOn
<1> QED
  BY <1>2, <1>3, <1>4, <1>5
(* A sum of zeros is zero.                                                  *)
LEMMA SumOfZeros ==
  ASSUME NEW f, NEW D, IsFiniteSet(D), \A x \in D : f[x] = 0
  PROVE  SumFunctionOnSet(f, D) = 0
<1> DEFINE Sf(s) == SumFunctionOnSet(f, s)
           P == {s \in SUBSET D : Sf(s) = 0}
<1>1. NatOn(f, D)
  BY DEF NatOn
<1>2. Sf({}) = 0 /\ \A s \in SUBSET D : \A x \in s : Sf(s) = f[x] + Sf(s \ {x})
  BY <1>1, SumRemove
<1> HIDE DEF Sf
<1>3. ASSUME NEW s \in SUBSET D, \A x \in s : s \ {x} \in P PROVE s \in P
  <2>1. CASE s = {}
    BY <1>2, <2>1
  <2>2. CASE s # {}
    <3>1. PICK x \in s : TRUE
      BY <2>2
    <3>2. Sf(s \ {x}) = 0 /\ f[x] = 0
      BY <1>3
    <3>3. Sf(s) = f[x] + Sf(s \ {x})
      BY <1>2
    <3> QED
      BY <3>2, <3>3
  <2> QED
    BY <2>1, <2>2
<1> HIDE DEF P
<1>4. SUBSET D \subseteq P
  BY <1>3, SubsetInduction
<1>5. D \in P
  BY <1>4
<1> QED
  BY <1>5 DEF P, Sf

=============================================================================
