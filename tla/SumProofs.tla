------------------------------ MODULE SumProofs ------------------------------
(***************************************************************************)
(* What SumFunctionOnSet of the community modules computes over a finite   *)
(* set: nothing over the empty set, any element can be taken out, and when *)
(* one value changes the sum changes by as much.  The library's induction  *)
(* theorems take an operator; here a smallest counterexample does instead. *)
(***************************************************************************)
EXTENDS Integers, FiniteSets, Functions, WellFoundedInduction, FiniteSetTheorems, TLAPS

\* A set of natural numbers has a least one.
LEMMA LeastNatural ==
    ASSUME NEW T, T \subseteq Nat, T # {}
    PROVE  \E n \in T : \A m \in T : n <= m
<1>1. PICK n \in T : \A m \in T : <<m, n>> \notin OpToRel(<, Nat)
  BY WFMin, NatLessThanWellFounded, Zenon
<1>2. \A m \in T : ~(m < n)
  BY <1>1, Zenon DEF OpToRel
<1>3. QED BY <1>2

\* A set of finite sets has a smallest one.
LEMMA SmallestSet ==
    ASSUME NEW X, X # {}, \A S \in X : IsFiniteSet(S)
    PROVE  \E S \in X : \A T \in X : ~(T \subseteq S /\ T # S)
<1> DEFINE sizes == {Cardinality(S) : S \in X}
<1>1. sizes \subseteq Nat /\ sizes # {}
  BY FS_CardinalityType
<1> HIDE DEF sizes
<1>2. PICK n \in sizes : \A m \in sizes : n <= m
  BY <1>1, LeastNatural
<1>3. PICK S \in X : Cardinality(S) = n
  BY <1>2 DEF sizes
<1>4. ASSUME NEW T \in X, T \subseteq S, T # S PROVE FALSE
  <2>1. IsFiniteSet(S)
    OBVIOUS
  <2>2. Cardinality(T) \in Nat /\ Cardinality(S) \in Nat /\ Cardinality(T) < Cardinality(S)
    BY <1>4, <2>1, FS_Subset, FS_CardinalityType
  <2>3. Cardinality(T) \in sizes
    BY DEF sizes
  <2>4. n <= Cardinality(T)
    BY <1>2, <2>3
  <2>5. QED BY <1>3, <2>2, <2>4
<1>5. QED BY <1>4

Pick(s) == CHOOSE x \in s : TRUE

\* g adds up f over every subset of S, one element at a time.
Adds(g, f, S) ==
    /\ IsFiniteSet(S)
    /\ \A x \in S : f[x] \in Int
    /\ g = [s \in SUBSET S |-> IF s = {} THEN 0 ELSE f[Pick(s)] + g[s \ {Pick(s)}]]

\* What it makes of a set does not depend on the order.
AnyOrder(g, f, S) ==
    /\ g[{}] = 0
    /\ g \in [SUBSET S -> Int]
    /\ \A s \in SUBSET S, x \in S : x \in s => g[s] = f[x] + g[s \ {x}]

LEMMA Picked == \A s : s # {} => Pick(s) \in s
  BY DEF Pick

\* Such a function exists.
LEMMA AddsExists ==
    ASSUME NEW S, IsFiniteSet(S), NEW f, \A x \in S : f[x] \in Int
    PROVE  \E g : Adds(g, f, S)
<1> DEFINE Up(n, g) == \A s \in SUBSET S : Cardinality(s) <= n =>
               g[s] = IF s = {} THEN 0 ELSE f[Pick(s)] + g[s \ {Pick(s)}]
           bad == {n \in Nat : ~ \E g \in [SUBSET S -> Int] : Up(n, g)}
<1>1. \A s \in SUBSET S : IsFiniteSet(s) /\ Cardinality(s) \in Nat
  BY FS_Subset, FS_CardinalityType
<1>2. \A s \in SUBSET S : s # {} =>
         /\ Pick(s) \in S /\ s \ {Pick(s)} \in SUBSET S
         /\ Cardinality(s \ {Pick(s)}) = Cardinality(s) - 1
         /\ Cardinality(s) # 0
  BY <1>1, Picked, FS_RemoveElement, FS_EmptySet
<1>3. bad = {}
  <2>1. SUFFICES ASSUME bad # {} PROVE FALSE
    OBVIOUS
  <2>2. PICK n \in bad : \A m \in bad : n <= m
    BY <2>1, LeastNatural
  <2>3. n # 0
    <3> DEFINE zero == [s \in SUBSET S |-> 0]
    <3>1. zero \in [SUBSET S -> Int]
      OBVIOUS
    <3>2. \A s \in SUBSET S : Cardinality(s) <= 0 => s = {}
      <4>1. ASSUME NEW s \in SUBSET S, Cardinality(s) <= 0, s # {} PROVE FALSE
        <5>1. Cardinality(s) \in Nat /\ Cardinality(s) # 0
          BY <1>1, <1>2, <4>1
        <5>2. QED BY <4>1, <5>1
      <4>2. QED BY <4>1
    <3>3. Up(0, zero)
      BY <3>2
    <3> HIDE DEF zero, Up
    <3>4. QED BY <3>1, <3>3
  <2>4. n \in Nat /\ n - 1 \in Nat /\ n - 1 \notin bad
    <3>1. n \in Nat
      OBVIOUS
    <3> HIDE DEF bad
    <3>2. QED BY <2>2, <2>3, <3>1
  <2>5. PICK g \in [SUBSET S -> Int] : Up(n - 1, g)
    BY <2>4
  <2> DEFINE h == [s \in SUBSET S |-> IF Cardinality(s) = n
                                      THEN f[Pick(s)] + g[s \ {Pick(s)}] ELSE g[s]]
  <2>6. h \in [SUBSET S -> Int]
    <3>1. ASSUME NEW s \in SUBSET S PROVE h[s] \in Int
      <4>1. CASE Cardinality(s) = n
        <5>1. s # {}
          BY <4>1, <2>3, FS_EmptySet
        <5>2. QED BY <5>1, <4>1, <1>2
      <4>2. QED BY <4>1
    <3>2. QED BY <3>1
  <2>7. Up(n, h)
    <3>1. ASSUME NEW s \in SUBSET S, Cardinality(s) <= n
          PROVE  h[s] = IF s = {} THEN 0 ELSE f[Pick(s)] + h[s \ {Pick(s)}]
      <4>1. CASE s = {}
        BY <4>1, <2>3, <2>4, <2>5, FS_EmptySet
      <4>2. CASE s # {}
        <5>1. s \ {Pick(s)} \in SUBSET S /\ Cardinality(s \ {Pick(s)}) = Cardinality(s) - 1
          BY <4>2, <1>2
        <5>2. h[s \ {Pick(s)}] = g[s \ {Pick(s)}]
          BY <5>1, <3>1, <1>1, <2>4
        <5>3. CASE Cardinality(s) = n
          BY <5>2, <5>3, <4>2
        <5>4. CASE Cardinality(s) # n
          <6>1. Cardinality(s) <= n - 1
            BY <5>4, <3>1, <1>1, <2>4
          <6>2. g[s] = f[Pick(s)] + g[s \ {Pick(s)}]
            BY <6>1, <2>5, <4>2
          <6>3. QED BY <6>2, <5>2, <5>4, <4>2
        <5>5. QED BY <5>3, <5>4
      <4>3. QED BY <4>1, <4>2
    <3>2. QED BY <3>1
  <2>8. QED BY <2>2, <2>4, <2>6, <2>7
<1>4. Cardinality(S) \in Nat
  BY FS_CardinalityType
<1>5. PICK g \in [SUBSET S -> Int] : Up(Cardinality(S), g)
  BY <1>3, <1>4
<1>6. \A s \in SUBSET S : Cardinality(s) <= Cardinality(S)
  BY FS_Subset
<1>7. g = [s \in SUBSET S |-> IF s = {} THEN 0 ELSE f[Pick(s)] + g[s \ {Pick(s)}]]
  BY <1>5, <1>6
<1>8. QED BY <1>7 DEF Adds

\* Whatever adds up f takes its elements in any order.
LEMMA AddsAnyOrder ==
    ASSUME NEW S, NEW f, NEW g, Adds(g, f, S)
    PROVE  AnyOrder(g, f, S)
<1> IsFiniteSet(S) /\ \A x \in S : f[x] \in Int
  BY DEF Adds
<1>1. g = [s \in SUBSET S |-> IF s = {} THEN 0 ELSE f[Pick(s)] + g[s \ {Pick(s)}]]
  BY DEF Adds
<1>2. g[{}] = 0 /\ \A s \in SUBSET S : s # {} => g[s] = f[Pick(s)] + g[s \ {Pick(s)}]
  BY <1>1
<1>3. \A s \in SUBSET S : s # {} =>
         /\ Pick(s) \in s
         /\ s \ {Pick(s)} \in SUBSET S
  BY Picked
<1>4. \A s \in SUBSET S : IsFiniteSet(s)
  BY FS_Subset
<1>5. g \in [SUBSET S -> Int]
  <2> DEFINE bad == {s \in SUBSET S : g[s] \notin Int}
  <2>1. \A s : s \in bad <=> s \in SUBSET S /\ g[s] \notin Int
    OBVIOUS
  <2> HIDE DEF bad
  <2>2. bad = {}
    <3>1. SUFFICES ASSUME bad # {} PROVE FALSE
      OBVIOUS
    <3>2. \A s \in bad : IsFiniteSet(s)
      BY <1>4, <2>1
    <3>3. PICK s \in bad : \A t \in bad : ~(t \subseteq s /\ t # s)
      BY <3>1, <3>2, SmallestSet
    <3>4. s \in SUBSET S /\ g[s] \notin Int
      BY <2>1
    <3>5. s # {}
      <4>1. ASSUME s = {} PROVE FALSE
        BY <4>1, <3>4, <1>2
      <4>2. QED BY <4>1
    <3>6. g[s] = f[Pick(s)] + g[s \ {Pick(s)}] /\ f[Pick(s)] \in Int
      BY <3>4, <3>5, <1>2, <1>3
    <3>7. s \ {Pick(s)} \notin bad
      BY <3>3, <3>5, <3>4, <1>3
    <3>8. g[s \ {Pick(s)}] \in Int
      BY <3>7, <3>4, <3>5, <2>1, <1>3
    <3>9. QED BY <3>4, <3>6, <3>8
  <2>3. QED BY <1>1, <2>1, <2>2
<1>6. \A s \in SUBSET S : \A x \in s : g[s] = f[x] + g[s \ {x}]
  <2> DEFINE bad == {s \in SUBSET S : ~ \A x \in s : g[s] = f[x] + g[s \ {x}]}
  <2>1. \A s : s \in bad <=> s \in SUBSET S /\ ~ \A x \in s : g[s] = f[x] + g[s \ {x}]
    OBVIOUS
  <2> HIDE DEF bad
  <2>2. bad = {}
    <3>1. SUFFICES ASSUME bad # {} PROVE FALSE
      OBVIOUS
    <3>2. \A s \in bad : IsFiniteSet(s)
      BY <1>4, <2>1
    <3>3. PICK s \in bad : \A t \in bad : ~(t \subseteq s /\ t # s)
      BY <3>1, <3>2, SmallestSet
    <3>4. s \in SUBSET S /\ \E x \in s : g[s] # f[x] + g[s \ {x}]
      BY <2>1
    <3>5. PICK x \in s : g[s] # f[x] + g[s \ {x}]
      BY <3>4
    <3> DEFINE c == Pick(s)
    <3>6. c \in s /\ g[s] = f[c] + g[s \ {c}] /\ c # x
      BY <1>2, <1>3, <3>4, <3>5
    <3> HIDE DEF c
    <3>7. /\ s \ {c} \in SUBSET S /\ s \ {c} \notin bad /\ x \in s \ {c}
          /\ s \ {x} \in SUBSET S /\ s \ {x} \notin bad /\ c \in s \ {x}
      BY <3>3, <3>4, <3>6
    <3>8. g[s \ {c}] = f[x] + g[(s \ {c}) \ {x}] /\ g[s \ {x}] = f[c] + g[(s \ {x}) \ {c}]
      BY <3>7, <2>1
    <3>9. (s \ {c}) \ {x} = (s \ {x}) \ {c}
      OBVIOUS
    <3> DEFINE rest == g[(s \ {c}) \ {x}]
    <3>10. f[x] \in Int /\ f[c] \in Int /\ rest \in Int
      BY <3>4, <3>6, <3>7, <1>5
    <3>11. g[s] = f[c] + (f[x] + rest) /\ g[s] # f[x] + (f[c] + rest)
      BY <3>5, <3>6, <3>8, <3>9
    <3> HIDE DEF rest
    <3>12. QED BY <3>10, <3>11
  <2>3. QED BY <2>1, <2>2
<1>7. QED BY <1>2, <1>5, <1>6 DEF AnyOrder

\* Two functions that add up what agrees on S are equal on S.
LEMMA AddsUnique ==
    ASSUME NEW S, NEW f, NEW g, Adds(g, f, S), NEW R, NEW h, NEW k, Adds(k, h, R),
           S \subseteq R, \A x \in S : f[x] = h[x]
    PROVE  g[S] = k[S]
<1>0. AnyOrder(g, f, S) /\ AnyOrder(k, h, R)
  BY AddsAnyOrder
<1> IsFiniteSet(S) /\ \A x \in S : f[x] \in Int
  BY DEF Adds
<1>1. /\ g[{}] = 0 /\ g \in [SUBSET S -> Int]
      /\ \A s \in SUBSET S, x \in S : x \in s => g[s] = f[x] + g[s \ {x}]
  BY <1>0 DEF AnyOrder
<1>2. /\ k[{}] = 0 /\ k \in [SUBSET R -> Int]
      /\ \A s \in SUBSET R, x \in R : x \in s => k[s] = h[x] + k[s \ {x}]
  BY <1>0 DEF AnyOrder
<1> DEFINE bad == {s \in SUBSET S : g[s] # k[s]}
<1>3. \A s : s \in bad <=> s \in SUBSET S /\ g[s] # k[s]
  OBVIOUS
<1> HIDE DEF bad
<1>4. bad = {}
  <2>1. SUFFICES ASSUME bad # {} PROVE FALSE
    OBVIOUS
  <2>2. \A s \in bad : IsFiniteSet(s)
    BY <1>3, FS_Subset
  <2>3. PICK s \in bad : \A t \in bad : ~(t \subseteq s /\ t # s)
    BY <2>1, <2>2, SmallestSet
  <2>4. s \in SUBSET S /\ s \in SUBSET R /\ g[s] # k[s]
    BY <1>3
  <2>5. s # {}
    <3>1. ASSUME s = {} PROVE FALSE
      BY <3>1, <2>4, <1>1, <1>2
    <3>2. QED BY <3>1
  <2>6. PICK x \in s : TRUE
    BY <2>5
  <2>7. s \ {x} \in SUBSET S /\ s \ {x} \notin bad
    BY <2>3, <2>4
  <2>8. g[s \ {x}] = k[s \ {x}]
    BY <2>7, <1>3
  <2>9. g[s] = f[x] + g[s \ {x}] /\ k[s] = h[x] + k[s \ {x}] /\ f[x] = h[x]
    BY <2>4, <1>1, <1>2
  <2>10. QED BY <2>4, <2>8, <2>9
<1>5. QED BY <1>3, <1>4

\* The sum of the community modules is what such a function says of S.
LEMMA SumAdds ==
    ASSUME NEW S, IsFiniteSet(S), NEW f, \A x \in S : f[x] \in Int
    PROVE  \E g : Adds(g, f, S) /\ SumFunctionOnSet(f, S) = g[S]
<1> DEFINE h == CHOOSE g : g = [s \in SUBSET S |-> IF s = {} THEN 0
                                       ELSE f[CHOOSE x \in s : TRUE] + g[s \ {CHOOSE x \in s : TRUE}]]
<1>1. PICK g : Adds(g, f, S)
  BY AddsExists
<1>2. g = [s \in SUBSET S |-> IF s = {} THEN 0
                    ELSE f[CHOOSE x \in s : TRUE] + g[s \ {CHOOSE x \in s : TRUE}]]
  BY <1>1 DEF Adds, Pick
<1>3. h = [s \in SUBSET S |-> IF s = {} THEN 0
                    ELSE f[CHOOSE x \in s : TRUE] + h[s \ {CHOOSE x \in s : TRUE}]]
  BY <1>2, Zenon
<1>4. SumFunctionOnSet(f, S) = h[S]
  BY Zenon DEF SumFunctionOnSet, FoldFunctionOnSet, MapThenFoldSet
<1> HIDE DEF h
<1>5. Adds(h, f, S)
  BY <1>3 DEF Adds, Pick
<1>6. QED BY <1>4, <1>5

\* The sum over nothing, and over a set with one element taken apart.
LEMMA SumEmpty == ASSUME NEW f PROVE SumFunctionOnSet(f, {}) = 0
<1>1. IsFiniteSet({}) /\ \A x \in {} : f[x] \in Int
  BY FS_EmptySet
<1>2. PICK g : Adds(g, f, {}) /\ SumFunctionOnSet(f, {}) = g[{}]
  BY <1>1, SumAdds
<1>3. AnyOrder(g, f, {})
  BY <1>2, AddsAnyOrder
<1>4. QED BY <1>2, <1>3 DEF AnyOrder

LEMMA SumTypes ==
    ASSUME NEW S, IsFiniteSet(S), NEW f, \A x \in S : f[x] \in Int
    PROVE  SumFunctionOnSet(f, S) \in Int
<1>1. PICK g : Adds(g, f, S) /\ SumFunctionOnSet(f, S) = g[S]
  BY SumAdds
<1>2. AnyOrder(g, f, S)
  BY <1>1, AddsAnyOrder
<1>3. QED BY <1>1, <1>2 DEF AnyOrder

\* Only the values on S count.
LEMMA SumSame ==
    ASSUME NEW S, IsFiniteSet(S), NEW f, NEW h, \A x \in S : f[x] \in Int /\ f[x] = h[x]
    PROVE  SumFunctionOnSet(f, S) = SumFunctionOnSet(h, S)
<1>1. (\A x \in S : f[x] \in Int) /\ (\A x \in S : h[x] \in Int) /\ S \subseteq S
  OBVIOUS
<1>2. PICK g : Adds(g, f, S) /\ SumFunctionOnSet(f, S) = g[S]
  BY <1>1, SumAdds
<1>3. PICK k : Adds(k, h, S) /\ SumFunctionOnSet(h, S) = k[S]
  BY <1>1, SumAdds
<1>4. g[S] = k[S]
  BY <1>1, <1>2, <1>3, AddsUnique
<1>5. QED BY <1>2, <1>3, <1>4

LEMMA SumTakeOut ==
    ASSUME NEW S, IsFiniteSet(S), NEW f, \A x \in S : f[x] \in Int, NEW x \in S
    PROVE  SumFunctionOnSet(f, S) = f[x] + SumFunctionOnSet(f, S \ {x})
<1> DEFINE R == S \ {x}
<1>1. IsFiniteSet(R) /\ R \subseteq S /\ \A y \in R : f[y] \in Int /\ f[y] = f[y]
  BY FS_RemoveElement
<1>2. PICK g : Adds(g, f, S) /\ SumFunctionOnSet(f, S) = g[S]
  BY SumAdds
<1>3. PICK k : Adds(k, f, R) /\ SumFunctionOnSet(f, R) = k[R]
  BY <1>1, SumAdds
<1>4. AnyOrder(g, f, S)
  BY <1>2, AddsAnyOrder
<1>5. g[S] = f[x] + g[S \ {x}]
  BY <1>4 DEF AnyOrder
<1> HIDE DEF R
<1>6. k[R] = g[R]
  BY <1>1, <1>2, <1>3, AddsUnique
<1>7. QED BY <1>2, <1>3, <1>5, <1>6 DEF R

\* One value of many changes.
LEMMA SumChanges ==
    ASSUME NEW S, IsFiniteSet(S), NEW f, \A x \in S : f[x] \in Int, NEW x \in S,
           NEW h, h[x] \in Int, \A y \in S \ {x} : h[y] = f[y]
    PROVE  SumFunctionOnSet(h, S) = SumFunctionOnSet(f, S) - f[x] + h[x]
<1> DEFINE R == S \ {x}
<1>1. \A y \in S : h[y] \in Int
  OBVIOUS
<1>2. IsFiniteSet(R) /\ \A y \in R : f[y] \in Int /\ f[y] = h[y]
  BY FS_RemoveElement
<1>3. SumFunctionOnSet(f, S) = f[x] + SumFunctionOnSet(f, R) /\ SumFunctionOnSet(h, S) = h[x] + SumFunctionOnSet(h, R)
  BY <1>1, SumTakeOut
<1>4. SumFunctionOnSet(f, R) = SumFunctionOnSet(h, R) /\ SumFunctionOnSet(f, R) \in Int
  BY <1>2, SumSame, SumTypes
<1> HIDE DEF R
<1>5. QED BY <1>3, <1>4

\* Nothing but zeros add up to zero.
LEMMA SumOfZeros ==
    ASSUME NEW S, IsFiniteSet(S), NEW f, \A x \in S : f[x] = 0
    PROVE  SumFunctionOnSet(f, S) = 0
<1> DEFINE bad == {s \in SUBSET S : SumFunctionOnSet(f, s) # 0}
<1>1. \A s : s \in bad <=> s \in SUBSET S /\ SumFunctionOnSet(f, s) # 0
  OBVIOUS
<1> HIDE DEF bad
<1>2. \A s \in SUBSET S : IsFiniteSet(s)
  BY FS_Subset
<1>3. bad = {}
  <2>1. SUFFICES ASSUME bad # {} PROVE FALSE
    OBVIOUS
  <2>2. \A s \in bad : IsFiniteSet(s)
    BY <1>1, <1>2
  <2>3. PICK s \in bad : \A t \in bad : ~(t \subseteq s /\ t # s)
    BY <2>1, <2>2, SmallestSet
  <2>4. s \in SUBSET S /\ SumFunctionOnSet(f, s) # 0
    BY <1>1
  <2>5. s # {}
    BY <2>4, SumEmpty
  <2>6. PICK x \in s : TRUE
    BY <2>5
  <2>7. SumFunctionOnSet(f, s \ {x}) = 0
    BY <2>3, <2>4, <1>1
  <2>8. IsFiniteSet(s) /\ (\A y \in s : f[y] \in Int) /\ f[x] = 0
    BY <2>4, <1>2
  <2>9. SumFunctionOnSet(f, s) = f[x] + SumFunctionOnSet(f, s \ {x})
    BY <2>8, SumTakeOut
  <2>10. QED BY <2>4, <2>7, <2>8, <2>9
<1>4. QED BY <1>1, <1>3
=============================================================================
