----------------------------- MODULE Inductions -----------------------------
(***************************************************************************)
(* Facts about numbers, finite sets and folds that the proofs of several   *)
(* components share.  Induction goes through the least element of a set of *)
(* counterexamples: every nonempty set of naturals has one.                *)
(***************************************************************************)
EXTENDS Integers, Sequences, Functions, FiniteSetTheorems, WellFoundedInduction, TLAPS

\* Every nonempty set of natural numbers has a least element.
LEMMA LeastNatural ==
  ASSUME NEW T \in SUBSET Nat, T # {}
  PROVE  \E x \in T : \A y \in T : x <= y
<1> DEFINE R == {ss \in Nat \X Nat : ss[1] < ss[2]}
<1>1. IsWellFoundedOn(R, Nat)
  BY NatLessThanWellFounded DEF OpToRel
<1>2. PICK x \in T : \A y \in T : <<y, x>> \notin R
  <2> HIDE DEF R
  <2> QED BY <1>1, WFMin
<1>3. \A y \in T : ~(y < x)
  BY <1>2
<1>4. \A y \in T : x <= y
  BY <1>3
<1> QED BY <1>4

\* A set of naturals that holds 0 and the successors of its members holds all.
LEMMA Induction ==
  ASSUME NEW T, 0 \in T, \A n \in Nat : n \in T => n + 1 \in T
  PROVE  Nat \subseteq T
<1> SUFFICES ASSUME Nat \ T # {} PROVE FALSE
  OBVIOUS
<1>1. PICK n \in Nat \ T : \A m \in Nat \ T : n <= m
  BY LeastNatural
<1>2. n # 0 /\ n - 1 \in Nat /\ ~(n <= n - 1)
  BY <1>1
<1>3. n - 1 \in T
  BY <1>1, <1>2
<1>4. (n - 1) + 1 = n
  BY <1>1
<1> QED BY <1>1, <1>2, <1>3, <1>4

\* A set of sets that holds {} and, with a subset of the finite set S, that
\* subset and one more element of S, holds S.
LEMMA SetInduction ==
  ASSUME NEW S, IsFiniteSet(S), NEW T, {} \in T,
         \A U \in SUBSET S, x \in S : U \in T => U \cup {x} \in T
  PROVE  S \in T
<1> DEFINE Left == {U \in SUBSET S : U \notin T}
           R == StrictSubsetOrdering(S)
<1> SUFFICES ASSUME S \notin T PROVE FALSE
  OBVIOUS
<1>1. IsWellFoundedOn(R, SUBSET S)
  BY FS_StrictSubsetOrderingWellFounded, FS_FiniteSubsetsOfFinite
<1>2. Left \subseteq SUBSET S /\ S \in Left
  OBVIOUS
<1>3. PICK U \in Left : \A V \in Left : <<V, U>> \notin R
  <2> HIDE DEF Left, R
  <2> QED BY <1>1, <1>2, WFMin
<1>4. PICK x \in U : TRUE
  BY <1>2
<1> DEFINE V == U \ {x}
<1>5. V \in SUBSET S /\ x \in S /\ V \cup {x} = U /\ <<V, U>> \in R
  BY <1>2, <1>4 DEF StrictSubsetOrdering
<1>6. V \in T
  BY <1>3, <1>5
<1>7. U \in T
  <2> HIDE DEF V
  <2> QED BY <1>5, <1>6
<1> QED BY <1>3, <1>7

\* A finite nonempty set of integers has a greatest element, and a least one.
LEMMA GreatestAndLeast ==
  ASSUME NEW S \in SUBSET Int, IsFiniteSet(S), S # {}
  PROVE  /\ \E x \in S : \A y \in S : y <= x
         /\ \E x \in S : \A y \in S : x <= y
<1> DEFINE T == {U \in SUBSET S : U # {} => /\ \E x \in U : \A y \in U : y <= x
                                           /\ \E x \in U : \A y \in U : x <= y}
<1>1. {} \in T
  OBVIOUS
<1>2. ASSUME NEW U \in SUBSET S, NEW z \in S, U \in T
      PROVE  U \cup {z} \in T
  <2> DEFINE W == U \cup {z}
  <2>1. CASE U = {}
    <3>1. W = {z} /\ z <= z
      BY <2>1
    <3> QED BY <3>1
  <2>2. CASE U # {}
    <3>1. PICK a \in U : \A y \in U : y <= a
      BY <1>2, <2>2
    <3>2. PICK b \in U : \A y \in U : b <= y
      BY <1>2, <2>2
    <3>3. \E x \in W : \A y \in W : y <= x
      <4>1. CASE z <= a
        <5>1. a \in W /\ \A y \in W : y <= a
          BY <3>1, <4>1
        <5> QED BY <5>1
      <4>2. CASE a <= z
        <5>1. z \in W /\ \A y \in W : y <= z
          BY <3>1, <4>2
        <5> QED BY <5>1
      <4> QED BY <4>1, <4>2
    <3>4. \E x \in W : \A y \in W : x <= y
      <4>1. CASE b <= z
        <5>1. b \in W /\ \A y \in W : b <= y
          BY <3>2, <4>1
        <5> QED BY <5>1
      <4>2. CASE z <= b
        <5>1. z \in W /\ \A y \in W : z <= y
          BY <3>2, <4>2
        <5> QED BY <5>1
      <4> QED BY <4>1, <4>2
    <3>5. W \in SUBSET S
      OBVIOUS
    <3> HIDE DEF W
    <3> QED BY <3>3, <3>4, <3>5 DEF W
  <2> QED BY <2>1, <2>2
<1>3. S \in T
  <2> HIDE DEF T
  <2> QED BY <1>1, <1>2, SetInduction
<1> QED BY <1>3

\* No more than n of a finite set of integers have fewer than n below them.
LEMMA FirstFew ==
  ASSUME NEW S \in SUBSET Int, IsFiniteSet(S), NEW n \in Nat \ {0}
  PROVE  Cardinality({t \in S : Cardinality({u \in S : u < t}) < n}) <= n
<1> DEFINE First == {t \in S : Cardinality({u \in S : u < t}) < n}
<1>1. First \subseteq S /\ First \in SUBSET Int /\ IsFiniteSet(First) /\ Cardinality(First) \in Nat
  BY FS_Subset, FS_CardinalityType
<1>2. CASE First = {}
  <2>1. Cardinality({}) = 0
    BY FS_EmptySet
  <2> HIDE DEF First
  <2>2. Cardinality(First) <= n
    BY <1>2, <2>1
  <2> QED BY <2>2 DEF First
<1>3. CASE First # {}
  <2>1. PICK t \in First : \A u \in First : u <= t
    <3> HIDE DEF First
    <3> QED BY <1>1, <1>3, GreatestAndLeast
  <2> DEFINE Below == {u \in S : u < t}
  <2>2. Cardinality(Below) < n
    BY <2>1
  <2>3. First \ {t} \subseteq Below /\ Below \subseteq S
    <3>1. \A u \in First \ {t} : u \in S /\ u < t
      <4>1. \A u \in First \ {t} : u \in S /\ u \in Int /\ t \in Int /\ u <= t /\ u # t
        <5> HIDE DEF First
        <5> QED BY <1>1, <2>1
      <4> QED BY <4>1
    <3> QED BY <3>1
  <2>4. IsFiniteSet(Below) /\ Cardinality(Below) \in Nat
    BY <2>3, FS_Subset, FS_CardinalityType
  <2> HIDE DEF Below, First
  <2>5. Cardinality(First \ {t}) <= Cardinality(Below)
    BY <2>3, <2>4, FS_Subset
  <2>6. Cardinality(First \ {t}) = Cardinality(First) - 1
    BY <1>1, <2>1, FS_RemoveElement
  <2> QED BY <1>1, <2>2, <2>4, <2>5, <2>6 DEF First
<1> QED BY <1>2, <1>3

\* A greater multiple of n is greater by n at least.
LEMMA Multiples ==
  ASSUME NEW i \in Nat, NEW j \in Nat, NEW n \in Nat, i < j
  PROVE  i * n + n <= j * n
<1> DEFINE k == j - i - 1
<1>1. k \in Nat /\ j = i + 1 + k
  OBVIOUS
<1>2. k * n \in Nat
  BY <1>1
<1>3. j * n = i * n + n + k * n
  BY <1>1
<1>4. i * n \in Int /\ j * n \in Int
  OBVIOUS
<1> HIDE DEF k
<1> QED BY <1>2, <1>3, <1>4

\* The sum of natural numbers is one, and no less than any of them.
LEMMA Sums ==
  ASSUME NEW S, IsFiniteSet(S), NEW f \in [S -> Nat]
  PROVE  /\ SumFunction(f) \in Nat
         /\ \A x \in S : f[x] <= SumFunction(f)
         /\ S = {} => SumFunction(f) = 0
<1> DEFINE pick(s) == CHOOSE x \in s : TRUE
           Step(g, s) == IF s = {} THEN 0 ELSE f[pick(s)] + g[s \ {pick(s)}]
           Small(n) == {s \in SUBSET S : Cardinality(s) <= n}
           Iter(g, D) == g = [s \in D |-> Step(g, s)]
           Bounds(g, s) == g[s] \in Nat /\ \A x \in s : f[x] <= g[s]
<1>1. SumFunction(f) = (CHOOSE g : Iter(g, SUBSET S))[S]
  BY DEF SumFunction, SumFunctionOnSet, FoldFunctionOnSet, MapThenFoldSet
<1>2. \A s \in SUBSET S : IsFiniteSet(s) /\ Cardinality(s) \in Nat /\ Cardinality(s) <= Cardinality(S)
                         /\ (Cardinality(s) = 0 <=> s = {})
  BY FS_Subset, FS_CardinalityType, FS_EmptySet
<1>3. \A s \in SUBSET S : s # {} =>
        /\ pick(s) \in s /\ s \ {pick(s)} \in SUBSET S
        /\ Cardinality(s \ {pick(s)}) = Cardinality(s) - 1
  BY <1>2, FS_RemoveElement
<1>4. \A n \in Nat : \E g : Iter(g, Small(n))
  <2> DEFINE T == {n \in Nat : \E g : Iter(g, Small(n))}
  <2>1. 0 \in T
    <3>1. \A s \in Small(0) : s = {}
      BY <1>2
    <3>2. Iter([s \in Small(0) |-> 0], Small(0))
      BY <3>1
    <3> QED BY <3>2
  <2>2. ASSUME NEW n \in Nat, n \in T PROVE n + 1 \in T
    <3>1. PICK g : Iter(g, Small(n))
      BY <2>2
    <3> DEFINE h == [s \in Small(n + 1) |-> Step(g, s)]
    <3>2. ASSUME NEW s \in Small(n + 1) PROVE Step(h, s) = Step(g, s)
      <4>1. CASE s = {}
        BY <4>1
      <4>2. CASE s # {}
        <5> DEFINE r == s \ {pick(s)}
        <5>1. r \in Small(n) /\ r \in Small(n + 1)
          BY <1>2, <1>3, <4>2
        <5>2. h[r] = g[r]
          <6> HIDE DEF r, Small, Step
          <6> QED BY <3>1, <5>1
        <5> QED BY <4>2, <5>2
      <4> QED BY <4>1, <4>2
    <3>3. Iter(h, Small(n + 1))
      <4> HIDE DEF Small, Step
      <4> QED BY <3>2
    <3> HIDE DEF h, Iter, Small
    <3>4. \E k : Iter(k, Small(n + 1))
      BY <3>3
    <3> QED BY <3>4
  <2> HIDE DEF T
  <2>3. Nat \subseteq T
    BY <2>1, <2>2, Induction
  <2> QED BY <2>3 DEF T
<1>5. PICK g : g = CHOOSE h : Iter(h, SUBSET S)
  OBVIOUS
<1>6. Iter(g, SUBSET S)
  <2>1. Small(Cardinality(S)) = SUBSET S /\ Cardinality(S) \in Nat
    BY <1>2, FS_CardinalityType
  <2>2. \E h : Iter(h, SUBSET S)
    <3> HIDE DEF Small, Iter
    <3> QED BY <1>4, <2>1
  <2> HIDE DEF Iter
  <2> QED BY <1>5, <2>2
<1>7. \A n \in Nat : \A s \in Small(n) : Bounds(g, s)
  <2> DEFINE T == {n \in Nat : \A s \in Small(n) : Bounds(g, s)}
  <2>1. \A s \in SUBSET S : g[s] = Step(g, s)
    <3> HIDE DEF Step
    <3> QED BY <1>6
  <2>2. 0 \in T
    BY <1>2, <2>1
  <2>3. ASSUME NEW n \in Nat, n \in T PROVE n + 1 \in T
    <3> SUFFICES ASSUME NEW s \in Small(n + 1) PROVE Bounds(g, s)
      OBVIOUS
    <3>0. s \in SUBSET S /\ Cardinality(s) <= n + 1
      OBVIOUS
    <3>1. CASE s = {}
      <4>1. g[s] = 0
        BY <2>1, <3>0, <3>1
      <4> QED BY <3>1, <4>1
    <3>2. CASE s # {}
      <4> DEFINE r == s \ {pick(s)}
      <4>0. g[s] = f[pick(s)] + g[r]
        BY <2>1, <3>0, <3>2
      <4>1. pick(s) \in s /\ r \in Small(n) /\ g[s] = f[pick(s)] + g[r]
        <5>1. pick(s) \in s /\ r \in SUBSET S /\ Cardinality(r) = Cardinality(s) - 1
          BY <1>3, <3>0, <3>2, Zenon
        <5>2. Cardinality(s) \in Nat
          BY <1>2, <3>0
        <5> HIDE DEF r, pick
        <5> QED BY <3>0, <4>0, <5>1, <5>2
      <4>2. Bounds(g, r)
        <5> HIDE DEF r, Small, Bounds
        <5> QED BY <2>3, <4>1
      <4>3. g[r] \in Nat /\ f[pick(s)] \in Nat /\ s \subseteq S
        BY <4>1, <4>2
      <4>4. \A x \in s : f[x] <= g[s]
        <5>1. ASSUME NEW x \in s PROVE f[x] <= f[pick(s)] + g[r]
          <6>1. CASE x = pick(s)
            BY <4>3, <6>1
          <6>2. CASE x # pick(s)
            <7>1. f[x] <= g[r] /\ f[x] \in Nat
              BY <4>2, <4>3, <6>2
            <7> QED BY <4>3, <7>1
          <6> QED BY <6>1, <6>2
        <5> QED BY <4>1, <5>1
      <4> QED BY <4>1, <4>3, <4>4
    <3> QED BY <3>1, <3>2
  <2> HIDE DEF T
  <2>4. Nat \subseteq T
    BY <2>2, <2>3, Induction
  <2> QED BY <2>4 DEF T
<1>8. S \in Small(Cardinality(S)) /\ Cardinality(S) \in Nat
  BY <1>2, FS_CardinalityType
<1>9. Bounds(g, S)
  <2> HIDE DEF Small, Bounds
  <2> QED BY <1>7, <1>8
<1>10. S = {} => g[S] = 0
  BY <1>6
<1> QED BY <1>1, <1>5, <1>9, <1>10
=============================================================================
