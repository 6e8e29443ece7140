-------------------------- MODULE FiniteSetLemmas ----------------------------
(***************************************************************************)
(* Lemmas that several proofs share: counting up, sums over finite sets,   *)
(* and the places that a strict order gives to the elements of a set.      *)
(***************************************************************************)
EXTENDS Integers, Functions, FiniteSets, FiniteSetTheorems, WellFoundedInduction, TLAPS

-----------------------------------------------------------------------------
(* Counting up *)

\* Less-than on the naturals, as a set of pairs.
Below == {pair \in Nat \X Nat : pair[1] < pair[2]}

\* Every set of naturals that is not empty has a least element.
LEMMA LeastNatural ==
    ASSUME NEW S \in SUBSET Nat, S # {}
    PROVE  \E n \in S : \A m \in S : n <= m
  <1>1. IsWellFoundedOn(Below, Nat)
    BY NatLessThanWellFounded DEF OpToRel, Below
  <1>2. PICK n \in S : \A m \in S : ~(<<m, n>> \in Below)
    BY <1>1, WFMin
  <1>3. ASSUME NEW m \in S, m < n
        PROVE  <<m, n>> \in Below
    BY <1>3 DEF Below
  <1>4. ASSUME NEW m \in S
        PROVE  n <= m
    <2>1. m \in Nat /\ n \in Nat /\ ~(m < n)
      BY <1>2, <1>3
    <2> QED BY <2>1
  <1> QED BY <1>4

\* A set of naturals that begins with 0 and goes on from every member below n
\* has all of them.
LEMMA UpTo ==
    ASSUME NEW n \in Nat, NEW good, 0 \in good,
           \A i \in 1..n : i - 1 \in good => i \in good
    PROVE  \A i \in 0..n : i \in good
  <1> DEFINE bad == {i \in 0..n : i \notin good}
  <1> SUFFICES ASSUME bad # {} PROVE FALSE
    OBVIOUS
  <1>1. bad \in SUBSET Nat
    OBVIOUS
  <1>2. PICK i \in bad : \A j \in bad : i <= j
    <2> HIDE DEF bad
    <2> QED BY <1>1, LeastNatural
  <1>3. i \in 1..n /\ i - 1 \in 0..n /\ ~(i - 1 \in bad)
    BY <1>2
  <1> QED BY <1>2, <1>3

-----------------------------------------------------------------------------
(* Sums over finite sets *)

\* What holds of a finite set whenever it holds of its proper subsets holds of
\* every finite set: good are the sets it holds of.
LEMMA SmallerFirst ==
    ASSUME NEW S, IsFiniteSet(S), NEW good,
           \A s \in SUBSET S : (\A r \in SUBSET s : r # s => r \in good) => s \in good
    PROVE  \A s \in SUBSET S : s \in good
  <1> DEFINE bad == {s \in SUBSET S : s \notin good}
  <1> SUFFICES ASSUME bad # {} PROVE FALSE
    OBVIOUS
  <1>1. IsWellFoundedOn(StrictSubsetOrdering(S), SUBSET S)
    <2>1. FiniteSubsetsOf(S) = SUBSET S
      BY FS_FiniteSubsetsOfFinite
    <2>2. IsWellFoundedOn(StrictSubsetOrdering(S), FiniteSubsetsOf(S))
      BY FS_StrictSubsetOrderingWellFounded
    <2> QED BY <2>1, <2>2
  <1>2. bad \subseteq SUBSET S
    OBVIOUS
  <1>3. PICK s \in bad : \A r \in bad : ~(<<r, s>> \in StrictSubsetOrdering(S))
    <2> HIDE DEF bad
    <2> QED BY <1>1, <1>2, WFMin
  <1>4. ASSUME NEW r \in SUBSET s, r # s
        PROVE  r \in good
    <2>1. r \in SUBSET S
      BY <1>3
    <2>2. <<r, s>> \in StrictSubsetOrdering(S)
      BY <1>3, <1>4, <2>1 DEF StrictSubsetOrdering
    <2> QED BY <1>3, <2>1, <2>2
  <1> QED BY <1>3, <1>4

\* The step of a sum: some element's value, and the sum of the others.
Pick(s) == CHOOSE x \in s : TRUE
SumStep(f, sum, s) == IF s = {} THEN 0 ELSE f[Pick(s)] + sum[s \ {Pick(s)}]

\* SumFunctionOnSet is defined by that step.
LEMMA SumIsFold ==
    ASSUME NEW f, NEW S
    PROVE  SumFunctionOnSet(f, S) =
              (CHOOSE sum : sum = [s \in SUBSET S |-> SumStep(f, sum, s)])[S]
  BY DEF SumFunctionOnSet, FoldFunctionOnSet, MapThenFoldSet, SumStep, Pick

\* Partial sums, of the subsets of S.
PartialSums(f, S, sum) ==
    /\ sum \in [SUBSET S -> Int]
    /\ \A s \in SUBSET S : sum[s] = SumStep(f, sum, s)

LEMMA PickRest ==
    ASSUME NEW s, s # {}
    PROVE  Pick(s) \in s /\ s \ {Pick(s)} \in SUBSET s /\ s \ {Pick(s)} # s
  BY DEF Pick

\* If f and g agree, their partial sums do, whatever the set they are taken in.
LEMMA SumsAgree ==
    ASSUME NEW S, IsFiniteSet(S), NEW f, NEW g, \A x \in S : f[x] = g[x], NEW h, NEW k,
           \A s \in SUBSET S : h[s] = SumStep(f, h, s),
           \A s \in SUBSET S : k[s] = SumStep(g, k, s)
    PROVE  \A s \in SUBSET S : h[s] = k[s]
  <1> DEFINE good == {s \in SUBSET S : h[s] = k[s]}
  <1>1. ASSUME NEW s \in SUBSET S, \A r \in SUBSET s : r # s => r \in good
        PROVE  s \in good
    <2>1. CASE s = {}
      BY <2>1 DEF SumStep
    <2>2. CASE s # {}
      <3>1. Pick(s) \in S /\ s \ {Pick(s)} \in good
        BY <1>1, <2>2, PickRest
      <3> QED BY <2>2, <3>1 DEF SumStep
    <2> QED BY <2>1, <2>2
  <1>2. \A s \in SUBSET S : s \in good
    <2> HIDE DEF good
    <2> QED BY <1>1, SmallerFirst
  <1> QED BY <1>2

\* There are partial sums.
LEMMA SumsExist ==
    ASSUME NEW S, IsFiniteSet(S), NEW f, \A x \in S : f[x] \in Int
    PROVE  \E sum : PartialSums(f, S, sum)
  <1> DEFINE Sums(s) == CHOOSE sum : PartialSums(f, s, sum)
             good == {s \in SUBSET S : \E sum : PartialSums(f, s, sum)}
  <1>1. ASSUME NEW s \in SUBSET S, \A r \in SUBSET s : r # s => r \in good
        PROVE  s \in good
    <2> DEFINE Value(r) == IF r = {} THEN 0
                           ELSE f[Pick(r)] + Sums(r \ {Pick(r)})[r \ {Pick(r)}]
               sum == [r \in SUBSET s |-> Value(r)]
    <2>1. ASSUME NEW r \in SUBSET s, r # s
          PROVE  PartialSums(f, r, Sums(r)) /\ IsFiniteSet(r) /\ r \in SUBSET r
      <3>1. \E h : PartialSums(f, r, h)
        BY <1>1, <2>1
      <3>2. IsFiniteSet(r)
        BY <1>1, FS_Subset
      <3> HIDE DEF PartialSums
      <3> QED BY <3>1, <3>2
    <2> HIDE DEF Sums
    <2>2. ASSUME NEW r \in SUBSET s
          PROVE  Value(r) \in Int /\ Value(r) = SumStep(f, sum, r)
      <3>1. CASE r = {}
        BY <3>1 DEF SumStep
      <3>2. CASE r # {}
        <4> DEFINE p == Pick(r)
                   q == r \ {p}
        <4>1. p \in r /\ p \in S /\ q \in SUBSET s /\ q # s
          BY <1>1, <3>2, PickRest
        <4>2. PartialSums(f, q, Sums(q)) /\ IsFiniteSet(q) /\ q \in SUBSET q
          BY <2>1, <4>1
        <4>3. Sums(q)[q] \in Int /\ f[p] \in Int
          BY <4>1, <4>2 DEF PartialSums
        <4>4. Sums(q)[q] = sum[q]
          <5>1. sum[q] = Value(q)
            BY <4>1
          <5>2. Sums(q)[q] = SumStep(f, Sums(q), q)
            BY <4>2 DEF PartialSums
          <5>3. CASE q = {}
            BY <5>1, <5>2, <5>3 DEF SumStep
          <5>4. CASE q # {}
            <6> DEFINE w == q \ {Pick(q)}
            <6>1. Pick(q) \in q /\ w \in SUBSET q /\ w # q /\ w \in SUBSET s /\ w # s
              BY <4>1, <5>4, PickRest
            <6>2. PartialSums(f, w, Sums(w)) /\ IsFiniteSet(w) /\ w \in SUBSET w
              BY <2>1, <6>1
            <6>3. \A v \in SUBSET w : Sums(w)[v] = SumStep(f, Sums(w), v)
              BY <6>2 DEF PartialSums
            <6>4. \A v \in SUBSET w : Sums(q)[v] = SumStep(f, Sums(q), v)
              BY <4>2, <6>1 DEF PartialSums
            <6>5. Sums(w)[w] = Sums(q)[w]
              <7> HIDE DEF w, q
              <7> QED BY <6>2, <6>3, <6>4, SumsAgree
            <6> QED BY <5>1, <5>2, <5>4, <6>5 DEF SumStep
          <5> QED BY <5>3, <5>4
        <4> QED BY <3>2, <4>3, <4>4 DEF SumStep
      <3> QED BY <3>1, <3>2
    <2>3. PartialSums(f, s, sum)
      <3>1. \A r \in SUBSET s : sum[r] = Value(r)
        OBVIOUS
      <3>2. sum \in [SUBSET s -> Int]
        BY <2>2
      <3> HIDE DEF sum, Value
      <3> QED BY <2>2, <3>1, <3>2 DEF PartialSums
    <2> QED BY <2>3
  <1>2. S \in good
    <2>1. S \in SUBSET S
      OBVIOUS
    <2> HIDE DEF good
    <2> QED BY <1>1, <2>1, SmallerFirst
  <1> QED BY <1>2

\* The sum of a set is its partial sum.
LEMMA SumIsPartial ==
    ASSUME NEW S, IsFiniteSet(S), NEW f, NEW sum, PartialSums(f, S, sum)
    PROVE  SumFunctionOnSet(f, S) = sum[S]
  <1> DEFINE Full(h) == h = [s \in SUBSET S |-> SumStep(f, h, s)]
             all == CHOOSE h : Full(h)
  <1>1. sum = [s \in SUBSET S |-> sum[s]]
    BY DEF PartialSums
  <1>2. Full(sum)
    BY <1>1 DEF PartialSums
  <1>3. Full(all)
    <2> HIDE DEF Full
    <2> QED BY <1>2
  <1>4. SumFunctionOnSet(f, S) = all[S]
    BY SumIsFold
  <1> HIDE DEF all
  <1>5. \A s \in SUBSET S : all[s] = SumStep(f, all, s)
    BY <1>3
  <1>6. \A s \in SUBSET S : all[s] = sum[s]
    BY <1>5, SumsAgree DEF PartialSums
  <1> QED BY <1>4, <1>6

AnyOrder(f, S, sum) == \A s \in SUBSET S : \A x \in s : sum[s] = f[x] + sum[s \ {x}]

\* It does not matter in which order the elements are taken.
LEMMA SumOrder ==
    ASSUME NEW S, IsFiniteSet(S), NEW f, \A x \in S : f[x] \in Int,
           NEW sum, PartialSums(f, S, sum)
    PROVE  AnyOrder(f, S, sum)
  <1> DEFINE good == {s \in SUBSET S : \A x \in s : sum[s] = f[x] + sum[s \ {x}]}
  <1>1. ASSUME NEW s \in SUBSET S, \A r \in SUBSET s : r # s => r \in good
        PROVE  s \in good
    <2> SUFFICES ASSUME NEW x \in s PROVE sum[s] = f[x] + sum[s \ {x}]
      OBVIOUS
    <2> DEFINE p == Pick(s)
    <2>1. /\ p \in s /\ s \ {p} \in SUBSET s /\ s \ {p} # s
          /\ s \ {x} \in SUBSET s /\ s \ {x} # s
      BY PickRest
    <2>2. sum[s] = f[p] + sum[s \ {p}]
      BY DEF PartialSums, SumStep
    <2> HIDE DEF p
    <2>3. CASE x = p
      BY <2>2, <2>3
    <2>4. CASE x # p
      <3>1. x \in s \ {p} /\ p \in s \ {x} /\ (s \ {p}) \ {x} = (s \ {x}) \ {p}
        BY <2>1, <2>4
      <3>2. s \ {p} \in good /\ s \ {x} \in good
        BY <1>1, <2>1
      <3>3. /\ sum[s \ {p}] = f[x] + sum[(s \ {p}) \ {x}]
            /\ sum[s \ {x}] = f[p] + sum[(s \ {x}) \ {p}]
        BY <3>1, <3>2
      <3>4. f[x] \in Int /\ f[p] \in Int /\ sum[(s \ {p}) \ {x}] \in Int
        BY <2>1 DEF PartialSums
      <3>5. \A a, b, c \in Int : b + (a + c) = a + (b + c)
        OBVIOUS
      <3>6. sum[s] = f[p] + (f[x] + sum[(s \ {p}) \ {x}])
        BY <2>2, <3>3
      <3>7. sum[s \ {x}] = f[p] + sum[(s \ {p}) \ {x}]
        BY <3>1, <3>3
      <3>8. f[p] + (f[x] + sum[(s \ {p}) \ {x}]) = f[x] + (f[p] + sum[(s \ {p}) \ {x}])
        BY <3>4, <3>5
      <3> QED BY <3>6, <3>7, <3>8
    <2> QED BY <2>3, <2>4
  <1>2. \A s \in SUBSET S : s \in good
    <2> HIDE DEF good
    <2> QED BY <1>1, SmallerFirst
  <1> QED BY <1>2 DEF AnyOrder

\* What SumFunctionOnSet computes: a number that grows by f[x] with every x
\* that is added, and that depends on the values in S alone.
LEMMA SumFacts ==
    ASSUME NEW S, IsFiniteSet(S), NEW f, \A x \in S : f[x] \in Int
    PROVE  /\ SumFunctionOnSet(f, S) \in Int
           /\ S = {} => SumFunctionOnSet(f, S) = 0
           /\ \A x \in S : SumFunctionOnSet(f, S) = f[x] + SumFunctionOnSet(f, S \ {x})
  <1>1. PICK sum : PartialSums(f, S, sum)
    BY SumsExist
  <1>2. SumFunctionOnSet(f, S) = sum[S] /\ S \in SUBSET S
    BY <1>1, SumIsPartial
  <1>3. S = {} => sum[S] = 0
    BY <1>1, <1>2 DEF PartialSums, SumStep
  <1>4. ASSUME NEW x \in S
        PROVE  SumFunctionOnSet(f, S \ {x}) = sum[S \ {x}]
    <2> DEFINE T == S \ {x}
    <2>1. IsFiniteSet(T) /\ T \in SUBSET T /\ SUBSET T \subseteq SUBSET S
      BY FS_Subset
    <2>2. PICK part : PartialSums(f, T, part)
      BY <2>1, SumsExist
    <2>3. SumFunctionOnSet(f, T) = part[T]
      BY <2>1, <2>2, SumIsPartial
    <2> HIDE DEF T
    <2>4. /\ \A s \in SUBSET T : part[s] = SumStep(f, part, s)
          /\ \A s \in SUBSET T : sum[s] = SumStep(f, sum, s)
      BY <1>1, <2>1, <2>2 DEF PartialSums
    <2>5. part[T] = sum[T]
      BY <2>1, <2>4, SumsAgree
    <2> QED BY <2>3, <2>5 DEF T
  <1>5. \A x \in S : sum[S] = f[x] + sum[S \ {x}]
    <2>1. AnyOrder(f, S, sum)
      BY <1>1, SumOrder
    <2> QED BY <1>2, <2>1 DEF AnyOrder
  <1>6. sum[S] \in Int
    BY <1>1, <1>2 DEF PartialSums
  <1> QED BY <1>2, <1>3, <1>4, <1>5, <1>6

\* Functions that agree on S have the same sum.
LEMMA SumSame ==
    ASSUME NEW S, IsFiniteSet(S), NEW f, NEW g, \A x \in S : f[x] \in Int /\ f[x] = g[x]
    PROVE  SumFunctionOnSet(f, S) = SumFunctionOnSet(g, S)
  <1>1. PICK h : PartialSums(f, S, h)
    BY SumsExist
  <1>2. PICK k : PartialSums(g, S, k)
    BY SumsExist
  <1>3. h[S] = k[S]
    <2>1. S \in SUBSET S
      OBVIOUS
    <2> QED BY <1>1, <1>2, <2>1, SumsAgree DEF PartialSums
  <1> QED BY <1>1, <1>2, <1>3, SumIsPartial

\* Sums of disjoint sets add up.
LEMMA SumUnion ==
    ASSUME NEW A, NEW B, IsFiniteSet(A), IsFiniteSet(B), A \cap B = {},
           NEW f, \A x \in A \cup B : f[x] \in Int
    PROVE  SumFunctionOnSet(f, A \cup B) = SumFunctionOnSet(f, A) + SumFunctionOnSet(f, B)
  <1> DEFINE Sum(s) == SumFunctionOnSet(f, s)
             good == {s \in SUBSET B : Sum(A \cup s) = Sum(A) + Sum(s)}
  <1>1. \A s \in SUBSET B : IsFiniteSet(s) /\ IsFiniteSet(A \cup s)
    BY FS_Subset, FS_Union
  <1>2. Sum(A) \in Int
    BY SumFacts
  <1>3. ASSUME NEW s \in SUBSET B, \A r \in SUBSET s : r # s => r \in good
        PROVE  s \in good
    <2>1. /\ IsFiniteSet(s) /\ \A x \in s : f[x] \in Int
          /\ IsFiniteSet(A \cup s) /\ \A x \in A \cup s : f[x] \in Int
      BY <1>1
    <2>2. CASE s = {}
      <3>1. Sum(s) = 0 /\ A \cup s = A
        BY <2>1, <2>2, SumFacts
      <3>2. Sum(A \cup s) = Sum(A)
        BY <3>1
      <3>3. Sum(A) = Sum(A) + 0
        BY <1>2
      <3> QED BY <3>1, <3>2, <3>3
    <2>3. CASE s # {}
      <3>1. PICK x : x \in s
        BY <2>3
      <3> DEFINE r == s \ {x}
      <3>2. r \in good
        BY <1>3, <3>1
      <3>3. (A \cup s) \ {x} = A \cup r /\ f[x] \in Int
        BY <2>1, <3>1
      <3>4. Sum(s) = f[x] + Sum(r)
        BY <2>1, <3>1, SumFacts
      <3>5. Sum(A \cup s) = f[x] + Sum(A \cup r)
        <4>1. x \in A \cup s
          BY <3>1
        <4>2. Sum(A \cup s) = f[x] + Sum((A \cup s) \ {x})
          BY <2>1, <4>1, SumFacts
        <4> QED BY <3>3, <4>2
      <3>6. Sum(r) \in Int
        <4>1. IsFiniteSet(r) /\ \A y \in r : f[y] \in Int
          BY <1>1, <2>1
        <4> QED BY <4>1, SumFacts
      <3>7. Sum(A \cup r) = Sum(A) + Sum(r)
        BY <3>2
      <3> HIDE DEF Sum, r
      <3>8. Sum(A \cup s) = Sum(A) + Sum(s)
        BY <1>2, <3>3, <3>4, <3>5, <3>6, <3>7
      <3> QED BY <3>8
    <2> QED BY <2>2, <2>3
  <1>4. B \in good
    <2>1. B \in SUBSET B
      OBVIOUS
    <2> HIDE DEF good
    <2>2. \A s \in SUBSET B : s \in good
      BY <1>3, SmallerFirst
    <2> QED BY <2>1, <2>2
  <1> QED BY <1>4

\* A sum may be taken part by part.
LEMMA SumParts ==
    ASSUME NEW D, NEW P, IsFiniteSet(D), IsFiniteSet(P), NEW route \in [D -> P],
           NEW g, \A d \in D : g[d] \in Int,
           NEW part, \A s \in P : part[s] = SumFunctionOnSet(g, {d \in D : route[d] = s})
    PROVE  SumFunctionOnSet(part, P) = SumFunctionOnSet(g, D)
  <1> DEFINE On(Q) == {d \in D : route[d] \in Q}
             good == {Q \in SUBSET P : SumFunctionOnSet(part, Q) = SumFunctionOnSet(g, On(Q))}
  <1>1. ASSUME NEW E \in SUBSET D
        PROVE  IsFiniteSet(E) /\ (\A d \in E : g[d] \in Int) /\ SumFunctionOnSet(g, E) \in Int
    BY FS_Subset, SumFacts
  <1>2. \A s \in P : part[s] \in Int
    BY <1>1
  <1>3. ASSUME NEW Q \in SUBSET P, \A r \in SUBSET Q : r # Q => r \in good
        PROVE  Q \in good
    <2>1. IsFiniteSet(Q) /\ \A s \in Q : part[s] \in Int
      BY <1>2, FS_Subset
    <2>2. CASE Q = {}
      <3>1. On(Q) = {}
        BY <2>2
      <3>2. SumFunctionOnSet(part, Q) = 0
        BY <2>1, <2>2, SumFacts
      <3>3. SumFunctionOnSet(g, On(Q)) = 0
        <4>1. IsFiniteSet(On(Q)) /\ \A d \in On(Q) : g[d] \in Int
          BY <1>1
        <4> HIDE DEF On
        <4> QED BY <3>1, <4>1, SumFacts
      <3> QED BY <3>2, <3>3
    <2>3. CASE Q # {}
      <3>1. PICK s : s \in Q
        BY <2>3
      <3> DEFINE R == Q \ {s}
                 A == On(R)
                 B == {d \in D : route[d] = s}
      <3>2. R \in good /\ s \in P
        BY <1>3, <3>1
      <3>3. SumFunctionOnSet(part, Q) = part[s] + SumFunctionOnSet(part, R)
        BY <2>1, <3>1, SumFacts
      <3>4. On(Q) = A \cup B /\ A \cap B = {} /\ A \in SUBSET D /\ B \in SUBSET D
        BY <3>1
      <3>5. /\ IsFiniteSet(A) /\ IsFiniteSet(B) /\ \A d \in A \cup B : g[d] \in Int
            /\ SumFunctionOnSet(g, A) \in Int /\ SumFunctionOnSet(g, B) \in Int
        BY <1>1, <3>4
      <3>6. part[s] = SumFunctionOnSet(g, B) /\ SumFunctionOnSet(part, R) = SumFunctionOnSet(g, A)
        BY <3>2
      <3> HIDE DEF A, B, R, On
      <3>7. SumFunctionOnSet(g, A \cup B) = SumFunctionOnSet(g, A) + SumFunctionOnSet(g, B)
        BY <3>4, <3>5, SumUnion
      <3>8. SumFunctionOnSet(part, Q) = SumFunctionOnSet(g, On(Q))
        BY <3>3, <3>4, <3>5, <3>6, <3>7
      <3> QED BY <3>8
    <2> QED BY <2>2, <2>3
  <1>4. P \in good
    <2>1. P \in SUBSET P
      OBVIOUS
    <2> HIDE DEF good
    <2> QED BY <1>3, <2>1, SmallerFirst
  <1>5. On(P) = D
    OBVIOUS
  <1> HIDE DEF On
  <1> QED BY <1>4, <1>5

\* A cardinality is a sum of ones.
LEMMA CountIsSum ==
    ASSUME NEW S, IsFiniteSet(S), NEW ones, \A x \in S : ones[x] = 1
    PROVE  SumFunctionOnSet(ones, S) = Cardinality(S)
  <1> DEFINE good == {s \in SUBSET S : SumFunctionOnSet(ones, s) = Cardinality(s)}
  <1>1. ASSUME NEW s \in SUBSET S, \A r \in SUBSET s : r # s => r \in good
        PROVE  s \in good
    <2>1. IsFiniteSet(s) /\ (\A x \in s : ones[x] \in Int) /\ Cardinality(s) \in Nat
      BY FS_Subset, FS_CardinalityType
    <2>2. CASE s = {}
      <3>1. Cardinality(s) = 0
        BY <2>2, FS_EmptySet
      <3>2. SumFunctionOnSet(ones, s) = 0
        BY <2>1, <2>2, SumFacts
      <3> QED BY <3>1, <3>2
    <2>3. CASE s # {}
      <3>1. PICK x : x \in s
        BY <2>3
      <3>2. SumFunctionOnSet(ones, s) = ones[x] + SumFunctionOnSet(ones, s \ {x})
        BY <2>1, <3>1, SumFacts
      <3>3. SumFunctionOnSet(ones, s \ {x}) = Cardinality(s \ {x})
        BY <1>1, <3>1
      <3>4. Cardinality(s \ {x}) = Cardinality(s) - 1
        BY <2>1, <3>1, FS_RemoveElement
      <3>5. ones[x] = 1
        BY <3>1
      <3>6. SumFunctionOnSet(ones, s) = Cardinality(s)
        BY <2>1, <3>2, <3>3, <3>4, <3>5
      <3> QED BY <3>6
    <2> QED BY <2>2, <2>3
  <1>2. S \in good
    <2>1. S \in SUBSET S
      OBVIOUS
    <2> HIDE DEF good
    <2> QED BY <1>1, <2>1, SmallerFirst, ZenonT(40)
  <1> QED BY <1>2

\* A sum of naturals is one, and it is zero if they are.
LEMMA SumNatural ==
    ASSUME NEW S, IsFiniteSet(S), NEW f, \A x \in S : f[x] \in Nat
    PROVE  /\ SumFunctionOnSet(f, S) \in Nat
           /\ (\A x \in S : f[x] = 0) => SumFunctionOnSet(f, S) = 0
  <1> DEFINE good == {s \in SUBSET S :
                        /\ SumFunctionOnSet(f, s) \in Nat
                        /\ (\A x \in s : f[x] = 0) => SumFunctionOnSet(f, s) = 0}
  <1>1. ASSUME NEW s \in SUBSET S, \A r \in SUBSET s : r # s => r \in good
        PROVE  s \in good
    <2>1. IsFiniteSet(s) /\ \A x \in s : f[x] \in Int
      BY FS_Subset
    <2>2. CASE s = {}
      <3>1. SumFunctionOnSet(f, s) = 0
        BY <2>1, <2>2, SumFacts
      <3> QED BY <3>1
    <2>3. CASE s # {}
      <3>1. PICK x : x \in s
        BY <2>3
      <3>2. SumFunctionOnSet(f, s) = f[x] + SumFunctionOnSet(f, s \ {x})
        BY <2>1, <3>1, SumFacts
      <3>3. /\ SumFunctionOnSet(f, s \ {x}) \in Nat
            /\ (\A y \in s \ {x} : f[y] = 0) => SumFunctionOnSet(f, s \ {x}) = 0
        BY <1>1, <3>1
      <3>4. f[x] \in Nat
        BY <3>1
      <3>5. SumFunctionOnSet(f, s) \in Nat
        BY <3>2, <3>3, <3>4
      <3>6. (\A y \in s : f[y] = 0) => SumFunctionOnSet(f, s) = 0
        BY <3>1, <3>2, <3>3
      <3> QED BY <3>5, <3>6
    <2> QED BY <2>2, <2>3
  <1>2. S \in good
    <2>1. S \in SUBSET S
      OBVIOUS
    <2> HIDE DEF good
    <2> QED BY <1>1, <2>1, SmallerFirst
  <1> QED BY <1>2

\* Counting shard by shard gives the number of all.
LEMMA CountParts ==
    ASSUME NEW X, NEW P, IsFiniteSet(X), IsFiniteSet(P), NEW route, \A d \in X : route[d] \in P,
           NEW count, DOMAIN count = P,
           \A s \in P : count[s] = Cardinality({d \in X : route[d] = s})
    PROVE  SumFunction(count) = Cardinality(X)
  <1> DEFINE ones == [d \in X |-> 1]
             r == [d \in X |-> route[d]]
  <1>1. r \in [X -> P] /\ \A d \in X : r[d] = route[d]
    OBVIOUS
  <1>2. \A d \in X : ones[d] = 1 /\ ones[d] \in Int
    OBVIOUS
  <1> HIDE DEF ones, r
  <1>3. ASSUME NEW s \in P
        PROVE  count[s] = SumFunctionOnSet(ones, {d \in X : r[d] = s})
    <2> DEFINE here == {d \in X : r[d] = s}
    <2>1. here \in SUBSET X /\ here = {d \in X : route[d] = s}
      BY <1>1
    <2>2. IsFiniteSet(here)
      BY <2>1, FS_Subset
    <2>3. \A d \in here : ones[d] = 1
      BY <1>2
    <2>4. count[s] = Cardinality(here)
      BY <2>1
    <2> HIDE DEF here
    <2>5. SumFunctionOnSet(ones, here) = Cardinality(here)
      BY <2>2, <2>3, CountIsSum
    <2> QED BY <2>4, <2>5 DEF here
  <1>4. SumFunctionOnSet(count, P) = SumFunctionOnSet(ones, X)
    BY <1>1, <1>2, <1>3, SumParts
  <1>5. SumFunctionOnSet(ones, X) = Cardinality(X)
    BY <1>2, CountIsSum
  <1> QED BY <1>4, <1>5 DEF SumFunction

-----------------------------------------------------------------------------
(* Places in an order *)

\* What the relation R, a set of pairs, puts ahead of x, and R a strict order of
\* the elements of S.
Ahead(S, R, x) == {y \in S : <<y, x>> \in R}
StrictOrder(S, R) ==
    /\ \A x \in S : <<x, x>> \notin R
    /\ \A x, y, z \in S : <<x, y>> \in R /\ <<y, z>> \in R => <<x, z>> \in R
    /\ \A x, y \in S : x # y => <<x, y>> \in R \/ <<y, x>> \in R

\* The number of elements ahead tells an element's place: it is different for
\* every element and takes every value below the size of the set.
LEMMA PlacesInOrder ==
    ASSUME NEW S, IsFiniteSet(S), NEW R, StrictOrder(S, R)
    PROVE  /\ Cardinality(S) \in Nat
           /\ \A x \in S : /\ Cardinality(Ahead(S, R, x)) \in Nat
                           /\ Cardinality(Ahead(S, R, x)) < Cardinality(S)
           /\ \A x, y \in S : <<x, y>> \in R
                                 => Cardinality(Ahead(S, R, x)) < Cardinality(Ahead(S, R, y))
           /\ \A x, y \in S : Cardinality(Ahead(S, R, x)) = Cardinality(Ahead(S, R, y)) => x = y
           /\ \A n \in Nat : n < Cardinality(S) => \E x \in S : Cardinality(Ahead(S, R, x)) = n
  <1> DEFINE Place(x) == Cardinality(Ahead(S, R, x))
             N == Cardinality(S)
  <1>1. N \in Nat
    BY FS_CardinalityType
  <1>2. ASSUME NEW x \in S
        PROVE  IsFiniteSet(Ahead(S, R, x)) /\ Place(x) \in Nat /\ Place(x) < N
    <2>1. Ahead(S, R, x) \in SUBSET S /\ Ahead(S, R, x) # S
      BY DEF Ahead, StrictOrder
    <2>2. IsFiniteSet(Ahead(S, R, x)) /\ Place(x) <= N /\ Place(x) # N
      BY <2>1, FS_Subset
    <2>3. Place(x) \in Nat
      BY <2>2, FS_CardinalityType
    <2> QED BY <1>1, <2>2, <2>3
  <1>3. ASSUME NEW x \in S, NEW y \in S, <<x, y>> \in R
        PROVE  Place(x) < Place(y)
    <2>1. Ahead(S, R, x) \in SUBSET Ahead(S, R, y)
      BY <1>3 DEF Ahead, StrictOrder
    <2>2. x \in Ahead(S, R, y) /\ x \notin Ahead(S, R, x)
      BY <1>3 DEF Ahead, StrictOrder
    <2>3. Place(x) <= Place(y) /\ Place(x) # Place(y)
      BY <1>2, <2>1, <2>2, FS_Subset
    <2> QED BY <1>2, <2>3
  <1>4. ASSUME NEW x \in S, NEW y \in S, Place(x) = Place(y)
        PROVE  x = y
    <2>1. Place(x) \in Nat /\ Place(y) \in Nat
      BY <1>2
    <2>2. ~(<<x, y>> \in R) /\ ~(<<y, x>> \in R)
      <3>1. <<x, y>> \in R => Place(x) < Place(y)
        BY <1>3
      <3>2. <<y, x>> \in R => Place(y) < Place(x)
        BY <1>3
      <3> HIDE DEF Place
      <3> QED BY <1>4, <2>1, <3>1, <3>2
    <2> QED BY <2>2 DEF StrictOrder
  <1>5. \A n \in Nat : n < N => \E x \in S : Place(x) = n
    <2> DEFINE T == 0..(N - 1)
               f == [x \in S |-> Place(x)]
    <2>1. f \in [S -> T] /\ \A x, y \in S : f[x] = f[y] => x = y
      <3> HIDE DEF Place, N
      <3>1. \A x \in S : Place(x) \in T
        BY <1>1, <1>2
      <3> QED BY <1>4, <3>1
    <2>2. IsFiniteSet(T) /\ Cardinality(T) = N
      <3>1. 0 \in Int /\ N - 1 \in Int
        BY <1>1
      <3>2. IsFiniteSet(T) /\ Cardinality(T) = IF 0 > N - 1 THEN 0 ELSE N - 1 - 0 + 1
        BY <3>1, FS_Interval
      <3> QED BY <1>1, <3>2
    <2>3. f \in Injection(S, T)
      BY <2>1 DEF Injection, IsInjective
    <2>4. f \in Surjection(S, T)
      BY <2>2, <2>3, FS_Injection
    <2>5. \A n \in T : \E x \in S : f[x] = n
      BY <2>4 DEF Surjection
    <2> HIDE DEF Place, N
    <2> QED BY <1>1, <2>5
  <1> QED BY <1>1, <1>2, <1>3, <1>4, <1>5

\* A part M of H that has the k first elements of H has them in the same places.
LEMMA FirstPlacesAgree ==
    ASSUME NEW H, IsFiniteSet(H), NEW R, StrictOrder(H, R), NEW M \in SUBSET H, NEW k \in Nat,
           \A h \in H : Cardinality(Ahead(H, R, h)) < k => h \in M
    PROVE  /\ IsFiniteSet(M) /\ StrictOrder(M, R)
           /\ \A n \in Nat : n < k => (n < Cardinality(M) <=> n < Cardinality(H))
           /\ \A h \in M, n \in Nat :
                 n < k => (Cardinality(Ahead(M, R, h)) = n <=> Cardinality(Ahead(H, R, h)) = n)
  <1> DEFINE InH(h) == Cardinality(Ahead(H, R, h))
             InM(h) == Cardinality(Ahead(M, R, h))
  <1>1. IsFiniteSet(M) /\ StrictOrder(M, R) /\ Cardinality(M) <= Cardinality(H)
    BY FS_Subset DEF StrictOrder
  <1>2. /\ Cardinality(H) \in Nat
        /\ \A x \in H : InH(x) \in Nat /\ InH(x) < Cardinality(H)
        /\ \A x, y \in H : <<x, y>> \in R => InH(x) < InH(y)
        /\ \A x, y \in H : InH(x) = InH(y) => x = y
        /\ \A n \in Nat : n < Cardinality(H) => \E x \in H : InH(x) = n
    BY PlacesInOrder
  <1>3. /\ Cardinality(M) \in Nat
        /\ \A x \in M : InM(x) \in Nat /\ InM(x) < Cardinality(M)
        /\ \A x, y \in M : InM(x) = InM(y) => x = y
    BY <1>1, PlacesInOrder
  <1>4. ASSUME NEW h \in H, InH(h) < k
        PROVE  h \in M /\ InM(h) = InH(h)
    <2>1. h \in M
      BY <1>4
    <2>2. ASSUME NEW g \in H, <<g, h>> \in R
          PROVE  g \in M
      <3>1. InH(g) < InH(h) /\ InH(g) \in Nat /\ InH(h) \in Nat
        BY <1>2, <2>2
      <3>2. InH(g) < k
        <4> HIDE DEF InH
        <4> QED BY <1>4, <3>1
      <3> QED BY <3>2
    <2>3. Ahead(M, R, h) = Ahead(H, R, h)
      BY <2>2 DEF Ahead
    <2> QED BY <2>1, <2>3
  <1> HIDE DEF InH, InM
  <1>5. ASSUME NEW n \in Nat, n < k
        PROVE  n < Cardinality(M) <=> n < Cardinality(H)
    <2>1. CASE n < Cardinality(H)
      <3>1. PICK x \in H : InH(x) = n
        BY <1>2, <2>1
      <3>2. x \in M /\ InM(x) = n
        BY <1>4, <1>5, <3>1
      <3>3. InM(x) < Cardinality(M)
        BY <1>3, <3>2
      <3> QED BY <2>1, <3>2, <3>3
    <2>2. CASE ~(n < Cardinality(H))
      BY <1>1, <1>2, <1>3, <2>2
    <2> QED BY <2>1, <2>2
  <1>6. ASSUME NEW h \in M, NEW n \in Nat, n < k
        PROVE  InM(h) = n <=> InH(h) = n
    <2>1. ASSUME InH(h) = n PROVE InM(h) = n
      BY <1>4, <1>6, <2>1
    <2>2. ASSUME InM(h) = n PROVE InH(h) = n
      <3>1. n < Cardinality(H)
        <4>1. n < Cardinality(M)
          BY <1>3, <2>2
        <4> QED BY <1>5, <1>6, <4>1
      <3>2. PICK x \in H : InH(x) = n
        BY <1>2, <3>1
      <3>3. x \in M /\ InM(x) = n
        BY <1>4, <1>6, <3>2
      <3> QED BY <1>3, <2>2, <3>2, <3>3
    <2> QED BY <2>1, <2>2
  <1> QED BY <1>1, <1>5, <1>6 DEF InH, InM

=============================================================================
