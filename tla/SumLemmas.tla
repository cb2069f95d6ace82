----------------------------- MODULE SumLemmas ------------------------------
(***************************************************************************)
(* Facts about SumFunction of the community module Functions, which adds    *)
(* the stacks and the bets of the bots. The fold is a function that recurses *)
(* over the subsets of its domain; the lemmas show that it exists and what    *)
(* it computes.                                                             *)
(***************************************************************************)
EXTENDS Integers, FiniteSets, Functions, FiniteSetTheorems,
        WellFoundedInduction, TLAPS

\* Induction over the subsets of a finite set, with the set T of those that
\* have the property in place of a predicate.
Inductive(S, T) == \A s \in SUBSET S : (\A x \in s : s \ {x} \in T) => s \in T

LEMMA SubsetInduction ==
  ASSUME NEW S, IsFiniteSet(S), NEW T,
         Inductive(S, T)
  PROVE  SUBSET S \subseteq T
<1> DEFINE Bad == {s \in SUBSET S : s \notin T}
<1> SUFFICES ASSUME Bad # {} PROVE FALSE
    OBVIOUS
<1>1. FiniteSubsetsOf(S) = SUBSET S
      BY FS_FiniteSubsetsOfFinite
<1>2. IsWellFoundedOn(StrictSubsetOrdering(S), SUBSET S)
  <2>1. IsWellFoundedOn(StrictSubsetOrdering(S), FiniteSubsetsOf(S))
        BY FS_StrictSubsetOrderingWellFounded
  <2> QED BY <1>1, <2>1
<1>3. Bad \subseteq SUBSET S
      OBVIOUS
<1>4. PICK s \in Bad : \A t \in Bad : ~(<<t, s>> \in StrictSubsetOrdering(S))
  <2> HIDE DEF Bad
  <2> QED BY <1>2, <1>3, WFMin
<1>5. PICK x : x \in s /\ s \ {x} \notin T
      BY DEF Inductive
<1>6. s \ {x} \in SUBSET S
      OBVIOUS
<1>7. <<s \ {x}, s>> \in StrictSubsetOrdering(S)
      BY <1>5 DEF StrictSubsetOrdering
<1> QED BY <1>4, <1>5, <1>6, <1>7

\* Induction over the numbers, in the same form.
LEMMA NumberInduction ==
  ASSUME NEW T, 0 \in T, \A n \in Nat : n \in T => n + 1 \in T
  PROVE  Nat \subseteq T
<1> DEFINE Bad == {n \in Nat : n \notin T}
<1> SUFFICES ASSUME Bad # {} PROVE FALSE
    OBVIOUS
<1>1. Bad \subseteq Nat
      OBVIOUS
<1>2. PICK m \in Bad : \A n \in Bad : ~(<<n, m>> \in OpToRel(<, Nat))
  <2> HIDE DEF Bad
  <2> QED BY <1>1, NatLessThanWellFounded, WFMin
<1>3. m \in Nat /\ m # 0 /\ m - 1 \in Bad
      OBVIOUS
<1>4. <<m - 1, m>> \in OpToRel(<, Nat)
      BY <1>3 DEF OpToRel
<1> QED BY <1>2, <1>3, <1>4

-----------------------------------------------------------------------------
\* The recursion of MapThenFoldSet, as SumFunction uses it.
Chosen(s)     == CHOOSE x \in s : TRUE
Step(f, g, s) == IF s = {} THEN 0 ELSE f[Chosen(s)] + g[s \ {Chosen(s)}]

\* A function that satisfies the recursion exists.
LEMMA SumExists ==
  ASSUME NEW D, IsFiniteSet(D), NEW f \in [D -> Int]
  PROVE  \E g \in [SUBSET D -> Int] : g = [s \in SUBSET D |-> Step(f, g, s)]
<1> DEFINE Small(n) == {s \in SUBSET D : Cardinality(s) <= n}
           T == {n \in Nat : \E g \in [Small(n) -> Int] :
                                \A s \in Small(n) : g[s] = Step(f, g, s)}
<1>a. \A s \in SUBSET D : s # {} => Chosen(s) \in s
      BY DEF Chosen
<1>b. \A s \in SUBSET D : IsFiniteSet(s) /\ Cardinality(s) \in Nat
      BY FS_Subset, FS_CardinalityType
<1>c. \A s \in SUBSET D : \A x \in s : Cardinality(s \ {x}) = Cardinality(s) - 1
      BY <1>b, FS_RemoveElement
<1>1. 0 \in T
  <2>1. Small(0) = {{}}
        BY <1>b, FS_EmptySet
  <2>2. [s \in {{}} |-> 0] \in [Small(0) -> Int]
        BY <2>1
  <2>3. \A s \in Small(0) : [t \in {{}} |-> 0][s] = Step(f, [t \in {{}} |-> 0], s)
        BY <2>1 DEF Step
  <2> QED BY <2>2, <2>3
<1>2. ASSUME NEW n \in Nat, n \in T PROVE n + 1 \in T
  <2>1. PICK g \in [Small(n) -> Int] : \A s \in Small(n) : g[s] = Step(f, g, s)
        BY <1>2
  <2> DEFINE h == [s \in Small(n + 1) |-> Step(f, g, s)]
  <2>2. \A s \in Small(n + 1) : s # {} => s \ {Chosen(s)} \in Small(n)
    <3> SUFFICES ASSUME NEW s \in Small(n + 1), s # {}
                 PROVE  s \ {Chosen(s)} \in Small(n)
        OBVIOUS
    <3>1. Chosen(s) \in s /\ Cardinality(s) \in Nat
          BY <1>a, <1>b
    <3>2. Cardinality(s \ {Chosen(s)}) = Cardinality(s) - 1
          BY <1>c, <3>1
    <3> QED BY <3>1, <3>2
  <2>3. \A s \in Small(n) : s \in Small(n + 1)
        BY <1>b
  <2>4. \A s \in Small(n + 1) : Step(f, g, s) \in Int
        BY <1>a, <2>2 DEF Step
  <2>5. \A s \in Small(n) : h[s] = g[s]
        BY <2>1, <2>3
  <2>6. \A s \in Small(n + 1) : h[s] = Step(f, h, s)
    <3> TAKE s \in Small(n + 1)
    <3>1. h[s] = Step(f, g, s)
          OBVIOUS
    <3>2. CASE s = {}
          BY <3>1, <3>2 DEF Step
    <3>3. CASE s # {}
      <4>1. h[s \ {Chosen(s)}] = g[s \ {Chosen(s)}]
            BY <2>2, <2>5, <3>3
      <4> HIDE DEF h
      <4> QED BY <3>1, <3>3, <4>1 DEF Step
    <3> QED BY <3>2, <3>3
  <2>7. h \in [Small(n + 1) -> Int]
        BY <2>4
  <2>8. \E g1 \in [Small(n + 1) -> Int] :
           \A s \in Small(n + 1) : g1[s] = Step(f, g1, s)
    <3> HIDE DEF h, Small
    <3> QED BY <2>6, <2>7
  <2> HIDE DEF h, Small
  <2> QED BY <2>8
<1>3. Cardinality(D) \in T
  <2> HIDE DEF T
  <2> QED BY <1>1, <1>2, <1>b, NumberInduction
<1>4. Small(Cardinality(D)) = SUBSET D
      BY FS_Subset, <1>b
<1>5. PICK g \in [SUBSET D -> Int] : \A s \in SUBSET D : g[s] = Step(f, g, s)
      BY <1>3, <1>4
<1>6. g = [s \in SUBSET D |-> Step(f, g, s)]
      BY <1>5
<1> QED BY <1>6

\* SumFunction(f) is the value of such a function at the whole domain.
LEMMA SumUnfold ==
  ASSUME NEW D, IsFiniteSet(D), NEW f \in [D -> Int]
  PROVE  \E g \in [SUBSET D -> Int] :
            /\ \A s \in SUBSET D : g[s] = Step(f, g, s)
            /\ SumFunction(f) = g[D]
<1> DEFINE iter == CHOOSE g : g = [s \in SUBSET D |-> Step(f, g, s)]
<1>1. iter = [s \in SUBSET D |-> Step(f, iter, s)]
      BY SumExists
<1>2. SumFunction(f) = iter[D]
      BY DEF SumFunction, SumFunctionOnSet, FoldFunctionOnSet, MapThenFoldSet, Step, Chosen
<1>3. \A s \in SUBSET D : iter[s] = Step(f, iter, s)
      BY <1>1
<1>4. SUBSET D \subseteq {s \in SUBSET D : iter[s] \in Int}
  <2> DEFINE T == {s \in SUBSET D : iter[s] \in Int}
  <2>1. ASSUME NEW s \in SUBSET D, \A x \in s : s \ {x} \in T
        PROVE  s \in T
    <3> HIDE DEF iter
    <3>1. CASE s = {}
      <4>1. iter[s] = 0
            BY <1>3, <3>1 DEF Step
      <4> QED BY <4>1
    <3>2. CASE s # {}
      <4>1. Chosen(s) \in s
            BY <3>2 DEF Chosen
      <4>2. f[Chosen(s)] \in Int /\ iter[s \ {Chosen(s)}] \in Int
            BY <2>1, <4>1
      <4>3. iter[s] = f[Chosen(s)] + iter[s \ {Chosen(s)}]
            BY <1>3, <3>2 DEF Step
      <4> QED BY <4>2, <4>3
    <3> QED BY <3>1, <3>2
  <2> HIDE DEF T
  <2>2. Inductive(D, T)
        BY <2>1 DEF Inductive
  <2>3. SUBSET D \subseteq T
        BY <2>2, SubsetInduction
  <2> QED BY <2>3 DEF T
<1>5. iter \in [SUBSET D -> Int]
  <2> HIDE DEF iter
  <2> QED BY <1>1, <1>4
<1> HIDE DEF iter
<1> QED BY <1>2, <1>3, <1>5

\* The element a step takes out is an element.
LEMMA ChosenIsElement ==
  ASSUME NEW s, s # {}
  PROVE  Chosen(s) \in s
BY DEF Chosen

-----------------------------------------------------------------------------
\* A sum of integers is an integer.
LEMMA SumIsInt ==
  ASSUME NEW D, IsFiniteSet(D), NEW f \in [D -> Int]
  PROVE  SumFunction(f) \in Int
<1>1. PICK g \in [SUBSET D -> Int] : SumFunction(f) = g[D]
      BY SumUnfold
<1>2. D \in SUBSET D
      OBVIOUS
<1> QED BY <1>1, <1>2

\* A sum of naturals is a natural number.
LEMMA SumIsNat ==
  ASSUME NEW D, IsFiniteSet(D), NEW f \in [D -> Nat]
  PROVE  SumFunction(f) \in Nat
<1>1. f \in [D -> Int]
      OBVIOUS
<1>2. PICK g \in [SUBSET D -> Int] :
              /\ \A s \in SUBSET D : g[s] = Step(f, g, s)
              /\ SumFunction(f) = g[D]
      BY <1>1, SumUnfold
<1> DEFINE T == {s \in SUBSET D : g[s] \in Nat}
<1>3. ASSUME NEW s \in SUBSET D, \A x \in s : s \ {x} \in T
      PROVE  s \in T
  <2>1. CASE s = {}
    <3>1. g[s] = 0
          BY <1>2, <2>1 DEF Step
    <3> QED BY <3>1
  <2>2. CASE s # {}
    <3>1. Chosen(s) \in s
          BY <2>2, ChosenIsElement
    <3>2. f[Chosen(s)] \in Nat /\ g[s \ {Chosen(s)}] \in Nat
          BY <1>3, <3>1
    <3>3. g[s] = f[Chosen(s)] + g[s \ {Chosen(s)}]
          BY <1>2, <2>2 DEF Step
    <3> QED BY <3>2, <3>3
  <2> QED BY <2>1, <2>2
<1>4. SUBSET D \subseteq T
  <2> HIDE DEF T
  <2>1. Inductive(D, T)
        BY <1>3 DEF Inductive
  <2> QED BY <2>1, SubsetInduction
<1> QED BY <1>2, <1>4

\* The sum of a pointwise sum is the sum of the sums.
LEMMA SumAdds ==
  ASSUME NEW D, IsFiniteSet(D),
         NEW f \in [D -> Int], NEW g \in [D -> Int], NEW h \in [D -> Int],
         \A d \in D : h[d] = f[d] + g[d]
  PROVE  SumFunction(h) = SumFunction(f) + SumFunction(g)
<1>f. PICK F \in [SUBSET D -> Int] : /\ \A s \in SUBSET D : F[s] = Step(f, F, s)
                                     /\ SumFunction(f) = F[D]
      BY SumUnfold
<1>g. PICK G \in [SUBSET D -> Int] : /\ \A s \in SUBSET D : G[s] = Step(g, G, s)
                                     /\ SumFunction(g) = G[D]
      BY SumUnfold
<1>h. PICK H \in [SUBSET D -> Int] : /\ \A s \in SUBSET D : H[s] = Step(h, H, s)
                                     /\ SumFunction(h) = H[D]
      BY SumUnfold
<1> DEFINE T == {s \in SUBSET D : H[s] = F[s] + G[s]}
<1>1. ASSUME NEW s \in SUBSET D, \A x \in s : s \ {x} \in T
      PROVE  s \in T
  <2>1. CASE s = {}
    <3>1. F[s] = 0 /\ G[s] = 0 /\ H[s] = 0
          BY <1>f, <1>g, <1>h, <2>1 DEF Step
    <3> QED BY <3>1
  <2>2. CASE s # {}
    <3> DEFINE c == Chosen(s)
               r == s \ {c}
    <3>1. c \in s
          BY <2>2, ChosenIsElement
    <3>2. H[r] = F[r] + G[r]
          BY <1>1, <3>1
    <3>3. /\ F[s] = f[c] + F[r]
          /\ G[s] = g[c] + G[r]
          /\ H[s] = h[c] + H[r]
          BY <1>f, <1>g, <1>h, <2>2 DEF Step
    <3>4. /\ h[c] = f[c] + g[c]
          /\ f[c] \in Int /\ g[c] \in Int
          /\ r \in SUBSET D
          BY <3>1
    <3>5. F[r] \in Int /\ G[r] \in Int
          BY <3>4
    <3> HIDE DEF c, r
    <3> QED BY <3>2, <3>3, <3>4, <3>5
  <2> QED BY <2>1, <2>2
<1>2. SUBSET D \subseteq T
  <2> HIDE DEF T
  <2>1. Inductive(D, T)
        BY <1>1 DEF Inductive
  <2> QED BY <2>1, SubsetInduction
<1>3. H[D] = F[D] + G[D]
      BY <1>2
<1> QED BY <1>f, <1>g, <1>h, <1>3

\* A function that is zero everywhere sums to zero.
LEMMA SumOfZero ==
  ASSUME NEW D, IsFiniteSet(D)
  PROVE  SumFunction([d \in D |-> 0]) = 0
<1> DEFINE z == [d \in D |-> 0]
<1>1. z \in [D -> Int] /\ \A d \in D : z[d] = z[d] + z[d]
      OBVIOUS
<1> HIDE DEF z
<1>2. SumFunction(z) = SumFunction(z) + SumFunction(z)
      BY <1>1, SumAdds
<1>3. SumFunction(z) \in Int
      BY <1>1, SumIsInt
<1> DEFINE n == SumFunction(z)
<1>4. n \in Int /\ n = n + n
      BY <1>2, <1>3
<1> HIDE DEF n
<1>5. n = 0
      BY <1>4
<1> QED BY <1>5 DEF n, z

\* A function that is v at one point and zero elsewhere sums to v.
LEMMA SumOfPoint ==
  ASSUME NEW D, IsFiniteSet(D), NEW b \in D, NEW v \in Int
  PROVE  SumFunction([d \in D |-> IF d = b THEN v ELSE 0]) = v
<1> DEFINE p == [d \in D |-> IF d = b THEN v ELSE 0]
<1>1. p \in [D -> Int] /\ p[b] = v /\ \A d \in D : d # b => p[d] = 0
      OBVIOUS
<1> HIDE DEF p
<1>2. PICK P \in [SUBSET D -> Int] : /\ \A s \in SUBSET D : P[s] = Step(p, P, s)
                                     /\ SumFunction(p) = P[D]
      BY <1>1, SumUnfold
<1> DEFINE T == {s \in SUBSET D : P[s] = IF b \in s THEN v ELSE 0}
<1>3. ASSUME NEW s \in SUBSET D, \A x \in s : s \ {x} \in T
      PROVE  s \in T
  <2>1. CASE s = {}
    <3>1. P[s] = 0
          BY <1>2, <2>1 DEF Step
    <3> QED BY <2>1, <3>1
  <2>2. CASE s # {}
    <3> DEFINE c == Chosen(s)
               r == s \ {c}
    <3>1. c \in s
          BY <2>2, ChosenIsElement
    <3>2. P[r] = IF b \in r THEN v ELSE 0
          BY <1>3, <3>1
    <3>3. P[s] = p[c] + P[r]
          BY <1>2, <2>2 DEF Step
    <3>4. b \in r <=> b \in s /\ b # c
          OBVIOUS
    <3>5. p[c] = IF c = b THEN v ELSE 0
          BY <1>1, <3>1
    <3> HIDE DEF c, r
    <3>6. P[s] = IF b \in s THEN v ELSE 0
          BY <3>1, <3>2, <3>3, <3>4, <3>5
    <3> QED BY <3>6
  <2> QED BY <2>1, <2>2
<1>4. SUBSET D \subseteq T
  <2> HIDE DEF T
  <2>1. Inductive(D, T)
        BY <1>3 DEF Inductive
  <2> QED BY <2>1, SubsetInduction
<1>5. P[D] = v
      BY <1>4
<1> QED BY <1>2, <1>5 DEF p

\* What a change of one value does to the sum.
LEMMA SumUpdate ==
  ASSUME NEW D, IsFiniteSet(D), NEW f \in [D -> Int], NEW b \in D, NEW v \in Int
  PROVE  SumFunction([f EXCEPT ![b] = v]) = SumFunction(f) + (v - f[b])
<1> DEFINE p == [d \in D |-> IF d = b THEN v - f[b] ELSE 0]
           h == [f EXCEPT ![b] = v]
<1>1. /\ p \in [D -> Int] /\ h \in [D -> Int]
      /\ \A d \in D : h[d] = f[d] + p[d]
      OBVIOUS
<1>2. SumFunction(p) = v - f[b]
      BY SumOfPoint
<1> HIDE DEF p, h
<1>3. SumFunction(h) = SumFunction(f) + SumFunction(p)
      BY <1>1, SumAdds
<1> QED BY <1>2, <1>3 DEF h

\* A function that is smaller everywhere has the smaller sum.
LEMMA SumMonotone ==
  ASSUME NEW D, IsFiniteSet(D), NEW f \in [D -> Int], NEW g \in [D -> Int],
         \A d \in D : f[d] <= g[d]
  PROVE  SumFunction(f) <= SumFunction(g)
<1> DEFINE h == [d \in D |-> g[d] - f[d]]
<1>1. /\ h \in [D -> Nat] /\ h \in [D -> Int]
      /\ \A d \in D : g[d] = f[d] + h[d]
  <2>1. \A d \in D : f[d] \in Int /\ g[d] \in Int /\ g[d] - f[d] \in Nat
        OBVIOUS
  <2> QED BY <2>1
<1> HIDE DEF h
<1>2. SumFunction(g) = SumFunction(f) + SumFunction(h)
      BY <1>1, SumAdds
<1>3. SumFunction(h) \in Nat /\ SumFunction(f) \in Int
      BY <1>1, SumIsNat, SumIsInt
<1> QED BY <1>2, <1>3

\* A sum of naturals is at least each of its terms.
LEMMA SumAtLeastPoint ==
  ASSUME NEW D, IsFiniteSet(D), NEW f \in [D -> Int], \A d \in D : f[d] >= 0,
         NEW b \in D
  PROVE  f[b] <= SumFunction(f)
<1> DEFINE p == [d \in D |-> IF d = b THEN f[b] ELSE 0]
<1>1. p \in [D -> Int] /\ \A d \in D : p[d] <= f[d]
      OBVIOUS
<1>2. SumFunction(p) = f[b]
      BY SumOfPoint
<1> HIDE DEF p
<1>3. SumFunction(p) <= SumFunction(f)
      BY <1>1, SumMonotone
<1> QED BY <1>2, <1>3

\* A function that is v on a set and zero elsewhere sums to v for each element.
LEMMA SumOfIndicator ==
  ASSUME NEW D, IsFiniteSet(D), NEW S \in SUBSET D, NEW v \in Int
  PROVE  SumFunction([d \in D |-> IF d \in S THEN v ELSE 0]) = v * Cardinality(S)
<1> DEFINE on(s) == [d \in D |-> IF d \in s THEN v ELSE 0]
           T == {s \in SUBSET D : SumFunction(on(s)) = v * Cardinality(s)}
<1>1. ASSUME NEW s \in SUBSET D, \A x \in s : s \ {x} \in T
      PROVE  s \in T
  <2>1. CASE s = {}
    <3>1. on(s) = [d \in D |-> 0]
          BY <2>1
    <3>2. SumFunction(on(s)) = 0
          BY <3>1, SumOfZero
    <3> QED BY <2>1, <3>2, FS_EmptySet
  <2>2. CASE s # {}
    <3>1. PICK x \in s : TRUE
          BY <2>2
    <3> DEFINE r == s \ {x}
               p == [d \in D |-> IF d = x THEN v ELSE 0]
    <3>2. SumFunction(on(r)) = v * Cardinality(r)
          BY <1>1, <3>1
    <3>3. Cardinality(r) = Cardinality(s) - 1 /\ Cardinality(s) \in Nat
          BY <3>1, FS_Subset, FS_RemoveElement, FS_CardinalityType
    <3>4. SumFunction(p) = v
          BY <3>1, SumOfPoint
    <3>5. /\ on(r) \in [D -> Int] /\ p \in [D -> Int] /\ on(s) \in [D -> Int]
          /\ \A d \in D : on(s)[d] = on(r)[d] + p[d]
          BY <3>1
    <3> HIDE DEF on, p, r
    <3>6. SumFunction(on(s)) = v * Cardinality(r) + v
          BY <3>2, <3>4, <3>5, SumAdds
    <3> DEFINE n == Cardinality(s)
    <3>7. n \in Nat /\ Cardinality(r) = n - 1
          BY <3>3
    <3> HIDE DEF n
    <3>8. v * (n - 1) + v = v * n
          BY <3>7
    <3> QED BY <3>6, <3>7, <3>8 DEF n
  <2> QED BY <2>1, <2>2
<1>2. SUBSET D \subseteq T
  <2> HIDE DEF T
  <2>1. Inductive(D, T)
        BY <1>1 DEF Inductive
  <2> QED BY <2>1, SubsetInduction
<1> QED BY <1>2

-----------------------------------------------------------------------------
\* The same of a function that is zero but for one argument.
LEMMA SumAtPoint ==
  ASSUME NEW D, IsFiniteSet(D), NEW f \in [D -> Int], NEW b \in D,
         \A d \in D : d # b => f[d] = 0
  PROVE  SumFunction(f) = f[b]
<1> DEFINE v == f[b]
           p == [d \in D |-> IF d = b THEN v ELSE 0]
<1>1. f = p
      OBVIOUS
<1>2. v \in Int
      OBVIOUS
<1> HIDE DEF v
<1>3. SumFunction(p) = v
      BY <1>2, SumOfPoint
<1> HIDE DEF p
<1> QED BY <1>1, <1>3 DEF v

\* The sum over a part is that of the function that is zero outside of it.
LEMMA SumOfPart ==
  ASSUME NEW D, IsFiniteSet(D), NEW S \in SUBSET D,
         NEW part \in [S -> Int], NEW whole \in [D -> Int],
         \A d \in S : whole[d] = part[d], \A d \in D \ S : whole[d] = 0
  PROVE  SumFunction(part) = SumFunction(whole)
<1> DEFINE on(s) == [d \in D |-> IF d \in s THEN whole[d] ELSE 0]
<1>1. IsFiniteSet(S)
      BY FS_Subset
<1>2. PICK P \in [SUBSET S -> Int] : /\ \A s \in SUBSET S : P[s] = Step(part, P, s)
                                     /\ SumFunction(part) = P[S]
      BY <1>1, SumUnfold
<1> DEFINE T == {s \in SUBSET S : P[s] = SumFunction(on(s))}
<1>3. ASSUME NEW s \in SUBSET S, \A x \in s : s \ {x} \in T
      PROVE  s \in T
  <2>1. CASE s = {}
    <3>1. on(s) = [d \in D |-> 0]
          BY <2>1
    <3>2. SumFunction(on(s)) = 0
          BY <3>1, SumOfZero
    <3>3. P[s] = 0
          BY <1>2, <2>1 DEF Step
    <3> QED BY <3>2, <3>3
  <2>2. CASE s # {}
    <3> DEFINE c == Chosen(s)
               u == on(s)
               v == on(s \ {c})
               p == [d \in D |-> IF d = c THEN whole[c] ELSE 0]
    <3>1. c \in s /\ c \in D
          BY <2>2, ChosenIsElement
    <3>2. P[s \ {c}] = SumFunction(v)
          BY <1>3, <3>1
    <3>3. P[s] = part[c] + P[s \ {c}]
          BY <1>2, <2>2 DEF Step
    <3>4. part[c] = whole[c]
          BY <3>1
    <3> HIDE DEF c
    <3>5. SumFunction(p) = whole[c] /\ p \in [D -> Int]
          BY <3>1, SumOfPoint
    <3>6. u \in [D -> Int] /\ v \in [D -> Int]
          OBVIOUS
    <3>7. \A d \in D : u[d] = v[d] + p[d]
      <4>1. \A d \in D : whole[d] \in Int
            OBVIOUS
      <4> QED BY <3>1, <4>1
    <3> HIDE DEF u, v, p
    <3>8. SumFunction(u) = SumFunction(v) + SumFunction(p)
          BY <3>5, <3>6, <3>7, SumAdds
    <3>9. SumFunction(v) \in Int /\ SumFunction(p) \in Int
          BY <3>5, <3>6, SumIsInt
    <3>10. P[s] = SumFunction(u)
          BY <3>2, <3>3, <3>4, <3>5, <3>8, <3>9
    <3> QED BY <3>10 DEF u
  <2> QED BY <2>1, <2>2
<1>4. SUBSET S \subseteq T
  <2> HIDE DEF T
  <2>1. Inductive(S, T)
        BY <1>3 DEF Inductive
  <2> QED BY <1>1, <2>1, SubsetInduction
<1>5. P[S] = SumFunction(on(S))
      BY <1>4
<1>6. on(S) = whole
      OBVIOUS
<1> QED BY <1>2, <1>5, <1>6

-----------------------------------------------------------------------------
\* In a non-empty finite set some element has the greatest value.
LEMMA GreatestExists ==
  ASSUME NEW D, IsFiniteSet(D), NEW f \in [D -> Int], NEW S \in SUBSET D, S # {}
  PROVE  \E b \in S : \A c \in S : f[c] <= f[b]
<1> DEFINE HasGreatest(s) == \E b \in s : \A c \in s : f[c] <= f[b]
           T == {s \in SUBSET D : s # {} => HasGreatest(s)}
<1>1. ASSUME NEW s \in SUBSET D, \A x \in s : s \ {x} \in T
      PROVE  s \in T
  <2>1. CASE s = {}
        BY <2>1
  <2>2. CASE s # {}
    <3>1. PICK x \in s : TRUE
          BY <2>2
    <3>2. CASE s \ {x} = {}
      <4>1. s = {x} /\ f[x] \in Int
            BY <3>1, <3>2
      <4> QED BY <4>1
    <3>3. CASE s \ {x} # {}
      <4>1. s \ {x} \in T
            BY <1>1, <3>1
      <4>2. PICK b \in s \ {x} : \A c \in s \ {x} : f[c] <= f[b]
            BY <3>3, <4>1
      <4>3. f[x] \in Int /\ f[b] \in Int /\ \A c \in s : f[c] \in Int
            BY <3>1
      <4>4. CASE f[x] <= f[b]
            BY <4>2, <4>4
      <4>5. CASE ~(f[x] <= f[b])
        <5>1. \A c \in s : f[c] <= f[x]
              BY <4>2, <4>3, <4>5
        <5> QED BY <3>1, <5>1
      <4> QED BY <4>4, <4>5
    <3> QED BY <3>2, <3>3
  <2> QED BY <2>1, <2>2
<1>2. SUBSET D \subseteq T
  <2> HIDE DEF T
  <2>1. Inductive(D, T)
        BY <1>1 DEF Inductive
  <2> QED BY <2>1, SubsetInduction
<1> QED BY <1>2
=============================================================================
