------------------------- MODULE FiniteSums_proofs --------------------------
(***************************************************************************)
(* What SumOver and Max are for every finite set.  The recursion of        *)
(* MapThenFoldSet is shown to have a solution, and the facts about it are  *)
(* proved by SubsetInduction: the set of the subsets where a fact holds    *)
(* takes the place of a predicate.                                         *)
(***************************************************************************)
EXTENDS FiniteSums, Integers, FiniteSetTheorems, WellFoundedInduction, NaturalsInduction, TLAPS

\* Induction over the naturals for a set of them: it follows from the
\* well-foundedness of the order, and needs no operator parameter.
LEMMA NatSetInduction ==
    ASSUME NEW G, 0 \in G, \A n \in Nat : n \in G => n + 1 \in G
    PROVE  \A n \in Nat : n \in G
<1> DEFINE Less == OpToRel(<, Nat)
<1>1. IsWellFoundedOn(Less, Nat)
  BY NatLessThanWellFounded
<1>2. \A m, n \in Nat : m < n => <<m, n>> \in Less
  BY DEF OpToRel
<1> HIDE DEF Less
<1>3. SUFFICES ASSUME Nat \ G # {} PROVE FALSE
  OBVIOUS
<1>4. PICK n \in Nat \ G : \A m \in Nat \ G : ~(<<m, n>> \in Less)
  BY <1>1, <1>3, WFMin
<1>5. CASE n = 0
  BY <1>5
<1>6. CASE n # 0
  <2>1. n - 1 \in Nat /\ n - 1 < n /\ n = (n - 1) + 1
    BY <1>6
  <2>2. n - 1 \in G
    BY <1>2, <1>4, <2>1
  <2>3. (n - 1) + 1 \in G
    BY <2>1, <2>2
  <2>. QED  BY <2>1, <2>3
<1>. QED  BY <1>5, <1>6

\* Induction over the subsets of a finite set, by removing one element.
LEMMA SubsetInduction ==
    ASSUME NEW S, IsFiniteSet(S), NEW G,
           \A T \in SUBSET S : (\A x \in T : T \ {x} \in G) => T \in G
    PROVE  \A T \in SUBSET S : T \in G
<1>1. SUFFICES ASSUME (SUBSET S) \ G # {} PROVE FALSE
  OBVIOUS
<1>2. FiniteSubsetsOf(S) = SUBSET S
  BY FS_Subset DEF FiniteSubsetsOf
<1>3. PICK T \in (SUBSET S) \ G : \A U \in (SUBSET S) \ G :
                                   ~(<<U, T>> \in StrictSubsetOrdering(S))
  <2>1. IsWellFoundedOn(StrictSubsetOrdering(S), FiniteSubsetsOf(S))
    BY FS_StrictSubsetOrderingWellFounded
  <2>2. (SUBSET S) \ G \subseteq FiniteSubsetsOf(S)
    BY <1>2
  <2>. QED  BY <1>1, <2>1, <2>2, WFMin
<1>4. ASSUME NEW x \in T PROVE T \ {x} \in G
  <2>1. <<T \ {x}, T>> \in StrictSubsetOrdering(S)
    BY <1>3 DEF StrictSubsetOrdering
  <2>. QED  BY <1>3, <2>1
<1>. QED  BY <1>3, <1>4

PickSome(s) == CHOOSE x \in s : TRUE

SumDef(f, S, g) ==
    g = [s \in SUBSET S |-> IF s = {} THEN 0
                            ELSE f[PickSome(s)] + g[s \ {PickSome(s)}]]

SumSolution(f, S) == CHOOSE g : SumDef(f, S, g)

\* SumOver is the solution of its recursion, taken at the whole set.
LEMMA SumOverIter == \A f, S : SumOver(f, S) = SumSolution(f, S)[S]
BY DEF SumOver, SumSolution, SumDef, MapThenSumSet, MapThenFoldSet, PickSome

\* The recursion has a solution: extend one for the sets of at most n elements to
\* those of n + 1, until it covers the set.
LEMMA SumExists ==
    ASSUME NEW S, IsFiniteSet(S), NEW f
    PROVE  \E g : SumDef(f, S, g)
<1> DEFINE Upto(n) == { s \in SUBSET S : Cardinality(s) <= n }
           Body(g, s) == IF s = {} THEN 0
                         ELSE f[PickSome(s)] + g[s \ {PickSome(s)}]
           Good(n, g) == \A s \in Upto(n) : g[s] = Body(g, s)
           G == { n \in Nat : \E g : Good(n, g) }
<1>1. \A s \in SUBSET S : Cardinality(s) \in Nat /\ IsFiniteSet(s)
  BY FS_Subset, FS_CardinalityType
<1>2. 0 \in G
  <2>1. \A s \in Upto(0) : s = {}
    BY <1>1, FS_EmptySet
  <2> DEFINE g0 == [s \in SUBSET S |-> 0]
  <2>2. Good(0, g0)
    BY <2>1
  <2>. QED  BY <2>2
<1>3. ASSUME NEW n \in G PROVE n + 1 \in G
  <2>1. PICK g : Good(n, g)
    BY <1>3
  <2> DEFINE h == [s \in SUBSET S |-> Body(g, s)]
  <2>2. ASSUME NEW s \in Upto(n+1), s # {}
        PROVE  /\ s \ {PickSome(s)} \in SUBSET S
               /\ s \ {PickSome(s)} \in Upto(n)
    <3>1. PickSome(s) \in s
      BY <2>2 DEF PickSome
    <3>2. Cardinality(s \ {PickSome(s)}) = Cardinality(s) - 1
      BY <3>1, <1>1, FS_RemoveElement
    <3>. QED  BY <3>2, <1>1
  <2>3. ASSUME NEW s \in Upto(n) PROVE h[s] = g[s]
    BY <2>1
  <2>4. ASSUME NEW s \in Upto(n+1) PROVE h[s] = Body(h, s)
    <3>1. CASE s = {}
      BY <3>1
    <3>2. CASE s # {}
      <4>1. h[s \ {PickSome(s)}] = g[s \ {PickSome(s)}]
        BY <3>2, <2>2, <2>3
      <4>2. h[s] = f[PickSome(s)] + g[s \ {PickSome(s)}]
        BY <3>2
      <4> HIDE DEF h
      <4>. QED  BY <3>2, <4>1, <4>2
    <3>. QED  BY <3>1, <3>2
  <2>5. Good(n + 1, h)
    <3> HIDE DEF h, Body
    <3>. QED  BY <2>4
  <2>6. \E k : Good(n + 1, k)
    <3> HIDE DEF h, Good
    <3>. QED  BY <2>5
  <2>7. n \in Nat
    BY <1>3
  <2> HIDE DEF h, Good
  <2>. QED  BY <2>6, <2>7
<1>4. Cardinality(S) \in G
  <2>1. \A n \in Nat : n \in G
    <3> HIDE DEF G
    <3>1. 0 \in G /\ \A n \in Nat : n \in G => n + 1 \in G
      BY <1>2, <1>3
    <3>. QED  BY <3>1, NatSetInduction
  <2>. QED  BY <2>1, <1>1
<1>5. PICK g : Good(Cardinality(S), g)
  BY <1>4
<1>6. \A s \in SUBSET S : s \in Upto(Cardinality(S))
  BY <1>1, FS_Subset
<1> DEFINE h == [s \in SUBSET S |-> g[s]]
<1>7. SumDef(f, S, h)
  <2>1. ASSUME NEW s \in SUBSET S PROVE h[s] = Body(h, s)
    <3>1. g[s] = Body(g, s)
      BY <1>5, <1>6
    <3>2. s \ {PickSome(s)} \in SUBSET S
      OBVIOUS
    <3>. QED  BY <3>1, <3>2
  <2>2. h = [s \in SUBSET S |-> Body(h, s)]
    <3> DEFINE k == [s \in SUBSET S |-> Body(h, s)]
    <3>1. \A s \in SUBSET S : k[s] = h[s]
      BY <2>1
    <3>2. h = [s \in SUBSET S |-> h[s]]
      OBVIOUS
    <3>3. k = [s \in SUBSET S |-> k[s]]
      OBVIOUS
    <3> HIDE DEF h, k
    <3>4. h = k  BY <3>1, <3>2, <3>3
    <3>. QED  BY <3>4 DEF k
  <2>. QED  BY <2>2 DEF SumDef
<1>. QED  BY <1>7

\* The solution is a solution.
LEMMA SumIterates ==
    ASSUME NEW S, IsFiniteSet(S), NEW f, NEW T \in SUBSET S
    PROVE  SumSolution(f, S)[T] =
             IF T = {} THEN 0
             ELSE f[PickSome(T)] + SumSolution(f, S)[T \ {PickSome(T)}]
<1>1. SumDef(f, S, SumSolution(f, S))
  BY SumExists DEF SumSolution
<1>. QED  BY <1>1 DEF SumDef

\* The solution over a set, taken at a subset, is the sum over the subset.
LEMMA SumLocal ==
    ASSUME NEW S, IsFiniteSet(S), NEW f, NEW R \in SUBSET S
    PROVE  SumOver(f, R) = SumSolution(f, S)[R]
<1> DEFINE G == { T \in SUBSET R : SumSolution(f, S)[T] = SumSolution(f, R)[T] }
<1>1. IsFiniteSet(R)
  BY FS_Subset
<1>2. ASSUME NEW T \in SUBSET R, \A x \in T : T \ {x} \in G
      PROVE  T \in G
  <2>1. /\ SumSolution(f, S)[T] =
             IF T = {} THEN 0
             ELSE f[PickSome(T)] + SumSolution(f, S)[T \ {PickSome(T)}]
        /\ SumSolution(f, R)[T] =
             IF T = {} THEN 0
             ELSE f[PickSome(T)] + SumSolution(f, R)[T \ {PickSome(T)}]
    BY <1>1, SumIterates
  <2>2. T # {} => PickSome(T) \in T
    BY DEF PickSome
  <2>. QED  BY <1>2, <2>1, <2>2
<1>3. R \in G
  <2> HIDE DEF G
  <2>. QED  BY <1>1, <1>2, SubsetInduction
<1>. QED  BY <1>3, SumOverIter

\* How a sum is computed: one element, and the sum of the rest.
LEMMA SumSteps ==
    ASSUME NEW S, IsFiniteSet(S), NEW f
    PROVE  SumOver(f, S) = IF S = {} THEN 0
                           ELSE f[PickSome(S)] + SumOver(f, S \ {PickSome(S)})
<1>1. SumOver(f, S \ {PickSome(S)}) = SumSolution(f, S)[S \ {PickSome(S)}]
  BY SumLocal
<1>2. SumSolution(f, S)[S] = IF S = {} THEN 0
          ELSE f[PickSome(S)] + SumSolution(f, S)[S \ {PickSome(S)}]
  BY SumIterates
<1>. QED  BY <1>1, <1>2, SumOverIter

\* A sum of integers is an integer, and a sum of naturals a natural.
LEMMA SumType ==
    ASSUME NEW S, IsFiniteSet(S), NEW f
    PROVE  /\ (\A x \in S : f[x] \in Int) => SumOver(f, S) \in Int
           /\ (\A x \in S : f[x] \in Nat) => SumOver(f, S) \in Nat
<1> DEFINE G == { T \in SUBSET S :
                    /\ (\A x \in T : f[x] \in Int) => SumOver(f, T) \in Int
                    /\ (\A x \in T : f[x] \in Nat) => SumOver(f, T) \in Nat }
<1>1. \A T \in SUBSET S : (\A x \in T : T \ {x} \in G) => T \in G
  <2>1. SUFFICES ASSUME NEW T \in SUBSET S, \A x \in T : T \ {x} \in G
                 PROVE  T \in G
    OBVIOUS
  <2>2. SumOver(f, T) = IF T = {} THEN 0
                        ELSE f[PickSome(T)] + SumOver(f, T \ {PickSome(T)})
    BY FS_Subset, SumSteps
  <2>3. CASE T = {}
    BY <2>2, <2>3
  <2>4. CASE T # {}
    <3>1. PickSome(T) \in T
      BY <2>4 DEF PickSome
    <3>. QED  BY <2>1, <2>2, <2>4, <3>1
  <2>. QED  BY <2>3, <2>4
<1>2. S \in G
  <2> HIDE DEF G
  <2>. QED  BY <1>1, SubsetInduction
<1>. QED  BY <1>2

\* Any element can be taken out of a sum first: the order does not matter.
LEMMA SumRemove ==
    ASSUME NEW S, IsFiniteSet(S), NEW f, \A y \in S : f[y] \in Int, NEW x \in S
    PROVE  SumOver(f, S) = f[x] + SumOver(f, S \ {x})
<1> DEFINE G == { T \in SUBSET S : \A y \in T :
                    SumOver(f, T) = f[y] + SumOver(f, T \ {y}) }
<1>1. ASSUME NEW T \in SUBSET S PROVE SumOver(f, T) \in Int
  BY FS_Subset, SumType
<1>2. ASSUME NEW T \in SUBSET S, \A y \in T : T \ {y} \in G PROVE T \in G
  <2>1. SUFFICES ASSUME NEW y \in T
                 PROVE  SumOver(f, T) = f[y] + SumOver(f, T \ {y})
    OBVIOUS
  <2> DEFINE p == PickSome(T)
  <2>2. p \in T
    BY DEF PickSome
  <2>3. SumOver(f, T) = f[p] + SumOver(f, T \ {p})
    BY FS_Subset, SumSteps
  <2> HIDE DEF p
  <2>4. CASE y = p
    BY <2>3, <2>4
  <2>5. CASE y # p
    <3>1. SumOver(f, T \ {p}) = f[y] + SumOver(f, (T \ {p}) \ {y})
      BY <1>2, <2>2, <2>5
    <3>2. SumOver(f, T \ {y}) = f[p] + SumOver(f, (T \ {y}) \ {p})
      BY <1>2, <2>2, <2>5
    <3>3. (T \ {p}) \ {y} = (T \ {y}) \ {p}
      OBVIOUS
    <3>4. f[p] \in Int /\ f[y] \in Int /\ SumOver(f, (T \ {y}) \ {p}) \in Int
      BY <1>1, <2>2
    <3> DEFINE rest == SumOver(f, (T \ {y}) \ {p})
    <3>5. /\ SumOver(f, T) = f[p] + (f[y] + rest)
          /\ SumOver(f, T \ {y}) = f[p] + rest
          /\ rest \in Int
      BY <2>3, <3>1, <3>2, <3>3, <3>4
    <3> HIDE DEF rest
    <3>. QED  BY <3>4, <3>5
  <2>. QED  BY <2>4, <2>5
<1>3. S \in G
  <2>1. \A T \in SUBSET S : (\A y \in T : T \ {y} \in G) => T \in G
    BY <1>2
  <2> HIDE DEF G
  <2>2. \A T \in SUBSET S : T \in G
    BY <2>1, SubsetInduction
  <2>. QED  BY <2>2
<1>. QED  BY <1>3

\* Functions that agree on a set have the same sum over it.
LEMMA SumAgree ==
    ASSUME NEW S, IsFiniteSet(S), NEW f, NEW g, \A y \in S : f[y] = g[y]
    PROVE  SumOver(f, S) = SumOver(g, S)
<1> DEFINE G == { T \in SUBSET S : SumOver(f, T) = SumOver(g, T) }
<1>1. ASSUME NEW T \in SUBSET S, \A y \in T : T \ {y} \in G PROVE T \in G
  <2>1. IsFiniteSet(T)
    BY FS_Subset
  <2>2. /\ SumOver(f, T) = IF T = {} THEN 0
                           ELSE f[PickSome(T)] + SumOver(f, T \ {PickSome(T)})
        /\ SumOver(g, T) = IF T = {} THEN 0
                           ELSE g[PickSome(T)] + SumOver(g, T \ {PickSome(T)})
    BY <2>1, SumSteps
  <2>3. T # {} => PickSome(T) \in T
    BY DEF PickSome
  <2>. QED  BY <1>1, <2>2, <2>3
<1>2. S \in G
  <2> HIDE DEF G
  <2>. QED  BY <1>1, SubsetInduction, SMTT(30)
<1>. QED  BY <1>2

\* A sum of nothing but zeros is zero.
LEMMA SumZero ==
    ASSUME NEW S, IsFiniteSet(S), NEW f, \A y \in S : f[y] = 0
    PROVE  SumOver(f, S) = 0
<1> DEFINE G == { T \in SUBSET S : SumOver(f, T) = 0 }
<1>1. ASSUME NEW T \in SUBSET S, \A y \in T : T \ {y} \in G PROVE T \in G
  <2>1. SumOver(f, T) = IF T = {} THEN 0
                        ELSE f[PickSome(T)] + SumOver(f, T \ {PickSome(T)})
    BY FS_Subset, SumSteps
  <2>2. T # {} => PickSome(T) \in T
    BY DEF PickSome
  <2>. QED  BY <1>1, <2>1, <2>2
<1>2. S \in G
  <2>1. \A T \in SUBSET S : (\A y \in T : T \ {y} \in G) => T \in G
    BY <1>1
  <2> HIDE DEF G
  <2>2. \A U \in SUBSET S : U \in G
    BY <2>1, SubsetInduction
  <2>. QED  BY <2>2
<1>. QED  BY <1>2

\* The sum of the sums of two functions.
LEMMA SumAdd ==
    ASSUME NEW S, IsFiniteSet(S), NEW f, NEW g, NEW h,
           \A y \in S : f[y] \in Int /\ g[y] \in Int /\ h[y] = f[y] + g[y]
    PROVE  SumOver(h, S) = SumOver(f, S) + SumOver(g, S)
<1> DEFINE G == { T \in SUBSET S : SumOver(h, T) = SumOver(f, T) + SumOver(g, T) }
<1>1. ASSUME NEW T \in SUBSET S, \A y \in T : T \ {y} \in G PROVE T \in G
  <2>1. \A U \in SUBSET T : SumOver(f, U) \in Int /\ SumOver(g, U) \in Int
    BY FS_Subset, SumType
  <2> DEFINE x == PickSome(T)
             rest == T \ {x}
  <2>2. /\ SumOver(h, T) = IF T = {} THEN 0 ELSE h[x] + SumOver(h, rest)
        /\ SumOver(f, T) = IF T = {} THEN 0 ELSE f[x] + SumOver(f, rest)
        /\ SumOver(g, T) = IF T = {} THEN 0 ELSE g[x] + SumOver(g, rest)
    BY FS_Subset, SumSteps
  <2>3. T # {} => x \in T
    BY DEF PickSome
  <2>4. rest \in SUBSET T
    OBVIOUS
  <2>5. T # {} => SumOver(h, rest) = SumOver(f, rest) + SumOver(g, rest)
    BY <1>1, <2>3
  <2>6. T # {} => f[x] \in Int /\ g[x] \in Int /\ h[x] = f[x] + g[x]
    BY <2>3
  <2> HIDE DEF x, rest
  <2>. QED  BY <2>1, <2>2, <2>4, <2>5, <2>6
<1>2. S \in G
  <2>1. \A T \in SUBSET S : (\A y \in T : T \ {y} \in G) => T \in G
    BY <1>1
  <2> HIDE DEF G
  <2>2. \A U \in SUBSET S : U \in G
    BY <2>1, SubsetInduction
  <2>. QED  BY <2>2
<1>. QED  BY <1>2

\* The sum of what is never larger is not larger.
LEMMA SumMono ==
    ASSUME NEW S, IsFiniteSet(S), NEW f, NEW g,
           \A y \in S : f[y] \in Int /\ g[y] \in Int /\ f[y] <= g[y]
    PROVE  SumOver(f, S) <= SumOver(g, S)
<1> DEFINE d == [y \in S |-> g[y] - f[y]]
<1>1. \A y \in S : d[y] \in Nat /\ d[y] \in Int /\ g[y] = f[y] + d[y]
  OBVIOUS
<1> HIDE DEF d
<1>2. SumOver(g, S) = SumOver(f, S) + SumOver(d, S)
  BY <1>1, SumAdd
<1>3. SumOver(f, S) \in Int /\ SumOver(d, S) \in Nat
  BY <1>1, SumType
<1>. QED  BY <1>2, <1>3

\* What is summed over two sets that share nothing.
LEMMA SumUnion ==
    ASSUME NEW S, NEW T, IsFiniteSet(S), IsFiniteSet(T), S \cap T = {},
           NEW f, \A y \in S \cup T : f[y] \in Int
    PROVE  SumOver(f, S \cup T) = SumOver(f, S) + SumOver(f, T)
<1> DEFINE G == { U \in SUBSET T : SumOver(f, S \cup U) = SumOver(f, S) + SumOver(f, U) }
<1>1. ASSUME NEW U \in SUBSET T, \A y \in U : U \ {y} \in G PROVE U \in G
  <2>1. IsFiniteSet(U) /\ IsFiniteSet(S \cup U)
    BY FS_Subset, FS_Union
  <2>2. CASE U = {}
    <3>1. SumOver(f, U) = 0
      BY <2>1, <2>2, SumSteps
    <3>2. SumOver(f, S) \in Int
      BY SumType
    <3>3. S \cup U = S
      BY <2>2
    <3>4. \A a \in Int : a = a + 0
      OBVIOUS
    <3>5. SumOver(f, S) = SumOver(f, S) + 0
      BY <3>2, <3>4
    <3>. QED  BY <3>1, <3>3, <3>5
  <2>3. CASE U # {}
    <3>1. PICK x \in U : TRUE
      BY <2>3
    <3>2. SumOver(f, U) = f[x] + SumOver(f, U \ {x})
      BY <2>1, SumRemove
    <3>3. SumOver(f, S \cup U) = f[x] + SumOver(f, (S \cup U) \ {x})
      BY <2>1, SumRemove
    <3>4. (S \cup U) \ {x} = S \cup (U \ {x})
      BY <3>1
    <3>5. SumOver(f, S \cup (U \ {x})) = SumOver(f, S) + SumOver(f, U \ {x})
      BY <1>1
    <3>6. SumOver(f, S) \in Int /\ SumOver(f, U \ {x}) \in Int /\ f[x] \in Int
      <4>1. IsFiniteSet(U \ {x})
        BY <2>1, FS_Subset
      <4>. QED  BY <4>1, SumType
    <3> DEFINE a == SumOver(f, S)
               b == SumOver(f, U \ {x})
    <3>7. /\ SumOver(f, S \cup U) = f[x] + (a + b)
          /\ SumOver(f, U) = f[x] + b
          /\ a \in Int /\ b \in Int /\ f[x] \in Int
      BY <3>2, <3>3, <3>4, <3>5, <3>6
    <3>8. SumOver(f, S) = a
      OBVIOUS
    <3> HIDE DEF a, b
    <3>9. SumOver(f, S \cup U) = a + SumOver(f, U)
      BY <3>7
    <3>. QED  BY <3>8, <3>9
  <2>. QED  BY <2>2, <2>3
<1>2. T \in G
  <2>1. \A U \in SUBSET T : (\A y \in U : U \ {y} \in G) => U \in G
    BY <1>1
  <2> HIDE DEF G
  <2>2. \A U \in SUBSET T : U \in G
    BY <2>1, SubsetInduction
  <2>. QED  BY <2>2
<1>. QED  BY <1>2

\* A part of a sum of naturals is no more than the sum.
LEMMA SumSubset ==
    ASSUME NEW S, IsFiniteSet(S), NEW T \in SUBSET S, NEW f, \A y \in S : f[y] \in Nat
    PROVE  SumOver(f, T) <= SumOver(f, S)
<1>1. IsFiniteSet(T) /\ IsFiniteSet(S \ T)
  BY FS_Subset
<1>2. T \cup (S \ T) = S /\ T \cap (S \ T) = {}
  OBVIOUS
<1>3. SumOver(f, S) = SumOver(f, T) + SumOver(f, S \ T)
  <2>1. SumOver(f, T \cup (S \ T)) = SumOver(f, T) + SumOver(f, S \ T)
    BY <1>1, <1>2, SumUnion
  <2>. QED  BY <1>2, <2>1
<1>4. SumOver(f, T) \in Nat /\ SumOver(f, S \ T) \in Nat
  BY <1>1, SumType
<1>. QED  BY <1>3, <1>4

\* A sum of ones counts.
LEMMA SumOnes ==
    ASSUME NEW S, IsFiniteSet(S), NEW f, \A y \in S : f[y] = 1
    PROVE  SumOver(f, S) = Cardinality(S)
<1> DEFINE G == { T \in SUBSET S : SumOver(f, T) = Cardinality(T) }
<1>1. ASSUME NEW T \in SUBSET S, \A y \in T : T \ {y} \in G PROVE T \in G
  <2>1. IsFiniteSet(T) /\ Cardinality(T) \in Nat
    BY FS_Subset, FS_CardinalityType
  <2>2. SumOver(f, T) = IF T = {} THEN 0
                        ELSE f[PickSome(T)] + SumOver(f, T \ {PickSome(T)})
    BY <2>1, SumSteps
  <2>3. T # {} => PickSome(T) \in T
    BY DEF PickSome
  <2>4. CASE T = {}
    BY <2>2, <2>4, FS_EmptySet
  <2>5. CASE T # {}
    <3>1. Cardinality(T \ {PickSome(T)}) = Cardinality(T) - 1
      BY <2>1, <2>3, <2>5, FS_RemoveElement
    <3>. QED  BY <1>1, <2>1, <2>2, <2>3, <2>5, <3>1
  <2>. QED  BY <2>4, <2>5
<1>2. S \in G
  <2>1. \A T \in SUBSET S : (\A y \in T : T \ {y} \in G) => T \in G
    BY <1>1
  <2> HIDE DEF G
  <2>2. \A U \in SUBSET S : U \in G
    BY <2>1, SubsetInduction
  <2>. QED  BY <2>2
<1>. QED  BY <1>2

\* A finite set of integers has a largest element.
LEMMA MaxExists ==
    ASSUME NEW S, IsFiniteSet(S), S # {}, \A x \in S : x \in Int
    PROVE  \E x \in S : \A y \in S : x >= y
<1> DEFINE G == { T \in SUBSET S : T # {} => \E x \in T : \A y \in T : x >= y }
<1>1. ASSUME NEW T \in SUBSET S, \A y \in T : T \ {y} \in G PROVE T \in G
  <2>1. CASE T = {}
    BY <2>1
  <2>2. CASE T # {}
    <3>1. PICK z \in T : TRUE
      BY <2>2
    <3>2. CASE T \ {z} = {}
      <4>1. \A y \in T : z >= y
        BY <3>1, <3>2
      <4>. QED  BY <3>1, <4>1
    <3>3. CASE T \ {z} # {}
      <4>1. PICK x \in T \ {z} : \A y \in T \ {z} : x >= y
        BY <1>1, <3>1, <3>3
      <4>2. x \in Int /\ z \in Int /\ \A y \in T : y \in Int
        BY <3>1, <4>1
      <4>3. x >= z \/ z >= x
        BY <4>2
      <4>4. CASE x >= z
        BY <4>1, <4>4
      <4>5. CASE z >= x
        <5>1. \A y \in T : z >= y
          BY <3>1, <4>1, <4>2, <4>5
        <5>. QED  BY <3>1, <5>1
      <4>. QED  BY <4>3, <4>4, <4>5
    <3>. QED  BY <3>2, <3>3
  <2>. QED  BY <2>1, <2>2
<1>2. \A T \in SUBSET S : T \in G
  <2>1. \A T \in SUBSET S : (\A y \in T : T \ {y} \in G) => T \in G
    BY <1>1
  <2> HIDE DEF G
  <2>. QED  BY <2>1, SubsetInduction
<1>. QED  BY <1>2

\* Max is that element.
LEMMA MaxIs ==
    ASSUME NEW S, IsFiniteSet(S), S # {}, \A x \in S : x \in Int
    PROVE  Max(S) \in S /\ \A y \in S : Max(S) >= y
BY MaxExists DEF Max

\* The values of a function on a finite set are a finite set.
LEMMA FiniteImage ==
    ASSUME NEW S, IsFiniteSet(S), NEW f
    PROVE  IsFiniteSet({ f[x] : x \in S })
<1> DEFINE T == { f[x] : x \in S }
           g == [x \in S |-> f[x]]
<1>1. g \in Surjection(S, T)
  BY DEF Surjection
<1> HIDE DEF g
<1>. QED  BY <1>1, FS_Surjection
=============================================================================
