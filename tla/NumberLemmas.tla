---------------------------- MODULE NumberLemmas ----------------------------
(***************************************************************************)
(* Facts about sets of numbers that several proofs use.                    *)
(***************************************************************************)
EXTENDS Integers, FiniteSetsExt, FiniteSetTheorems, WellFoundedInduction, TLAPS

\* A bounded set of numbers that is not empty has a greatest element, so that Max finds it.
LEMMA MaxIsElement ==
    ASSUME NEW n \in Nat, NEW S \in SUBSET (1 .. n), S # {}
    PROVE  Max(S) \in S /\ \A x \in S : Max(S) >= x
  <1> DEFINE T == {n - x : x \in S}
  <1>1. T \subseteq Nat /\ T # {}
    <2>1. PICK x \in S : TRUE
      OBVIOUS
    <2>2. n - x \in T
      BY <2>1
    <2>3. \A z \in S : z \in 1 .. n
      OBVIOUS
    <2>4. \A z \in S : n - z \in Nat
      BY <2>3
    <2> QED  BY <2>2, <2>4
  <1>2. PICK y \in T : \A z \in T : ~(<<z, y>> \in OpToRel(<, Nat))
    BY <1>1, NatLessThanWellFounded, WFMin
  <1>3. \A z \in T : ~(z < y)
    BY <1>1, <1>2 DEF OpToRel
  <1>4. PICK x \in S : y = n - x
    OBVIOUS
  <1>5. \A z \in S : x >= z
    <2> SUFFICES ASSUME NEW z \in S PROVE x >= z
      OBVIOUS
    <2>1. ~(n - z < n - x)
      BY <1>3, <1>4
    <2> QED  BY <2>1
  <1> QED  BY <1>5 DEF Max

-----------------------------------------------------------------------------
(* Sums over a finite set: FoldSet adds its elements one after the other.   *)

SumOver(h, S) == FoldSet(LAMBDA t, sum : sum + h[t], 0, S)

\* The element that FoldSet takes from a set.
Taken(s) == CHOOSE x \in s : TRUE

\* What the function of FoldSet is at s, when it is g elsewhere.
AddTaken(h, g, s) == IF s = {} THEN 0 ELSE g[s \ {Taken(s)}] + h[Taken(s)]

\* g sums up h over the subsets of D.
AddsUp(h, D, g) == g = [s \in SUBSET D |-> AddTaken(h, g, s)]

\* h and k are the same on S.
Alike(h, k, S) == \A x \in S : h[x] = k[x]

\* h gives a number for every element of S.
Numbers(h, S) == \A x \in S : h[x] \in Int

\* The element taken from a set leaves a smaller one.
LEMMA TakenOnce ==
    ASSUME NEW D, IsFiniteSet(D), NEW s \in SUBSET D, s # {}
    PROVE  /\ Taken(s) \in s /\ Taken(s) \in D
           /\ s \ {Taken(s)} \in SUBSET D
           /\ IsFiniteSet(s) /\ Cardinality(s) \in Nat
           /\ Cardinality(s \ {Taken(s)}) = Cardinality(s) - 1
           /\ Cardinality(s) > 0
  <1>1. Taken(s) \in s
    BY DEF Taken
  <1>2. IsFiniteSet(s)
    BY FS_Subset
  <1>3. Cardinality(s) \in Nat /\ Cardinality(s) # 0
    BY <1>2, FS_CardinalityType, FS_EmptySet
  <1>4. Cardinality(s \ {Taken(s)}) = Cardinality(s) - 1
    BY <1>1, <1>2, FS_RemoveElement
  <1> QED  BY <1>1, <1>2, <1>3, <1>4

\* Every number of a set of numbers has the property when a least one without it is absurd.
LEMMA LeastOne ==
    ASSUME NEW Bad \in SUBSET Nat, Bad # {}
    PROVE  \E n \in Bad : \A m \in Nat : m < n => m \notin Bad
  <1>1. PICK n \in Bad : \A m \in Bad : ~(<<m, n>> \in OpToRel(<, Nat))
    BY NatLessThanWellFounded, WFMin
  <1>2. \A m \in Bad : ~(m < n)
    BY <1>1 DEF OpToRel
  <1> QED  BY <1>1, <1>2

\* There is a function that sums up h.
LEMMA SumExists ==
    ASSUME NEW D, IsFiniteSet(D), NEW h, Numbers(h, D)
    PROVE  \E g \in [SUBSET D -> Int] : AddsUp(h, D, g)
  <1> DEFINE Upto(n, g) == \A s \in SUBSET D : Cardinality(s) <= n => g[s] = AddTaken(h, g, s)
             Bad == {n \in Nat : ~\E g \in [SUBSET D -> Int] : Upto(n, g)}
  <1>1. Bad = {}
    <2>1. SUFFICES ASSUME Bad # {} PROVE FALSE
      OBVIOUS
    <2>2. PICK n \in Bad : \A m \in Nat : m < n => m \notin Bad
      <3>1. Bad \in SUBSET Nat
        OBVIOUS
      <3> HIDE DEF Bad
      <3> QED  BY <2>1, <3>1, LeastOne
    <2>3. n \in Nat
      BY <2>2
    <2>4. \E g \in [SUBSET D -> Int] : n # 0 => Upto(n - 1, g)
      <3>1. CASE n = 0
        <4>1. [s \in SUBSET D |-> 0] \in [SUBSET D -> Int]
          OBVIOUS
        <4> QED  BY <3>1, <4>1
      <3>2. CASE n # 0
        <4>1. n - 1 \in Nat /\ n - 1 < n
          BY <2>3, <3>2
        <4> QED  BY <4>1, <2>2
      <3> QED  BY <3>1, <3>2
    <2>5. PICK g \in [SUBSET D -> Int] : n # 0 => Upto(n - 1, g)
      BY <2>4
    <2> DEFINE f == [s \in SUBSET D |-> AddTaken(h, g, s)]
    <2>6. f \in [SUBSET D -> Int]
      <3>1. ASSUME NEW s \in SUBSET D PROVE AddTaken(h, g, s) \in Int
        <4>1. CASE s = {}
          BY <4>1 DEF AddTaken
        <4>2. CASE s # {}
          <5>1. g[s \ {Taken(s)}] \in Int /\ h[Taken(s)] \in Int
            <6>1. s \ {Taken(s)} \in SUBSET D /\ Taken(s) \in D
              BY <4>2, TakenOnce
            <6> QED  BY <6>1 DEF Numbers
          <5> QED  BY <4>2, <5>1 DEF AddTaken
        <4> QED  BY <4>1, <4>2
      <3> QED  BY <3>1
    <2>7. Upto(n, f)
      <3>1. SUFFICES ASSUME NEW s \in SUBSET D, Cardinality(s) <= n
                     PROVE  f[s] = AddTaken(h, f, s)
        OBVIOUS
      <3>2. f[s] = AddTaken(h, g, s)
        OBVIOUS
      <3>3. CASE s = {}
        BY <3>2, <3>3 DEF AddTaken
      <3>4. CASE s # {}
        <4> DEFINE r == s \ {Taken(s)}
        <4>1. r \in SUBSET D /\ Cardinality(r) = Cardinality(s) - 1
              /\ Cardinality(s) \in Nat /\ Cardinality(s) > 0
          BY <3>4, TakenOnce
        <4>2. n # 0 /\ Cardinality(r) <= n - 1
          BY <3>1, <4>1, <2>3
        <4>3. g[r] = AddTaken(h, g, r)
          BY <4>1, <4>2, <2>5
        <4>4. f[r] = AddTaken(h, g, r)
          BY <4>1
        <4>5. f[r] = g[r]
          BY <4>3, <4>4
        <4> HIDE DEF f
        <4> QED  BY <3>2, <3>4, <4>5 DEF AddTaken
      <3> QED  BY <3>3, <3>4
    <2>8. \E k \in [SUBSET D -> Int] : Upto(n, k)
      <3> HIDE DEF f, Upto
      <3> QED  BY <2>6, <2>7
    <2> QED  BY <2>2, <2>8
  <1>2. Cardinality(D) \in Nat
    BY FS_CardinalityType
  <1>3. PICK g \in [SUBSET D -> Int] : Upto(Cardinality(D), g)
    BY <1>1, <1>2
  <1>4. \A s \in SUBSET D : g[s] = AddTaken(h, g, s)
    <2>1. \A s \in SUBSET D : Cardinality(s) <= Cardinality(D)
      BY FS_Subset
    <2> QED  BY <1>3, <2>1
  <1>5. g = [s \in SUBSET D |-> AddTaken(h, g, s)]
    BY <1>4
  <1> QED  BY <1>5 DEF AddsUp

\* Functions that sum up the same numbers are the same where both are defined.
LEMMA SumIsOne ==
    ASSUME NEW D, IsFiniteSet(D), NEW S \in SUBSET D, NEW h, NEW k, NEW f, NEW g,
           Alike(h, k, S), AddsUp(h, D, f), AddsUp(k, S, g)
    PROVE  \A s \in SUBSET S : f[s] = g[s]
  <1> DEFINE Bad == {n \in Nat : \E s \in SUBSET S : Cardinality(s) = n /\ f[s] # g[s]}
  <1>1. IsFiniteSet(S)
    BY FS_Subset
  <1>2. \A s \in SUBSET S : f[s] = AddTaken(h, f, s) /\ g[s] = AddTaken(k, g, s)
    <2>1. SUBSET S \subseteq SUBSET D
      OBVIOUS
    <2>2. f = [s \in SUBSET D |-> AddTaken(h, f, s)]
      BY DEF AddsUp
    <2>3. g = [s \in SUBSET S |-> AddTaken(k, g, s)]
      BY DEF AddsUp
    <2>4. ASSUME NEW s \in SUBSET S PROVE f[s] = AddTaken(h, f, s)
      <3>1. s \in SUBSET D
        OBVIOUS
      <3>2. [x \in SUBSET D |-> AddTaken(h, f, x)][s] = AddTaken(h, f, s)
        BY <3>1
      <3> QED  BY <2>2, <3>2
    <2>5. ASSUME NEW s \in SUBSET S PROVE g[s] = AddTaken(k, g, s)
      <3>1. [x \in SUBSET S |-> AddTaken(k, g, x)][s] = AddTaken(k, g, s)
        OBVIOUS
      <3> QED  BY <2>3, <3>1
    <2> QED  BY <2>4, <2>5
  <1>3. Bad = {}
    <2>1. SUFFICES ASSUME Bad # {} PROVE FALSE
      OBVIOUS
    <2>2. PICK n \in Bad : \A m \in Nat : m < n => m \notin Bad
      <3>1. Bad \in SUBSET Nat
        OBVIOUS
      <3> HIDE DEF Bad
      <3> QED  BY <2>1, <3>1, LeastOne
    <2>3. PICK s \in SUBSET S : Cardinality(s) = n /\ f[s] # g[s]
      BY <2>2
    <2>4. CASE s = {}
      BY <1>2, <2>3, <2>4 DEF AddTaken
    <2>5. CASE s # {}
      <3> DEFINE r == s \ {Taken(s)}
      <3>1. Taken(s) \in S /\ r \in SUBSET S /\ Cardinality(r) = n - 1 /\ n \in Nat /\ n > 0
        BY <1>1, <2>3, <2>5, TakenOnce
      <3>2. n - 1 \in Nat /\ n - 1 < n
        BY <3>1
      <3>3. f[r] = g[r]
        BY <2>2, <3>1, <3>2
      <3>4. f[s] = f[r] + h[Taken(s)] /\ g[s] = g[r] + k[Taken(s)]
        BY <1>2, <2>5 DEF AddTaken
      <3> QED  BY <2>3, <3>1, <3>3, <3>4 DEF Alike
    <2> QED  BY <2>4, <2>5
  <1>4. ASSUME NEW s \in SUBSET S PROVE f[s] = g[s]
    <2>1. Cardinality(s) \in Nat
      BY <1>1, FS_Subset, FS_CardinalityType
    <2> QED  BY <1>3, <2>1
  <1> QED  BY <1>4

\* FoldSet computes such a function.
LEMMA SumIsFold ==
    ASSUME NEW S, IsFiniteSet(S), NEW h, Numbers(h, S)
    PROVE  \E g \in [SUBSET S -> Int] : AddsUp(h, S, g) /\ SumOver(h, S) = g[S]
  <1> DEFINE iter == CHOOSE g : g = [s \in SUBSET S |-> AddTaken(h, g, s)]
  <1>1. PICK k \in [SUBSET S -> Int] : AddsUp(h, S, k)
    BY SumExists
  <1>2. \E g : g = [s \in SUBSET S |-> AddTaken(h, g, s)]
    <2>1. k = [s \in SUBSET S |-> AddTaken(h, k, s)]
      BY <1>1 DEF AddsUp
    <2> QED  BY <2>1
  <1>3. iter = [s \in SUBSET S |-> AddTaken(h, iter, s)]
    BY <1>2
  <1>4. SumOver(h, S) = iter[S]
    BY DEF SumOver, FoldSet, MapThenFoldSet, AddTaken, Taken
  <1> HIDE DEF iter
  <1>5. AddsUp(h, S, iter)
    BY <1>3 DEF AddsUp
  <1>6. \A s \in SUBSET S : k[s] = iter[s]
    <2>1. Alike(h, h, S) /\ S \in SUBSET S
      BY DEF Alike
    <2> QED  BY <1>1, <1>5, <2>1, SumIsOne
  <1>7. iter \in [SUBSET S -> Int]
    <2>1. \A s \in SUBSET S : AddTaken(h, iter, s) \in Int
      BY <1>3, <1>6
    <2>2. [s \in SUBSET S |-> AddTaken(h, iter, s)] \in [SUBSET S -> Int]
      BY <2>1
    <2> QED  BY <1>3, <2>2
  <1> QED  BY <1>4, <1>5, <1>7

\* g counts every member of s once.
CountsEach(h, g, s) == \A x \in s : g[s] = g[s \ {x}] + h[x]

\* Whichever element of a set the sum takes first.
LEMMA SumWithOne ==
    ASSUME NEW D, IsFiniteSet(D), NEW h, Numbers(h, D), NEW g \in [SUBSET D -> Int],
           AddsUp(h, D, g)
    PROVE  \A s \in SUBSET D : CountsEach(h, g, s)
  <1> DEFINE Bad == {n \in Nat : \E s \in SUBSET D : Cardinality(s) = n
                                    /\ \E x \in s : g[s] # g[s \ {x}] + h[x]}
  <1>1. ASSUME NEW s \in SUBSET D, s # {} PROVE g[s] = g[s \ {Taken(s)}] + h[Taken(s)]
    <2>1. g = [t \in SUBSET D |-> AddTaken(h, g, t)]
      BY DEF AddsUp
    <2>2. [t \in SUBSET D |-> AddTaken(h, g, t)][s] = AddTaken(h, g, s)
      OBVIOUS
    <2> QED  BY <1>1, <2>1, <2>2 DEF AddTaken
  <1>2. Bad = {}
    <2>1. SUFFICES ASSUME Bad # {} PROVE FALSE
      OBVIOUS
    <2>2. PICK n \in Bad : \A m \in Nat : m < n => m \notin Bad
      <3>1. Bad \in SUBSET Nat
        OBVIOUS
      <3> HIDE DEF Bad
      <3> QED  BY <2>1, <3>1, LeastOne
    <2>3. PICK s \in SUBSET D : Cardinality(s) = n /\ \E x \in s : g[s] # g[s \ {x}] + h[x]
      BY <2>2
    <2>4. PICK x \in s : g[s] # g[s \ {x}] + h[x]
      BY <2>3
    <2> DEFINE y == Taken(s)
               r == s \ {x}
    <2>5. /\ y \in s /\ s \ {y} \in SUBSET D /\ Cardinality(s \ {y}) = n - 1
          /\ n \in Nat /\ n > 0
      BY <2>3, <2>4, TakenOnce
    <2>6. x # y
      BY <1>1, <2>4
    <2>7. n - 1 \in Nat /\ n - 1 < n /\ x \in s \ {y}
      BY <2>4, <2>5, <2>6
    <2>8. g[s \ {y}] = g[(s \ {y}) \ {x}] + h[x]
      BY <2>2, <2>5, <2>7
    <2>9. r \in SUBSET D /\ Cardinality(r) = n - 1 /\ y \in r
      <3>1. IsFiniteSet(s)
        BY FS_Subset
      <3>2. Cardinality(r) = n - 1
        BY <2>3, <2>4, <3>1, FS_RemoveElement
      <3> QED  BY <2>5, <2>6, <3>2
    <2>10. g[r] = g[r \ {y}] + h[y]
      <3> HIDE DEF r, y
      <3> QED  BY <2>2, <2>7, <2>9
    <2>11. (s \ {y}) \ {x} = r \ {y} /\ r \ {y} \in SUBSET D
      OBVIOUS
    <2>12. h[x] \in Int /\ h[y] \in Int /\ g[r \ {y}] \in Int
      BY <2>4, <2>5, <2>11 DEF Numbers
    <2>13. g[s] = g[s \ {y}] + h[y]
      BY <1>1, <2>4
    <2>14. g[s] = (g[r \ {y}] + h[x]) + h[y]
      BY <2>8, <2>11, <2>13
    <2>15. g[s] = g[r] + h[x]
      <3> HIDE DEF r, y
      <3> QED  BY <2>10, <2>12, <2>14
    <2> QED  BY <2>4, <2>15
  <1>3. ASSUME NEW s \in SUBSET D, NEW x \in s PROVE g[s] = g[s \ {x}] + h[x]
    <2>1. Cardinality(s) \in Nat
      BY FS_Subset, FS_CardinalityType
    <2>2. Cardinality(s) \notin Bad
      BY <1>2
    <2> QED  BY <2>1, <2>2
  <1> QED  BY <1>3 DEF CountsEach

\* A sum over a part of a set is what one function for the whole set says.
LEMMA SumOfPart ==
    ASSUME NEW D, IsFiniteSet(D), NEW h, Numbers(h, D), NEW g, AddsUp(h, D, g),
           NEW S \in SUBSET D, NEW k, Alike(h, k, S)
    PROVE  SumOver(k, S) = g[S] /\ g[S] \in Int
  <1>1. IsFiniteSet(S)
    BY FS_Subset
  <1>2. Numbers(k, S)
    BY DEF Numbers, Alike
  <1>3. PICK f \in [SUBSET S -> Int] : AddsUp(k, S, f) /\ SumOver(k, S) = f[S]
    BY <1>1, <1>2, SumIsFold
  <1>4. \A s \in SUBSET S : g[s] = f[s]
    BY <1>3, SumIsOne
  <1>5. S \in SUBSET S
    OBVIOUS
  <1> QED  BY <1>3, <1>4, <1>5

\* A sum of numbers is a number, and depends on the numbers in the set only.
LEMMA SumIsNumber ==
    ASSUME NEW S, IsFiniteSet(S), NEW h, Numbers(h, S), NEW k, Alike(h, k, S)
    PROVE  SumOver(h, S) \in Int /\ SumOver(k, S) = SumOver(h, S)
  <1>1. PICK g \in [SUBSET S -> Int] : AddsUp(h, S, g)
    BY SumExists
  <1>2. Alike(h, h, S) /\ S \in SUBSET S
    BY DEF Alike
  <1>3. SumOver(h, S) = g[S] /\ g[S] \in Int
    BY <1>1, <1>2, SumOfPart
  <1>4. SumOver(k, S) = g[S]
    BY <1>1, <1>2, SumOfPart
  <1> QED  BY <1>3, <1>4

\* Nothing sums up to 0.
LEMMA SumOfNone ==
    ASSUME NEW h
    PROVE  SumOver(h, {}) = 0
  <1>1. IsFiniteSet({}) /\ Numbers(h, {}) /\ {} \in SUBSET {}
    BY FS_EmptySet DEF Numbers
  <1>2. PICK g \in [SUBSET {} -> Int] : AddsUp(h, {}, g) /\ SumOver(h, {}) = g[{}]
    BY <1>1, SumIsFold
  <1>3. g = [s \in SUBSET {} |-> AddTaken(h, g, s)]
    BY <1>2 DEF AddsUp
  <1>4. [s \in SUBSET {} |-> AddTaken(h, g, s)][{}] = AddTaken(h, g, {})
    BY <1>1
  <1> QED  BY <1>2, <1>3, <1>4 DEF AddTaken

\* A member of the set counts once.
LEMMA SumOfMember ==
    ASSUME NEW S, IsFiniteSet(S), NEW h, Numbers(h, S), NEW x \in S
    PROVE  SumOver(h, S) = SumOver(h, S \ {x}) + h[x]
  <1>1. PICK g \in [SUBSET S -> Int] : AddsUp(h, S, g)
    BY SumExists
  <1>2. S \in SUBSET S /\ S \ {x} \in SUBSET S
    OBVIOUS
  <1>3. Alike(h, h, S) /\ Alike(h, h, S \ {x})
    BY DEF Alike
  <1>4. SumOver(h, S) = g[S] /\ SumOver(h, S \ {x}) = g[S \ {x}]
    BY <1>1, <1>2, <1>3, SumOfPart
  <1>5. CountsEach(h, g, S)
    BY <1>1, <1>2, SumWithOne
  <1> QED  BY <1>4, <1>5 DEF CountsEach

-----------------------------------------------------------------------------
(* The same sum as MapThenSumSet has it, and what it takes to compare      *)
(* averages and to take a first one.                                       *)

SumOfMap(h, S) == MapThenSumSet(LAMBDA t : h[t], S)

\* AddTaken, the other way round.
TakenAdded(h, g, s) == IF s = {} THEN 0 ELSE h[Taken(s)] + g[s \ {Taken(s)}]

\* A sum of numbers is a number.
LEMMA MapSumIsNumber ==
    ASSUME NEW S, IsFiniteSet(S), NEW h, Numbers(h, S)
    PROVE  SumOfMap(h, S) \in Int
  <1> DEFINE iter == CHOOSE g : g = [s \in SUBSET S |-> TakenAdded(h, g, s)]
  <1>1. PICK k \in [SUBSET S -> Int] : AddsUp(h, S, k)
    BY SumExists
  <1>2. k = [s \in SUBSET S |-> TakenAdded(h, k, s)]
    <2>1. ASSUME NEW s \in SUBSET S PROVE AddTaken(h, k, s) = TakenAdded(h, k, s)
      <3>1. CASE s = {}
        BY <3>1 DEF AddTaken, TakenAdded
      <3>2. CASE s # {}
        <4>1. Taken(s) \in S /\ s \ {Taken(s)} \in SUBSET S
          BY <3>2, TakenOnce
        <4>2. h[Taken(s)] \in Int /\ k[s \ {Taken(s)}] \in Int
          BY <1>1, <4>1 DEF Numbers
        <4> QED  BY <3>2, <4>2 DEF AddTaken, TakenAdded
      <3> QED  BY <3>1, <3>2
    <2>2. k = [s \in SUBSET S |-> AddTaken(h, k, s)]
      BY <1>1 DEF AddsUp
    <2> QED  BY <2>1, <2>2
  <1>3. iter = [s \in SUBSET S |-> TakenAdded(h, iter, s)]
    BY <1>2
  <1>4. SumOfMap(h, S) = iter[S]
    BY DEF SumOfMap, MapThenSumSet, MapThenFoldSet, TakenAdded, Taken
  <1> HIDE DEF iter
  <1> DEFINE Bad == {n \in Nat : \E s \in SUBSET S : Cardinality(s) = n /\ iter[s] \notin Int}
  <1>5. Bad = {}
    <2>1. SUFFICES ASSUME Bad # {} PROVE FALSE
      OBVIOUS
    <2>2. PICK n \in Bad : \A m \in Nat : m < n => m \notin Bad
      <3>1. Bad \in SUBSET Nat
        OBVIOUS
      <3> HIDE DEF Bad
      <3> QED  BY <2>1, <3>1, LeastOne
    <2>3. PICK s \in SUBSET S : Cardinality(s) = n /\ iter[s] \notin Int
      BY <2>2
    <2>4. iter[s] = TakenAdded(h, iter, s)
      <3>1. [x \in SUBSET S |-> TakenAdded(h, iter, x)][s] = TakenAdded(h, iter, s)
        OBVIOUS
      <3> QED  BY <1>3, <3>1
    <2>5. CASE s = {}
      BY <2>3, <2>4, <2>5 DEF TakenAdded
    <2>6. CASE s # {}
      <3> DEFINE r == s \ {Taken(s)}
      <3>1. /\ Taken(s) \in S /\ r \in SUBSET S /\ Cardinality(r) = n - 1 /\ n \in Nat /\ n > 0
        BY <2>3, <2>6, TakenOnce
      <3>2. n - 1 \in Nat /\ n - 1 < n
        BY <3>1
      <3>3. iter[r] \in Int /\ h[Taken(s)] \in Int
        BY <2>2, <3>1, <3>2 DEF Numbers
      <3> QED  BY <2>3, <2>4, <2>6, <3>3 DEF TakenAdded
    <2> QED  BY <2>5, <2>6
  <1>6. Cardinality(S) \in Nat /\ S \in SUBSET S
    BY FS_CardinalityType
  <1> QED  BY <1>4, <1>5, <1>6

\* Fractions over the same number compare as what is above the line.
LEMMA SameDivisor ==
    ASSUME NEW n \in Nat, n > 0, NEW a \in Int, NEW b \in Int
    PROVE  a * n > b * n <=> a > b
  <1>1. ASSUME NEW x \in Int, NEW y \in Int, x > y PROVE x * n > y * n
    <2>1. (x - y) * n > 0
      BY <1>1
    <2>2. (x - y) * n = x * n - y * n
      OBVIOUS
    <2> QED  BY <2>1, <2>2
  <1> QED  BY <1>1
=============================================================================
