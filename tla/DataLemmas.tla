------------------------------ MODULE DataLemmas ------------------------------
(***************************************************************************)
(* Lemmas about numbers, finite sets and sequences that the proofs of      *)
(* several components cite.  The induction principles are stated for a set *)
(* of numbers or of subsets instead of a predicate on them.                *)
(***************************************************************************)
EXTENDS Integers, SequencesExt, WellFoundedInduction, FiniteSetTheorems, SequenceTheorems, TLAPS

-----------------------------------------------------------------------------
(***************************************************************************)
(* Induction over numbers and over the subsets of a finite set.            *)
(***************************************************************************)

\* A nonempty set of numbers has a least one.
LEMMA LeastNumber ==
  ASSUME NEW S \in SUBSET Nat, S # {}
  PROVE  \E m \in S : \A k \in S : m <= k
<1>1. PICK m \in S : \A k \in S : ~(<<k, m>> \in OpToRel(<, Nat))
  <2>1. IsWellFoundedOn(OpToRel(<, Nat), Nat)
    BY NatLessThanWellFounded
  <2> HIDE DEF OpToRel
  <2> QED
    BY <2>1, WFMin, Zenon
<1>2. ASSUME NEW k \in S PROVE m <= k
  <2>1. ~ (k < m)
    BY <1>1 DEF OpToRel
  <2> QED
    BY <2>1
<1> QED
  BY <1>2

\* Induction over the numbers, for a set of numbers.
LEMMA NumbersByInduction ==
  ASSUME NEW P \in SUBSET Nat, 0 \in P, \A n \in P : n + 1 \in P
  PROVE  P = Nat
<1> SUFFICES ASSUME Nat \ P # {} PROVE FALSE
  OBVIOUS
<1>1. PICK m \in Nat \ P : \A k \in Nat \ P : m <= k
  BY LeastNumber
<1>2. m - 1 \in P
  BY <1>1
<1>3. (m - 1) + 1 = m
  BY <1>1
<1> QED
  BY <1>1, <1>2, <1>3

LEMMA OneLess ==
  ASSUME NEW T, IsFiniteSet(T), NEW n \in Nat, Cardinality(T) = n + 1, NEW x \in T
  PROVE  Cardinality(T \ {x}) = n
<1>1. PICK c \in Nat : c = Cardinality(T) /\ Cardinality(T \ {x}) = c - 1
  BY FS_RemoveElement, FS_CardinalityType
<1> QED
  BY <1>1

\* Induction over the subsets of a finite set, for a set of them.
LEMMA SubsetsByInduction ==
  ASSUME NEW S, IsFiniteSet(S), NEW P \in SUBSET (SUBSET S), {} \in P,
         \A T \in P : \A x \in S \ T : T \cup {x} \in P
  PROVE  S \in P
<1> DEFINE N == {n \in Nat : \A T \in SUBSET S : Cardinality(T) = n => T \in P}
<1>1. \A T \in SUBSET S : IsFiniteSet(T) /\ Cardinality(T) \in Nat
  BY FS_Subset, FS_CardinalityType
<1>2. 0 \in N
  BY <1>1, FS_EmptySet
<1>3. ASSUME NEW n \in N PROVE n + 1 \in N
  <2> SUFFICES ASSUME NEW T \in SUBSET S, Cardinality(T) = n + 1
               PROVE  T \in P
    OBVIOUS
  <2>0. n \in Nat /\ n + 1 # 0
    OBVIOUS
  <2>1. PICK x \in T : TRUE
    BY <2>0, FS_EmptySet
  <2>2. Cardinality(T \ {x}) = n
    BY <2>0, <1>1, OneLess
  <2>3. T \ {x} \in P
    BY <2>0, <2>2
  <2>4. (T \ {x}) \cup {x} \in P
    BY <2>3, <2>1
  <2>5. (T \ {x}) \cup {x} = T
    BY <2>1
  <2> QED
    BY <2>4, <2>5
<1>4. N = Nat
  <2> HIDE DEF N
  <2>1. N \subseteq Nat
    BY DEF N
  <2> QED
    BY <1>2, <1>3, <2>1, NumbersByInduction
<1> QED
  BY <1>1, <1>4

-----------------------------------------------------------------------------
(***************************************************************************)
(* The sum of a function over a set of its domain, as the community modules *)
(* write it.                                                               *)
(***************************************************************************)

SumOver(f, S) == FoldFunctionOnSet(+, 0, f, S)
Pick(s) == CHOOSE x \in s : TRUE
SumStep(f, S, g) == [s \in S |-> IF s = {} THEN 0 ELSE f[Pick(s)] + g[s \ {Pick(s)}]]
Sums(f, S) == CHOOSE g : g = SumStep(f, SUBSET S, g)

LEMMA SumIsSums == ASSUME NEW f, NEW S PROVE SumOver(f, S) = Sums(f, S)[S]
BY Zenon DEF SumOver, Sums, SumStep, Pick, FoldFunctionOnSet, MapThenFoldSet

LEMMA PickIsElement == ASSUME NEW s, s # {} PROVE Pick(s) \in s
BY DEF Pick

\* The recursion has a solution.
LEMMA SumsExist ==
  ASSUME NEW f, NEW S, IsFiniteSet(S)
  PROVE  Sums(f, S) = SumStep(f, SUBSET S, Sums(f, S))
<1> DEFINE Upto(n) == {s \in SUBSET S : Cardinality(s) <= n}
           N == {n \in Nat : \E g : g = SumStep(f, Upto(n), g)}
<1>0. \A T \in SUBSET S : IsFiniteSet(T) /\ Cardinality(T) \in Nat /\ Cardinality(T) <= Cardinality(S)
  BY FS_Subset, FS_CardinalityType
<1>1. 0 \in N
  <2>1. \A s \in Upto(0) : s = {}
    BY <1>0, FS_EmptySet
  <2> DEFINE g == [s \in Upto(0) |-> 0]
  <2>2. g = SumStep(f, Upto(0), g)
    BY <2>1 DEF SumStep
  <2> QED
    BY <2>2
<1>2. ASSUME NEW n \in N PROVE n + 1 \in N
  <2>1. PICK g : g = SumStep(f, Upto(n), g)
    OBVIOUS
  <2> DEFINE h == SumStep(f, Upto(n + 1), g)
  <2>2. ASSUME NEW s \in Upto(n) PROVE h[s] = g[s] /\ s \in Upto(n + 1)
    <3>1. s \in Upto(n + 1)
      BY <1>0
    <3>2. g[s] = IF s = {} THEN 0 ELSE f[Pick(s)] + g[s \ {Pick(s)}]
      BY <2>1 DEF SumStep
    <3>3. h[s] = IF s = {} THEN 0 ELSE f[Pick(s)] + g[s \ {Pick(s)}]
      BY <3>1 DEF SumStep
    <3> QED
      BY <3>1, <3>2, <3>3
  <2>3. ASSUME NEW s \in Upto(n + 1), s # {} PROVE s \ {Pick(s)} \in Upto(n)
    <3>1. Pick(s) \in s
      BY <2>3, PickIsElement
    <3>2. Cardinality(s \ {Pick(s)}) = Cardinality(s) - 1
      BY <1>0, <3>1, FS_RemoveElement
    <3> QED
      BY <1>0, <3>2
  <2>4. h = SumStep(f, Upto(n + 1), h)
    <3>1. ASSUME NEW s \in Upto(n + 1) PROVE h[s] = IF s = {} THEN 0 ELSE f[Pick(s)] + h[s \ {Pick(s)}]
      <4>1. h[s] = IF s = {} THEN 0 ELSE f[Pick(s)] + g[s \ {Pick(s)}]
        BY DEF SumStep
      <4> QED
        BY <4>1, <2>2, <2>3
    <3>2. h = [s \in Upto(n + 1) |-> h[s]]
      BY DEF SumStep
    <3> HIDE DEF h
    <3> QED
      BY <3>1, <3>2 DEF SumStep
  <2> HIDE DEF h, Upto
  <2>5. n + 1 \in Nat /\ \E i : i = SumStep(f, Upto(n + 1), i)
    BY <2>4
  <2> QED
    BY <2>5
<1>3. N = Nat
  <2> HIDE DEF N
  <2>1. N \subseteq Nat
    BY DEF N
  <2> QED
    BY <1>1, <1>2, <2>1, NumbersByInduction
<1>4. Cardinality(S) \in N
  BY <1>0, <1>3, FS_CardinalityType
<1>5. Upto(Cardinality(S)) = SUBSET S
  BY <1>0
<1>6. \E g : g = SumStep(f, SUBSET S, g)
  BY <1>4, <1>5
<1> QED
  BY <1>6, Zenon DEF Sums

\* It does not depend on the set it is a recursion over.
LEMMA SumsAgree ==
  ASSUME NEW f, NEW S, IsFiniteSet(S), NEW T \in SUBSET S
  PROVE  Sums(f, S)[T] = SumOver(f, T)
<1> DEFINE N == {n \in Nat : \A s \in SUBSET T : Cardinality(s) = n => Sums(f, S)[s] = Sums(f, T)[s]}
<1>0. IsFiniteSet(T) /\ \A s \in SUBSET T : IsFiniteSet(s) /\ Cardinality(s) \in Nat
  BY FS_Subset, FS_CardinalityType
<1>1. \A s \in SUBSET T :
        /\ Sums(f, S)[s] = IF s = {} THEN 0 ELSE f[Pick(s)] + Sums(f, S)[s \ {Pick(s)}]
        /\ Sums(f, T)[s] = IF s = {} THEN 0 ELSE f[Pick(s)] + Sums(f, T)[s \ {Pick(s)}]
  <2> DEFINE a == Sums(f, S)
             b == Sums(f, T)
  <2>1. a = SumStep(f, SUBSET S, a) /\ b = SumStep(f, SUBSET T, b)
    BY <1>0, SumsExist
  <2>2. \A s \in SUBSET T : s \in SUBSET S
    OBVIOUS
  <2> HIDE DEF a, b
  <2>3. \A s \in SUBSET T :
        /\ a[s] = IF s = {} THEN 0 ELSE f[Pick(s)] + a[s \ {Pick(s)}]
        /\ b[s] = IF s = {} THEN 0 ELSE f[Pick(s)] + b[s \ {Pick(s)}]
    BY <2>1, <2>2 DEF SumStep
  <2> QED
    BY <2>3 DEF a, b
<1>2. 0 \in N
  BY <1>0, <1>1, FS_EmptySet
<1>3. ASSUME NEW n \in N PROVE n + 1 \in N
  <2> SUFFICES ASSUME NEW s \in SUBSET T, Cardinality(s) = n + 1
               PROVE  Sums(f, S)[s] = Sums(f, T)[s]
    OBVIOUS
  <2>0. n \in Nat /\ n + 1 # 0
    OBVIOUS
  <2>1. s # {}
    BY <2>0, FS_EmptySet
  <2>2. Pick(s) \in s
    BY <2>1, PickIsElement
  <2>3. Cardinality(s \ {Pick(s)}) = n
    BY <2>0, <1>0, <2>2, OneLess
  <2>4. Sums(f, S)[s \ {Pick(s)}] = Sums(f, T)[s \ {Pick(s)}]
    BY <2>3
  <2> QED
    BY <1>1, <2>1, <2>4
<1>4. N = Nat
  <2> HIDE DEF N
  <2>1. N \subseteq Nat
    BY DEF N
  <2> QED
    BY <1>2, <1>3, <2>1, NumbersByInduction
<1>5. Sums(f, S)[T] = Sums(f, T)[T]
  BY <1>0, <1>4
<1> QED
  BY <1>5, SumIsSums

\* The sum of nothing, and the sum with the element that the recursion picks.
LEMMA SumPicks ==
  ASSUME NEW f, NEW S, IsFiniteSet(S)
  PROVE  /\ SumOver(f, {}) = 0
         /\ S # {} => SumOver(f, S) = f[Pick(S)] + SumOver(f, S \ {Pick(S)})
<1>1. ASSUME NEW T, IsFiniteSet(T) PROVE SumOver(f, T) = IF T = {} THEN 0 ELSE f[Pick(T)] + Sums(f, T)[T \ {Pick(T)}]
  <2> DEFINE a == Sums(f, T)
  <2>1. a = SumStep(f, SUBSET T, a)
    BY <1>1, SumsExist
  <2> HIDE DEF a
  <2>2. a[T] = IF T = {} THEN 0 ELSE f[Pick(T)] + a[T \ {Pick(T)}]
    BY <2>1 DEF SumStep
  <2> QED
    BY <2>2, SumIsSums DEF a
<1>2. Sums(f, S)[S \ {Pick(S)}] = SumOver(f, S \ {Pick(S)})
  BY SumsAgree
<1>3. IsFiniteSet({})
  BY FS_EmptySet
<1> HIDE DEF SumOver, Sums
<1> QED
  BY <1>1, <1>2, <1>3

\* Sums of numbers are numbers.
LEMMA SumIsNumber ==
  ASSUME NEW S, IsFiniteSet(S), NEW f, \A x \in S : f[x] \in Nat
  PROVE  SumOver(f, S) \in Nat
<1> DEFINE N == {n \in Nat : \A T \in SUBSET S : Cardinality(T) = n => SumOver(f, T) \in Nat}
<1> HIDE DEF SumOver
<1>0. \A T \in SUBSET S : IsFiniteSet(T) /\ Cardinality(T) \in Nat
  BY FS_Subset, FS_CardinalityType
<1>1. 0 \in N
  <2>1. \A T \in SUBSET S : Cardinality(T) = 0 => T = {}
    BY <1>0, FS_EmptySet
  <2>2. SumOver(f, {}) = 0
    BY SumPicks
  <2> QED
    BY <2>1, <2>2
<1>2. ASSUME NEW n \in N PROVE n + 1 \in N
  <2>0. n \in Nat /\ n + 1 # 0 /\ n + 1 \in Nat
    OBVIOUS
  <2> SUFFICES ASSUME NEW T \in SUBSET S, Cardinality(T) = n + 1
               PROVE  SumOver(f, T) \in Nat
    BY <2>0
  <2>1. T # {}
    BY <2>0, FS_EmptySet
  <2>2. Pick(T) \in T
    BY <2>1, PickIsElement
  <2>3. Cardinality(T \ {Pick(T)}) = n /\ T \ {Pick(T)} \in SUBSET S
    BY <2>0, <2>2, <1>0, OneLess
  <2>4. SumOver(f, T \ {Pick(T)}) \in Nat /\ f[Pick(T)] \in Nat
    BY <2>2, <2>3
  <2>5. SumOver(f, T) = f[Pick(T)] + SumOver(f, T \ {Pick(T)})
    BY <1>0, <2>1, SumPicks
  <2> QED
    BY <2>4, <2>5
<1>3. N = Nat
  <2> HIDE DEF N
  <2>1. N \subseteq Nat
    BY DEF N
  <2> QED
    BY <1>1, <1>2, <2>1, NumbersByInduction
<1> QED
  BY <1>0, <1>3

\* Any element may be taken out, not only the one that the recursion picks.
LEMMA SumTakesOut ==
  ASSUME NEW S, IsFiniteSet(S), NEW f, \A x \in S : f[x] \in Nat
  PROVE  \A x \in S : SumOver(f, S) = f[x] + SumOver(f, S \ {x})
<1> DEFINE N == {n \in Nat : \A T \in SUBSET S : Cardinality(T) = n =>
                    \A x \in T : SumOver(f, T) = f[x] + SumOver(f, T \ {x})}
<1> HIDE DEF SumOver
<1>0. \A T \in SUBSET S : IsFiniteSet(T) /\ Cardinality(T) \in Nat /\ SumOver(f, T) \in Nat
  BY FS_Subset, FS_CardinalityType, SumIsNumber
<1>1. 0 \in N
  <2>1. \A T \in SUBSET S : Cardinality(T) = 0 => T = {}
    BY <1>0, FS_EmptySet
  <2> QED
    BY <2>1
<1>2. ASSUME NEW n \in N PROVE n + 1 \in N
  <2>0. n \in Nat /\ n + 1 # 0 /\ n + 1 \in Nat
    OBVIOUS
  <2>1. \A T \in SUBSET S : Cardinality(T) = n => \A x \in T : SumOver(f, T) = f[x] + SumOver(f, T \ {x})
    OBVIOUS
  <2> SUFFICES ASSUME NEW T \in SUBSET S, Cardinality(T) = n + 1, NEW x \in T
               PROVE  SumOver(f, T) = f[x] + SumOver(f, T \ {x})
    BY <2>0
  <2>2. T # {}
    OBVIOUS
  <2>3. PICK c \in T : SumOver(f, T) = f[c] + SumOver(f, T \ {c})
    <3>1. SumOver(f, T) = f[Pick(T)] + SumOver(f, T \ {Pick(T)})
      BY <1>0, <2>2, SumPicks
    <3>2. Pick(T) \in T
      BY <2>2, PickIsElement
    <3> QED
      BY <3>1, <3>2
  <2>4. \A y \in T : Cardinality(T \ {y}) = n /\ T \ {y} \in SUBSET S
    BY <2>0, <1>0, OneLess
  <2>5. CASE x # c
    <3>1. SumOver(f, T \ {c}) = f[x] + SumOver(f, (T \ {c}) \ {x})
      BY <2>1, <2>4, <2>5
    <3>2. SumOver(f, T \ {x}) = f[c] + SumOver(f, (T \ {x}) \ {c})
      BY <2>1, <2>4, <2>5
    <3>3. (T \ {c}) \ {x} = (T \ {x}) \ {c} /\ (T \ {x}) \ {c} \in SUBSET S
      OBVIOUS
    <3>4. PICK d \in Nat : d = SumOver(f, (T \ {x}) \ {c})
      BY <3>3, <1>0
    <3>5. f[x] \in Nat /\ f[c] \in Nat
      OBVIOUS
    <3>6. SumOver(f, T) = f[c] + (f[x] + d) /\ SumOver(f, T \ {x}) = f[c] + d
      BY <2>3, <3>1, <3>2, <3>3, <3>4
    <3> QED
      BY <3>4, <3>5, <3>6
  <2> QED
    BY <2>3, <2>5
<1>3. N = Nat
  <2> HIDE DEF N
  <2>1. N \subseteq Nat
    BY DEF N
  <2> QED
    BY <1>1, <1>2, <2>1, NumbersByInduction
<1>4. Cardinality(S) \in N
  BY <1>0, <1>3
<1> QED
  BY <1>4

\* Another element adds what it has.
LEMMA SumAdds ==
  ASSUME NEW S, IsFiniteSet(S), NEW f, NEW x, x \notin S, \A y \in S \cup {x} : f[y] \in Nat
  PROVE  SumOver(f, S \cup {x}) = f[x] + SumOver(f, S)
<1> HIDE DEF SumOver
<1>1. IsFiniteSet(S \cup {x}) /\ (S \cup {x}) \ {x} = S
  BY FS_AddElement
<1> QED
  BY <1>1, SumTakesOut

\* A sum of larger numbers is larger.
LEMMA SumIsMonotone ==
  ASSUME NEW S, IsFiniteSet(S), NEW f, NEW g,
         \A x \in S : f[x] \in Nat /\ g[x] \in Nat /\ f[x] <= g[x]
  PROVE  SumOver(f, S) <= SumOver(g, S)
<1> DEFINE P == {T \in SUBSET S : SumOver(f, T) <= SumOver(g, T)}
<1> HIDE DEF SumOver
<1>0. \A T \in SUBSET S : IsFiniteSet(T) /\ SumOver(f, T) \in Nat /\ SumOver(g, T) \in Nat
  BY FS_Subset, SumIsNumber
<1>1. {} \in P
  <2>1. SumOver(f, {}) = 0 /\ SumOver(g, {}) = 0
    BY SumPicks
  <2> QED
    BY <2>1
<1>2. ASSUME NEW T \in P, NEW x \in S \ T PROVE T \cup {x} \in P
  <2>1. SumOver(f, T \cup {x}) = f[x] + SumOver(f, T) /\ SumOver(g, T \cup {x}) = g[x] + SumOver(g, T)
    BY <1>0, SumAdds
  <2> QED
    BY <1>0, <2>1
<1>3. S \in P
  <2> HIDE DEF P
  <2>1. P \in SUBSET (SUBSET S)
    BY DEF P
  <2> QED
    BY <1>1, <1>2, <2>1, SubsetsByInduction
<1> QED
  BY <1>3

\* The sums over two sets apart add up to the sum over both.
LEMMA SumOfUnion ==
  ASSUME NEW A, NEW B, IsFiniteSet(A), IsFiniteSet(B), A \cap B = {}, NEW f,
         \A x \in A \cup B : f[x] \in Nat
  PROVE  SumOver(f, A \cup B) = SumOver(f, A) + SumOver(f, B)
<1> DEFINE P == {T \in SUBSET B : SumOver(f, A \cup T) = SumOver(f, A) + SumOver(f, T)}
<1> HIDE DEF SumOver
<1>0. \A T \in SUBSET B : IsFiniteSet(T) /\ SumOver(f, T) \in Nat /\ IsFiniteSet(A \cup T)
  BY FS_Subset, FS_Union, SumIsNumber
<1>a. SumOver(f, A) \in Nat
  BY SumIsNumber
<1>1. {} \in P
  <2>1. SumOver(f, {}) = 0 /\ A \cup {} = A
    BY SumPicks
  <2> QED
    BY <1>a, <2>1
<1>2. ASSUME NEW T \in P, NEW x \in B \ T PROVE T \cup {x} \in P
  <2>1. SumOver(f, T \cup {x}) = f[x] + SumOver(f, T)
    BY <1>0, SumAdds
  <2>2. SumOver(f, (A \cup T) \cup {x}) = f[x] + SumOver(f, A \cup T)
    BY <1>0, SumAdds
  <2>3. (A \cup T) \cup {x} = A \cup (T \cup {x})
    OBVIOUS
  <2>4. SumOver(f, A \cup (T \cup {x})) = f[x] + (SumOver(f, A) + SumOver(f, T))
    BY <2>2, <2>3
  <2>5. f[x] \in Nat /\ SumOver(f, T) \in Nat /\ T \cup {x} \in SUBSET B
    BY <1>0
  <2> QED
    BY <1>a, <2>1, <2>4, <2>5
<1>3. B \in P
  <2> HIDE DEF P
  <2>1. P \in SUBSET (SUBSET B)
    BY DEF P
  <2> QED
    BY <1>1, <1>2, <2>1, SubsetsByInduction
<1> QED
  BY <1>3

\* The sum over a part is at most the sum over the whole.
LEMMA SumOfPart ==
  ASSUME NEW S, IsFiniteSet(S), NEW T \in SUBSET S, NEW f, \A x \in S : f[x] \in Nat
  PROVE  SumOver(f, T) <= SumOver(f, S)
<1> HIDE DEF SumOver
<1>1. IsFiniteSet(T) /\ IsFiniteSet(S \ T)
  BY FS_Subset
<1>2. SumOver(f, T) \in Nat /\ SumOver(f, S \ T) \in Nat
  BY <1>1, SumIsNumber
<1>3. T \cup (S \ T) = S /\ T \cap (S \ T) = {}
  OBVIOUS
<1>4. SumOver(f, T \cup (S \ T)) = SumOver(f, T) + SumOver(f, S \ T)
  BY <1>1, <1>3, SumOfUnion
<1>5. PICK a, b \in Nat : a = SumOver(f, T) /\ b = SumOver(f, S \ T)
  BY <1>2
<1>6. SumOver(f, S) = a + b
  BY <1>3, <1>4, <1>5
<1> QED
  BY <1>5, <1>6

\* Sums of the same numbers are the same.
LEMMA SumSame ==
  ASSUME NEW S, IsFiniteSet(S), NEW f, NEW g, \A x \in S : f[x] \in Nat /\ g[x] = f[x]
  PROVE  SumOver(g, S) = SumOver(f, S)
<1> HIDE DEF SumOver
<1>1. SumOver(f, S) \in Nat /\ SumOver(g, S) \in Nat
  BY SumIsNumber
<1>2. (\A x \in S : f[x] \in Nat /\ g[x] \in Nat /\ f[x] <= g[x])
      /\ (\A x \in S : g[x] \in Nat /\ f[x] \in Nat /\ g[x] <= f[x])
  OBVIOUS
<1>3. SumOver(f, S) <= SumOver(g, S)
  BY <1>2, SumIsMonotone
<1>4. SumOver(g, S) <= SumOver(f, S)
  BY <1>2, SumIsMonotone
<1> QED
  BY <1>1, <1>3, <1>4

\* One number more makes a sum that is as much more.
LEMMA SumGrows ==
  ASSUME NEW S, IsFiniteSet(S), NEW f, NEW g, NEW x \in S,
         \A y \in S : f[y] \in Nat /\ (y # x => g[y] = f[y]), g[x] = f[x] + 1
  PROVE  SumOver(g, S) = SumOver(f, S) + 1
<1> HIDE DEF SumOver
<1>1. IsFiniteSet(S \ {x}) /\ \A y \in S : g[y] \in Nat
  BY FS_RemoveElement
<1>2. SumOver(f, S) = f[x] + SumOver(f, S \ {x})
  BY SumTakesOut
<1>3. SumOver(g, S) = g[x] + SumOver(g, S \ {x})
  BY <1>1, SumTakesOut
<1>4. SumOver(g, S \ {x}) = SumOver(f, S \ {x})
  BY <1>1, SumSame
<1>5. SumOver(f, S \ {x}) \in Nat
  BY <1>1, SumIsNumber
<1> QED
  BY <1>2, <1>3, <1>4, <1>5

\* A sum of nothing.
LEMMA SumOfZeros ==
  ASSUME NEW S, IsFiniteSet(S), NEW f, \A x \in S : f[x] = 0
  PROVE  SumOver(f, S) = 0
<1> DEFINE P == {T \in SUBSET S : SumOver(f, T) = 0}
<1> HIDE DEF SumOver
<1>1. {} \in P
  BY SumPicks, FS_EmptySet
<1>2. ASSUME NEW T \in P, NEW x \in S \ T PROVE T \cup {x} \in P
  <2>1. IsFiniteSet(T) /\ SumOver(f, T) = 0 /\ f[x] = 0 /\ \A y \in T \cup {x} : f[y] \in Nat
    BY FS_Subset
  <2>2. SumOver(f, T \cup {x}) = f[x] + SumOver(f, T)
    BY <2>1, SumAdds
  <2> QED
    BY <2>1, <2>2
<1>3. P \in SUBSET (SUBSET S)
  OBVIOUS
<1> HIDE DEF P
<1>4. S \in P
  BY <1>1, <1>2, <1>3, SubsetsByInduction
<1> QED
  BY <1>4 DEF P

-----------------------------------------------------------------------------
(***************************************************************************)
(* Sets and sequences.                                                     *)
(***************************************************************************)

\* A sequence without repetition is as long as it has elements.
LEMMA LengthIsSize ==
  ASSUME NEW D, NEW s \in Seq(D), IsInjective(s)
  PROVE  IsFiniteSet(ToSet(s)) /\ Cardinality(ToSet(s)) = Len(s)
<1>1. IsFiniteSet(1 .. Len(s)) /\ Cardinality(1 .. Len(s)) = Len(s)
  <2>1. PICK n \in Nat : n = Len(s)
    OBVIOUS
  <2>2. IsFiniteSet(1 .. n) /\ Cardinality(1 .. n) = n
    <3>1. IsFiniteSet(1 .. n) /\ Cardinality(1 .. n) = IF 1 > n THEN 0 ELSE n - 1 + 1
      BY FS_Interval
    <3> QED
      BY <3>1
  <2> QED
    BY <2>1, <2>2
<1>2. s \in Injection(1 .. Len(s), ToSet(s)) /\ s \in Surjection(1 .. Len(s), ToSet(s))
  BY DEF Injection, Surjection, ToSet, IsInjective
<1> QED
  BY <1>1, <1>2, FS_Surjection

\* A finite set, written as a sequence, is there whole and without repeats.
LEMMA SeqOfSet ==
  ASSUME NEW S, IsFiniteSet(S)
  PROVE  /\ SetToSeq(S) \in Seq(S) /\ DOMAIN SetToSeq(S) = 1 .. Cardinality(S)
         /\ IsInjective(SetToSeq(S)) /\ ToSet(SetToSeq(S)) = S
<1> DEFINE n == Cardinality(S)
           s == SetToSeq(S)
<1>1. n \in Nat /\ ExistsBijection(1 .. n, S)
  BY FS_CardinalityType
<1>2. \E f \in [1 .. n -> S] : IsInjective(f)
  BY <1>1 DEF ExistsBijection, Bijection, Injection
<1>3. s \in [1 .. n -> S] /\ IsInjective(s)
  BY <1>2 DEF SetToSeq
<1> HIDE DEF s
<1>4. IsFiniteSet(1 .. n) /\ Cardinality(1 .. n) = n
  BY <1>1, FS_Interval
<1>5. s \in Surjection(1 .. n, S)
  BY <1>3, <1>4, FS_Injection DEF Injection
<1>6. ToSet(s) = S
  BY <1>3, <1>5 DEF Surjection, ToSet
<1> QED
  BY <1>1, <1>3, <1>6 DEF s

-----------------------------------------------------------------------------
(***************************************************************************)
(* The sequence that lists a finite set in a given order.                  *)
(***************************************************************************)

\* s lists S in the order R, the elements that come first first.
Lists(s, S, R) ==
  /\ s \in [1 .. Cardinality(S) -> S]
  /\ \A i, j \in 1 .. Cardinality(S) : i < j => <<s[i], s[j]>> \in R

\* R is a strict total order on S.
Orders(R, S) ==
  /\ \A x \in S : <<x, x>> \notin R
  /\ \A x, y \in S : x # y => <<x, y>> \in R \/ <<y, x>> \in R
  /\ \A x, y, z \in S : <<x, y>> \in R /\ <<y, z>> \in R => <<x, z>> \in R

\* What is ordered and finite has a last element.
LEMMA LastExists ==
  ASSUME NEW S, IsFiniteSet(S), S # {}, NEW R, Orders(R, S)
  PROVE  \E m \in S : \A x \in S \ {m} : <<x, m>> \in R
<1> DEFINE P == {T \in SUBSET S : T = {} \/ \E m \in T : \A x \in T \ {m} : <<x, m>> \in R}
<1>1. ASSUME NEW T \in P, NEW y \in S \ T PROVE T \cup {y} \in P
  <2>1. CASE T = {}
    BY <2>1
  <2>2. CASE T # {}
    <3>1. PICK m \in T : \A x \in T \ {m} : <<x, m>> \in R
      BY <2>2
    <3>2. CASE <<y, m>> \in R
      BY <3>1, <3>2
    <3>3. CASE <<m, y>> \in R
      <4>1. \A x \in (T \cup {y}) \ {y} : <<x, y>> \in R
        BY <3>1, <3>3 DEF Orders
      <4> QED
        BY <4>1
    <3> QED
      BY <3>1, <3>2, <3>3 DEF Orders
  <2> QED
    BY <2>1, <2>2
<1>2. S \in P
  <2>1. P \in SUBSET (SUBSET S) /\ {} \in P
    OBVIOUS
  <2> HIDE DEF P
  <2> QED
    BY <1>1, <2>1, SubsetsByInduction
<1> QED
  BY <1>2

\* A finite set can be listed in any order on it.
LEMMA ListExists ==
  ASSUME NEW S, IsFiniteSet(S), NEW R, Orders(R, S)
  PROVE  \E s : Lists(s, S, R)
<1> DEFINE N == {n \in Nat : \A T \in SUBSET S : Cardinality(T) = n => \E s : Lists(s, T, R)}
<1>0. \A T \in SUBSET S : IsFiniteSet(T) /\ Cardinality(T) \in Nat
  BY FS_Subset, FS_CardinalityType
<1>1. 0 \in N
  <2>1. \A T \in SUBSET S : Cardinality(T) = 0 => T = {}
    BY <1>0, FS_EmptySet
  <2>2. Cardinality({}) = 0
    BY FS_EmptySet
  <2>3. Lists([i \in 1 .. 0 |-> 0], {}, R)
    BY <2>2 DEF Lists
  <2> QED
    BY <2>1, <2>3
<1>2. ASSUME NEW n \in N PROVE n + 1 \in N
  <2>0. n \in Nat /\ n + 1 # 0 /\ n + 1 \in Nat
    OBVIOUS
  <2> SUFFICES ASSUME NEW T \in SUBSET S, Cardinality(T) = n + 1
               PROVE  \E s : Lists(s, T, R)
    BY <2>0
  <2>1. T # {} /\ Orders(R, T)
    BY <2>0, FS_EmptySet DEF Orders
  <2>2. PICK m \in T : \A x \in T \ {m} : <<x, m>> \in R
    BY <1>0, <2>1, LastExists
  <2>3. Cardinality(T \ {m}) = n
    BY <2>0, <1>0, OneLess
  <2>4. PICK s : Lists(s, T \ {m}, R)
    BY <2>3
  <2>5. /\ s \in [1 .. n -> T \ {m}]
        /\ \A i, j \in 1 .. n : i < j => <<s[i], s[j]>> \in R
    BY <2>3, <2>4 DEF Lists
  <2> DEFINE t == [i \in 1 .. n + 1 |-> IF i <= n THEN s[i] ELSE m]
  <2>6. \A i \in 1 .. n + 1 : i \in 1 .. n \/ i = n + 1
    BY <2>0
  <2>7. t \in [1 .. n + 1 -> T]
    BY <2>0, <2>5, <2>6
  <2>8. ASSUME NEW i \in 1 .. n + 1, NEW j \in 1 .. n + 1, i < j PROVE <<t[i], t[j]>> \in R
    <3>1. i \in 1 .. n /\ t[i] = s[i]
      BY <2>0, <2>8
    <3>2. CASE j \in 1 .. n
      BY <3>1, <3>2, <2>0, <2>5, <2>8
    <3>3. CASE j = n + 1
      <4>1. t[j] = m /\ s[i] \in T \ {m}
        BY <2>0, <2>5, <3>1, <3>3
      <4> QED
        BY <2>2, <3>1, <4>1
    <3> QED
      BY <2>6, <3>2, <3>3
  <2> HIDE DEF t
  <2>9. Lists(t, T, R)
    BY <2>7, <2>8 DEF Lists
  <2> QED
    BY <2>9
<1>3. N = Nat
  <2> HIDE DEF N
  <2>1. N \subseteq Nat
    BY DEF N
  <2> QED
    BY <1>1, <1>2, <2>1, NumbersByInduction
<1>4. Cardinality(S) \in N
  BY <1>0, <1>3
<1> QED
  BY <1>4

\* Such a list holds each element once.
LEMMA ListIs ==
  ASSUME NEW S, IsFiniteSet(S), NEW R, Orders(R, S), NEW s, Lists(s, S, R)
  PROVE  /\ s \in Seq(S) /\ Len(s) = Cardinality(S) /\ Cardinality(S) \in Nat
         /\ IsInjective(s) /\ ToSet(s) = S
<1> DEFINE n == Cardinality(S)
<1>1. n \in Nat
  BY FS_CardinalityType
<1>2. s \in [1 .. n -> S]
  BY DEF Lists
<1>3. IsInjective(s)
  <2>1. ASSUME NEW i \in 1 .. n, NEW j \in 1 .. n, s[i] = s[j] PROVE i = j
    <3>1. ~ (i < j) /\ ~ (j < i)
      BY <1>2, <2>1 DEF Lists, Orders
    <3> QED
      BY <1>1, <3>1
  <2> QED
    BY <1>2, <2>1 DEF IsInjective
<1> HIDE DEF n
<1>4. IsFiniteSet(1 .. n) /\ Cardinality(1 .. n) = n
  BY <1>1, FS_Interval
<1>5. s \in Surjection(1 .. n, S)
  BY <1>2, <1>3, <1>4, FS_Injection DEF Injection, IsInjective, n
<1>6. ToSet(s) = S
  BY <1>2, <1>5 DEF Surjection, ToSet
<1>7. s \in Seq(S) /\ Len(s) = n
  BY <1>1, <1>2
<1> QED
  BY <1>1, <1>3, <1>6, <1>7 DEF n

\* Numbers that go up and are no more than there are: each is its own place.
LEMMA StepsUp ==
  ASSUME NEW n \in Nat, NEW o \in [1 .. n -> 1 .. n],
         \A i, j \in 1 .. n : i < j => o[i] < o[j]
  PROVE  \A i \in 1 .. n : o[i] = i
<1>0. \A i \in 1 .. n : o[i] \in 1 .. n /\ o[i] \in Nat
  OBVIOUS
<1>1. \A i \in 1 .. n : o[i] >= i
  <2> DEFINE N == {k \in Nat : k + 1 \in 1 .. n => o[k + 1] >= k + 1}
  <2>1. 0 \in N
    BY <1>0
  <2>2. ASSUME NEW k \in N PROVE k + 1 \in N
    <3>1. k \in Nat /\ k + 1 \in Nat /\ (k + 1 \in 1 .. n => o[k + 1] >= k + 1)
      OBVIOUS
    <3>2. ASSUME (k + 1) + 1 \in 1 .. n PROVE o[(k + 1) + 1] >= (k + 1) + 1
      <4>1. k + 1 \in 1 .. n /\ k + 1 < (k + 1) + 1
        BY <3>1, <3>2
      <4>2. o[k + 1] < o[(k + 1) + 1]
        BY <3>2, <4>1
      <4> QED
        BY <1>0, <3>1, <3>2, <4>1, <4>2
    <3> QED
      BY <3>1, <3>2
  <2>3. N = Nat
    <3>1. N \subseteq Nat
      OBVIOUS
    <3> HIDE DEF N
    <3> QED
      BY <2>1, <2>2, <3>1, NumbersByInduction
  <2>4. ASSUME NEW i \in 1 .. n PROVE o[i] >= i
    <3>1. i - 1 \in Nat /\ (i - 1) + 1 = i
      OBVIOUS
    <3>2. i - 1 \in N
      BY <2>3, <3>1
    <3> QED
      BY <3>1, <3>2
  <2> QED
    BY <2>4
<1>2. \A i \in 1 .. n : o[i] <= i
  <2> DEFINE N == {k \in Nat : n - k \in 1 .. n => o[n - k] <= n - k}
  <2>1. 0 \in N
    BY <1>0
  <2>2. ASSUME NEW k \in N PROVE k + 1 \in N
    <3>1. k \in Nat /\ k + 1 \in Nat /\ (n - k \in 1 .. n => o[n - k] <= n - k)
      OBVIOUS
    <3>2. ASSUME n - (k + 1) \in 1 .. n PROVE o[n - (k + 1)] <= n - (k + 1)
      <4>1. n - k \in 1 .. n /\ n - (k + 1) < n - k /\ n - (k + 1) = (n - k) - 1
        BY <3>1, <3>2
      <4>2. o[n - (k + 1)] < o[n - k]
        BY <3>2, <4>1
      <4> QED
        BY <1>0, <3>1, <3>2, <4>1, <4>2
    <3> QED
      BY <3>1, <3>2
  <2>3. N = Nat
    <3>1. N \subseteq Nat
      OBVIOUS
    <3> HIDE DEF N
    <3> QED
      BY <2>1, <2>2, <3>1, NumbersByInduction
  <2>4. ASSUME NEW i \in 1 .. n PROVE o[i] <= i
    <3>1. n - i \in Nat /\ n - (n - i) = i
      OBVIOUS
    <3>2. n - i \in N
      BY <2>3, <3>1
    <3> QED
      BY <3>1, <3>2
  <2> QED
    BY <2>4
<1> QED
  BY <1>0, <1>1, <1>2

-----------------------------------------------------------------------------
(* Queues, and lists read page by page: LIMIT, OFFSET and the one more row *)
(* that tells whether there is another page (comments.ts,                  *)
(* comments-section.tsx).                                                  *)

\* One more at the end of a queue.
LEMMA AppendIs ==
  ASSUME NEW S, NEW q \in Seq(S), NEW c \in S
  PROVE  LET a == Append(q, c) IN
         /\ a \in Seq(S) /\ a # << >> /\ Len(q) \in Nat /\ Len(a) = Len(q) + 1
         /\ DOMAIN q = 1 .. Len(q) /\ DOMAIN a = DOMAIN q \cup {Len(q) + 1}
         /\ a[Len(q) + 1] = c /\ \A i \in DOMAIN q : a[i] = q[i]
<1>1. /\ Append(q, c) \in Seq(S) /\ Len(q) \in Nat /\ Len(Append(q, c)) = Len(q) + 1
      /\ DOMAIN q = 1 .. Len(q) /\ DOMAIN Append(q, c) = 1 .. Len(q) + 1
      /\ Append(q, c)[Len(q) + 1] = c /\ \A i \in 1 .. Len(q) : Append(q, c)[i] = q[i]
  OBVIOUS
<1>2. PICK n \in Nat : n = Len(q)
  BY <1>1
<1>3. 1 .. n + 1 = 1 .. n \cup {n + 1}
  BY <1>2
<1>4. Append(q, c) # << >>
  BY <1>1
<1> QED
  BY <1>1, <1>2, <1>3, <1>4

\* One less at its head.
LEMMA TailIs ==
  ASSUME NEW S, NEW q \in Seq(S), q # << >>
  PROVE  /\ Tail(q) \in Seq(S) /\ Len(q) \in Nat /\ Len(q) > 0 /\ Len(Tail(q)) = Len(q) - 1
         /\ 1 \in DOMAIN q /\ Head(q) = q[1] /\ Head(q) \in S
         /\ \A i \in DOMAIN Tail(q) : i \in Nat /\ i + 1 \in DOMAIN q /\ Tail(q)[i] = q[i + 1]
         /\ \A i \in DOMAIN q : i = 1 \/ i - 1 \in DOMAIN Tail(q)
<1>1. /\ Tail(q) \in Seq(S) /\ Len(q) \in Nat /\ Len(q) > 0 /\ Len(Tail(q)) = Len(q) - 1
      /\ DOMAIN q = 1 .. Len(q) /\ DOMAIN Tail(q) = 1 .. Len(q) - 1
      /\ \A i \in 1 .. Len(q) - 1 : Tail(q)[i] = q[i + 1]
      /\ Head(q) = q[1]
  OBVIOUS
<1>2. PICK n \in Nat : n = Len(q) /\ n > 0
  BY <1>1
<1>3. 1 \in 1 .. n /\ (\A i \in 1 .. n - 1 : i \in Nat /\ i + 1 \in 1 .. n) /\ \A i \in 1 .. n : i = 1 \/ i - 1 \in 1 .. n - 1
  BY <1>2
<1>4. q[1] \in S
  BY <1>1, <1>2, <1>3
<1> QED
  BY <1>1, <1>2, <1>3, <1>4

\* One row replaced.
LEMMA ExceptIs ==
  ASSUME NEW S, NEW q \in Seq(S), NEW i \in DOMAIN q, NEW e \in S
  PROVE  /\ [q EXCEPT ![i] = e] \in Seq(S) /\ Len([q EXCEPT ![i] = e]) = Len(q)
         /\ DOMAIN [q EXCEPT ![i] = e] = DOMAIN q
<1>1. i \in 1 .. Len(q)
  BY LenProperties
<1> QED
  BY <1>1, ExceptSeq

LEMMA PrefixIs ==
  ASSUME NEW X, NEW s \in Seq(X), NEW t \in Seq(X)
  PROVE  IsPrefix(s, t) <=> Len(s) <= Len(t) /\ \A i \in 1 .. Len(s) : s[i] = t[i]
<1>1. Len(s) \in Nat /\ Len(t) \in Nat
  OBVIOUS
<1>2. SUFFICES ASSUME Len(s) <= Len(t)
               PROVE  SubSeq(s, 1, Len(s)) = SubSeq(t, 1, Len(s)) <=> \A i \in 1 .. Len(s) : s[i] = t[i]
  BY DEF IsPrefix
<1>3. /\ SubSeq(s, 1, Len(s)) = [i \in 1 .. Len(s) |-> s[i]]
      /\ SubSeq(t, 1, Len(s)) = [i \in 1 .. Len(s) |-> t[i]]
  BY <1>1, <1>2
<1> QED
  BY <1>3

\* LIMIT and OFFSET of a list.
Cut(s, offset, limit) ==
  SubSeq(s, offset + 1, IF offset + limit < Len(s) THEN offset + limit ELSE Len(s))

\* What the cut c of s is, for any s, o and k.
CutOf(c, s, o, k) ==
  /\ Len(c) \in Nat /\ \A i \in 1 .. Len(c) : c[i] = s[o + i]
  /\ Len(c) = IF Len(s) <= o THEN 0 ELSE IF o + k < Len(s) THEN k ELSE Len(s) - o

LEMMA CutIs ==
  ASSUME NEW X, NEW s \in Seq(X), NEW o \in Nat, NEW k \in Nat
  PROVE  Cut(s, o, k) \in Seq(X) /\ CutOf(Cut(s, o, k), s, o, k)
<1>1. PICK l \in Nat : l = Len(s) /\ \A i \in 1 .. l : s[i] \in X
  OBVIOUS
<1>2. PICK e \in Nat : e = (IF o + k < l THEN o + k ELSE l)
  <2>1. (IF o + k < l THEN o + k ELSE l) \in Nat
    BY <1>1
  <2> QED
    BY <2>1, Zenon
<1>3. PICK m \in Nat : m = o + 1
  OBVIOUS
<1>4. PICK c : c = Cut(s, o, k)
  OBVIOUS
<1>5. c = SubSeq(s, m, e)
  BY <1>1, <1>2, <1>3, <1>4, Zenon DEF Cut
<1>6. m \in Int /\ e \in Int /\ \A i \in m .. e : s[i] \in X
  BY <1>1, <1>2, <1>3
<1>7. /\ c \in Seq(X) /\ Len(c) = IF m <= e THEN e - m + 1 ELSE 0
      /\ \A i \in 1 .. e - m + 1 : c[i] = s[m + i - 1]
  BY <1>5, <1>6, SubSeqProperties
<1>8. Len(c) \in Nat /\ Len(c) = IF l <= o THEN 0 ELSE IF o + k < l THEN k ELSE l - o
  BY <1>1, <1>2, <1>3, <1>7
<1>9. \A i \in 1 .. Len(c) : i \in 1 .. e - m + 1 /\ m + i - 1 = o + i
  BY <1>2, <1>3, <1>7
<1>10. CutOf(c, s, o, k)
  BY <1>1, <1>7, <1>8, <1>9 DEF CutOf
<1> QED
  BY <1>4, <1>7, <1>10

\* A page of n of a list, read with one more to know whether there is another.
PageOf(page, more, list, o, n) ==
  /\ Len(page) \in Nat /\ \A i \in 1 .. Len(page) : page[i] = list[o + i]
  /\ more <=> Len(list) > o + n
  /\ more => Len(page) = n
  /\ o <= Len(list) => Len(page) = IF more THEN n ELSE Len(list) - o

LEMMA PageIs ==
  ASSUME NEW X, NEW list \in Seq(X), NEW o \in Nat, NEW n \in Nat, NEW k \in Nat, k = n + 1,
         NEW rest, rest = Cut(list, o, k), NEW page, page = Cut(rest, 0, n)
  PROVE  page \in Seq(X) /\ PageOf(page, Len(rest) > n, list, o, n)
<1>1. rest \in Seq(X) /\ CutOf(rest, list, o, k)
  BY CutIs
<1>2. page \in Seq(X) /\ CutOf(page, rest, 0, n)
  <2>1. 0 \in Nat
    OBVIOUS
  <2> QED
    BY <1>1, <2>1, CutIs
<1>3. PICK l, r, p \in Nat : l = Len(list) /\ r = Len(rest) /\ p = Len(page)
  <2>1. Len(list) \in Nat /\ Len(rest) \in Nat /\ Len(page) \in Nat
    BY <1>1, <1>2
  <2> QED
    BY <2>1, Zenon
<1>4. /\ r = IF l <= o THEN 0 ELSE IF o + k < l THEN k ELSE l - o
      /\ \A i \in 1 .. r : rest[i] = list[o + i]
  BY <1>1, <1>3 DEF CutOf
<1>5. /\ p = IF r <= 0 THEN 0 ELSE IF 0 + n < r THEN n ELSE r - 0
      /\ \A i \in 1 .. p : page[i] = rest[0 + i]
  BY <1>2, <1>3 DEF CutOf
<1>6. (r > n <=> l > o + n) /\ (r > n => p = n) /\ p <= r
      /\ (o <= l => p = IF r > n THEN n ELSE l - o)
  BY <1>4, <1>5
<1>7. \A i \in 1 .. p : i \in 1 .. r /\ 0 + i = i
  BY <1>6
<1>8. \A i \in 1 .. p : page[i] = list[o + i]
  BY <1>4, <1>5, <1>7
<1> QED
  BY <1>2, <1>3, <1>6, <1>8 DEF PageOf

\* What was shown from the first on, with the page that follows, is again shown
\* from the first on.
LEMMA PageFollows ==
  ASSUME NEW X, NEW list \in Seq(X), NEW c \in Seq(X), IsPrefix(c, list), NEW n \in Nat,
         NEW page \in Seq(X), NEW more, PageOf(page, more, list, Len(c), n)
  PROVE  IsPrefix(c \o page, list) /\ (more <=> Len(list) > Len(c \o page))
<1>1. PICK a, b, l \in Nat : a = Len(c) /\ b = Len(page) /\ l = Len(list)
  <2>1. Len(c) \in Nat /\ Len(page) \in Nat /\ Len(list) \in Nat
    BY LenProperties
  <2> QED
    BY <2>1, Zenon
<1>2. a <= l /\ \A i \in 1 .. a : c[i] = list[i]
  <2>1. Len(c) <= Len(list) /\ \A i \in 1 .. Len(c) : c[i] = list[i]
    BY PrefixIs
  <2> QED
    BY <1>1, <2>1, Zenon
<1>3. c \o page \in Seq(X) /\ Len(c \o page) = a + b
  BY <1>1, ConcatProperties
<1>4. /\ more <=> l > a + n
      /\ b = IF more THEN n ELSE l - a
      /\ \A i \in 1 .. b : page[i] = list[a + i]
  BY <1>1, <1>2 DEF PageOf
<1>5. ASSUME NEW i \in 1 .. a + b PROVE (c \o page)[i] = list[i]
  <2>1. CASE i <= a
    BY <1>1, <1>2, <2>1
  <2>2. CASE i > a
    <3>1. i - a \in 1 .. b /\ a + (i - a) = i
      BY <1>1, <2>2
    <3>2. (c \o page)[i] = page[i - a]
      BY <1>1, <2>2
    <3> QED
      BY <1>4, <3>1, <3>2
  <2> QED
    BY <1>1, <2>1, <2>2
<1>6. a + b <= l /\ (more <=> l > a + b)
  BY <1>1, <1>2, <1>4
<1>7. IsPrefix(c \o page, list)
  BY <1>1, <1>3, <1>5, <1>6, PrefixIs
<1> QED
  BY <1>1, <1>3, <1>6, <1>7

LEMMA FirstPageIs ==
  ASSUME NEW X, NEW list \in Seq(X), NEW n \in Nat,
         NEW page \in Seq(X), NEW more \in BOOLEAN, PageOf(page, more, list, 0, n)
  PROVE  IsPrefix(page, list) /\ more = (Len(list) > Len(page))
<1>1. << >> \in Seq(X) /\ Len(<< >>) = 0
  BY EmptySeq
<1>2. PICK e \in Seq(X) : e = << >> /\ Len(e) = 0
  BY <1>1
<1>3. Len(e) <= Len(list) /\ \A i \in 1 .. Len(e) : e[i] = list[i]
  BY <1>2, LenProperties
<1>4. IsPrefix(e, list) /\ PageOf(page, more, list, Len(e), n)
  BY <1>2, <1>3, PrefixIs
<1>5. IsPrefix(e \o page, list) /\ (more <=> Len(list) > Len(e \o page))
  BY <1>4, PageFollows
<1>6. e \o page = page
  BY <1>2, ConcatEmptySeq
<1> QED
  BY <1>5, <1>6

=============================================================================
